---------------------- MODULE InstanceLifecycleProofs ----------------------
(***************************************************************************)
(* Proofs about InstanceLifecycle, for every set of gateways, leaves and   *)
(* initiators.                                                             *)
(***************************************************************************)
EXTENDS InstanceLifecycle, TLAPS

USE DEF interpVars, leafVars, gatewayVars, chanVars, actVars, ghostVars, ClearPause

\* Removing an open park from the sequence of parks.
LEMMA ParksWithoutType ==
    ASSUME NEW g, parks \in Seq(Gateways), Parked(g)
    PROVE  /\ ParksWithout(g) \in Seq(Gateways)
           /\ Len(ParksWithout(g)) = Len(parks) - 1
           /\ \A h : (h # g /\ Parked(h)) =>
                \E i \in 1..Len(ParksWithout(g)) : ParksWithout(g)[i] = h
<1> DEFINE k == CHOOSE i \in 1..Len(parks) : parks[i] = g
           s == [i \in 1..(Len(parks) - 1) |-> IF i < k THEN parks[i] ELSE parks[i + 1]]
<1>1. k \in 1..Len(parks) /\ parks[k] = g
  BY DEF Parked
<1>2. Len(parks) \in Nat /\ Len(parks) >= 1
  BY <1>1
<1>3. s = ParksWithout(g)
  BY DEF ParksWithout
<1> HIDE DEF k
<1>4. \A i \in 1..(Len(parks) - 1) : s[i] \in Gateways
  BY <1>1, <1>2
<1>5. s \in Seq(Gateways) /\ Len(s) = Len(parks) - 1
  BY <1>2, <1>4
<1>6. ASSUME NEW h, h # g, Parked(h)
      PROVE  \E i \in 1..Len(s) : s[i] = h
  <2>1. PICK j \in 1..Len(parks) : parks[j] = h
    BY <1>6 DEF Parked
  <2>2. j # k
    BY <2>1, <1>1, <1>6
  <2>3. CASE j < k
    <3>1. j \in 1..Len(s) /\ s[j] = parks[j]
      BY <2>3, <1>1, <1>2, <1>5
    <3> QED
      BY <3>1, <2>1
  <2>4. CASE j > k
    <3>1. j - 1 \in 1..Len(s)
      BY <2>4, <1>1, <1>2, <1>5
    <3>2. s[j - 1] = parks[(j - 1) + 1]
      BY <2>4, <1>1, <1>2, <3>1, <1>5
    <3>3. (j - 1) + 1 = j
      OBVIOUS
    <3> QED
      BY <3>1, <3>2, <3>3, <2>1
  <2>5. j < k \/ j > k
    BY <2>2, <1>1
  <2> QED
    BY <2>3, <2>4, <2>5
<1> QED
  BY <1>3, <1>5, <1>6

\* Whatever gateway it is asked to remove, ParksWithout returns parks.
LEMMA ParksWithoutSeq ==
    ASSUME NEW g, parks \in Seq(Gateways)
    PROVE  ParksWithout(g) \in Seq(Gateways)
<1> DEFINE k == CHOOSE i \in 1..Len(parks) : parks[i] = g
           s == [i \in 1..(Len(parks) - 1) |-> IF i < k THEN parks[i] ELSE parks[i + 1]]
<1>1. s = ParksWithout(g)
  BY DEF ParksWithout
<1>2. Len(parks) \in Nat
  OBVIOUS
<1> HIDE DEF k
<1>3. CASE Len(parks) = 0
  <2>1. 1..(Len(parks) - 1) = {}
    BY <1>3
  <2>2. s \in Seq(Gateways)
    BY <2>1
  <2> QED
    BY <1>1, <2>2
<1>4. CASE Len(parks) >= 1
  <2>1. \A i \in 1..(Len(parks) - 1) : s[i] \in Gateways
    BY <1>4
  <2>2. Len(parks) - 1 \in Nat
    BY <1>2, <1>4
  <2>3. s \in Seq(Gateways)
    BY <2>1, <2>2
  <2> QED
    BY <1>1, <2>3
<1> QED
  BY <1>2, <1>3, <1>4

-----------------------------------------------------------------------------
(***************************************************************************)
(* Type correctness.  TypeOK is inductive once a gateway that is recording *)
(* a force-forward is known to have a branch to redirect.                  *)
(***************************************************************************)
AimOK == \A g \in Gateways : gpc[g] = "redirect" => aim[g] # None

TypeInv == TypeOK /\ AimOK

LEMMA TypeInit == Init => TypeInv
<1> SUFFICES ASSUME Init PROVE TypeInv
  OBVIOUS
<1>1. mail \in [Gateways -> Seq(Messages)] /\ own \in [Gateways -> Seq(Messages)]
      /\ adminq \in Seq(Messages) /\ parks \in Seq(Gateways)
  BY DEF Init
<1>2. /\ gpc \in [Gateways -> GatewayStates]
      /\ leaf \in [Leaves -> LeafStates]
      /\ failed \in [Gateways -> SUBSET Leaves]
      /\ respawn \in [Gateways -> SUBSET Leaves]
      /\ depts \in [Gateways -> SUBSET Leaves]
      /\ aim \in [Gateways -> Leaves \cup Gateways \cup {None}]
      /\ AimOK
  BY DEF Init, GatewayStates, LeafStates, AimOK
<1>3. /\ status \in Statuses /\ row \in Statuses
      /\ sent \in 0..MaxSignals
  BY BoundAssumption DEF Init, Statuses, Live
<1>4. act \in [Processes -> Statuses \cup {None}] /\ committed \in [Processes -> BOOLEAN]
  BY DEF Init
<1> QED
  BY <1>1, <1>2, <1>3, <1>4 DEF Init, TypeInv, TypeOK

LEMMA SendType ==
    ASSUME TypeOK, NEW q \in Seq(Messages), NEW m \in Messages
    PROVE  /\ Append(q, m) \in Seq(Messages)
           /\ \A t : SendToPark(t, m) => mail' \in [Gateways -> Seq(Messages)]
           /\ SendToAdmin(m) => adminq' \in Seq(Messages)
<1>1. \A r \in Seq(Messages) : Append(r, m) \in Seq(Messages)
  OBVIOUS
<1>2. mail \in [Gateways -> Seq(Messages)] /\ adminq \in Seq(Messages)
  BY DEF TypeOK
<1>3. ASSUME NEW t, SendToPark(t, m) PROVE mail' \in [Gateways -> Seq(Messages)]
  <2>1. mail' = [mail EXCEPT ![ParkFor(t)] = Append(mail[ParkFor(t)], m)]
    BY <1>3 DEF SendToPark
  <2>2. \A g \in Gateways : mail'[g] \in Seq(Messages)
    BY <2>1, <1>1, <1>2
  <2> QED
    BY <2>1, <2>2, <1>2
<1> QED
  BY <1>1, <1>2, <1>3 DEF SendToAdmin

LEMMA TypeSchedule ==
    ASSUME TypeOK, NEW p \in Processes, NEW s \in Statuses, Schedule(p, s)
    PROVE  /\ act' \in [Processes -> Statuses \cup {None}]
           /\ committed' \in [Processes -> BOOLEAN]
           /\ row' \in Statuses
           /\ overlap' \in BOOLEAN
BY DEF TypeOK, Schedule

LEMMA TypeSignals == TypeInv /\ Signals => TypeInv'
<1> SUFFICES ASSUME TypeInv, Signals PROVE TypeInv'
  OBVIOUS
<1> USE DEF TypeInv, TypeOK, AimOK
<1>1. Router \in Processes
  BY DEF Processes
<1>2. ASSUME NEW i \in Initiators, HoldPause(i) PROVE TypeInv'
  BY <1>2, BoundAssumption DEF HoldPause, Accepted
<1>3. ASSUME NEW i \in Initiators, HoldResume(i) PROVE TypeInv'
  <2>1. pauseHeld' \in BOOLEAN /\ pausedBy' \in Initiators \cup {None}
    BY <1>3 DEF HoldResume
  <2>2. sent' \in 0..MaxSignals
    BY <1>3, BoundAssumption DEF HoldResume, Accepted
  <2> QED
    BY <1>3, <2>1, <2>2 DEF HoldResume
<1>4. ASSUME NEW i \in Initiators, InstancePause(i) PROVE TypeInv'
  <2>1. /\ pauseHeld' \in BOOLEAN /\ pausedBy' \in Initiators \cup {None}
        /\ status' \in Statuses
    BY <1>4 DEF InstancePause, Statuses, Live
  <2>2. sent' \in 0..MaxSignals
    BY <1>4, BoundAssumption DEF InstancePause, Accepted
  <2>3. /\ act' \in [Processes -> Statuses \cup {None}]
        /\ committed' \in [Processes -> BOOLEAN]
        /\ row' \in Statuses
        /\ overlap' \in BOOLEAN
    BY <1>4, <1>1, TypeSchedule DEF InstancePause, Statuses, Live
  <2> QED
    BY <1>4, <2>1, <2>2, <2>3 DEF InstancePause
<1>5. ASSUME NEW i \in Initiators, InstanceResume(i) PROVE TypeInv'
  <2>1. /\ pauseHeld' \in BOOLEAN /\ pausedBy' \in Initiators \cup {None}
        /\ status' \in Statuses
    BY <1>5 DEF InstanceResume, Statuses, Live
  <2>2. sent' \in 0..MaxSignals
    BY <1>5, BoundAssumption DEF InstanceResume, Accepted
  <2>3. /\ act' \in [Processes -> Statuses \cup {None}]
        /\ committed' \in [Processes -> BOOLEAN]
        /\ row' \in Statuses
        /\ overlap' \in BOOLEAN
    BY <1>5, <1>1, TypeSchedule DEF InstanceResume, Statuses, Live
  <2> QED
    BY <1>5, <2>1, <2>2, <2>3 DEF InstanceResume
<1>6. ASSUME NEW b \in Leaves, NEW r \in Results, StageResult(b, r) PROVE TypeInv'
  <2>1. held' \in [Leaves -> Results \cup {None}] /\ inbox' \in [Leaves -> Results \cup {None}]
    BY <1>6 DEF StageResult
  <2> QED
    BY <1>6, <2>1 DEF StageResult
<1>7. ASSUME NEW t \in Leaves, ForceForward(t) PROVE TypeInv'
  <2> DEFINE m == [kind |-> "fwd", at |-> t]
  <2>1. m \in Messages
    BY DEF Messages
  <2> HIDE DEF m
  <2>2. CASE SendToPark(t, m)
    <3>1. mail' \in [Gateways -> Seq(Messages)]
      BY <2>1, <2>2, SendType
    <3>2. sent' \in 0..MaxSignals
      BY <1>7, BoundAssumption DEF ForceForward, Accepted
    <3> QED
      BY <2>2, <1>7, <3>1, <3>2 DEF ForceForward, SendToPark
  <2>3. CASE SendToAdmin(m)
    BY <2>3, <1>7, <2>1, SendType, BoundAssumption DEF ForceForward, Accepted, SendToAdmin
  <2>4. ASSUME NEW g \in Owners(t), own' = [own EXCEPT ![g] = Append(@, m)],
               UNCHANGED <<mail, adminq>>
        PROVE  TypeInv'
    <3>1. \A h \in Gateways : own'[h] \in Seq(Messages)
      BY <2>4, <2>1, SendType
    <3>2. own' \in [Gateways -> Seq(Messages)]
      BY <2>4, <3>1
    <3> QED
      BY <2>4, <3>2, <1>7, BoundAssumption DEF ForceForward, Accepted
  <2> QED
    BY <2>2, <2>3, <2>4, <1>7 DEF ForceForward, m
<1>8. ASSUME NEW t \in Leaves \cup {None}, ForceBack(t) PROVE TypeInv'
  <2> DEFINE m == [kind |-> "back", at |-> t]
  <2>1. m \in Messages
    BY DEF Messages
  <2>2. mail' \in [Gateways -> Seq(Messages)] /\ own' \in [Gateways -> Seq(Messages)]
        /\ adminq' \in Seq(Messages)
    BY <1>8, SendType, <2>1 DEF ForceBack, SendToPark, SendToAdmin
  <2> QED
    BY <2>2, <1>8, BoundAssumption DEF ForceBack, Accepted
<1>9. CASE Cancel
  <2> DEFINE c == [kind |-> "cancel", at |-> None]
             t == [kind |-> "terminate", at |-> None]
  <2>1. c \in Messages /\ t \in Messages
    BY DEF Messages
  <2> HIDE DEF c, t
  <2>2. CASE SendToAdmin(c)
    BY <2>2, <1>9, <2>1, SendType DEF Cancel, SendToAdmin
  <2>3. ASSUME UNCHANGED <<own, adminq>>,
               mail' = [g \in Gateways |->
                          IF g = Head(parks) THEN Append(mail[g], c)
                          ELSE IF \E i \in 1..Len(parks) : parks[i] = g
                          THEN Append(mail[g], t) ELSE mail[g]]
        PROVE  TypeInv'
    <3>1. \A g \in Gateways : Append(mail[g], c) \in Seq(Messages)
                             /\ Append(mail[g], t) \in Seq(Messages)
      BY <2>1, SendType
    <3>2. mail' \in [Gateways -> Seq(Messages)]
      BY <2>3, <3>1
    <3> QED
      BY <2>3, <3>2, <1>9 DEF Cancel
  <2> QED
    BY <2>2, <2>3, <1>9 DEF Cancel, c, t
<1> QED
  BY <1>2, <1>3, <1>4, <1>5, <1>6, <1>7, <1>8, <1>9 DEF Signals

\* The parts of TypeOK that the operators shared by several actions disturb.
ActOK ==
    /\ act \in [Processes -> Statuses \cup {None}]
    /\ committed \in [Processes -> BOOLEAN]
    /\ row \in Statuses
    /\ overlap \in BOOLEAN

RunOK ==
    /\ gpc \in [Gateways -> GatewayStates]
    /\ status \in Statuses
    /\ main \in {"running", "finishing", "closed"}

ParkOK == parks \in Seq(Gateways) /\ keepsPause \in BOOLEAN

\* No gateway starts to record a force-forward in this step.
NoNewAim == \A h \in Gateways : gpc'[h] = "redirect" => gpc[h] = "redirect"

LEMMA TypeAct ==
    ASSUME TypeOK, NEW p \in Processes
    PROVE  /\ \A s \in Statuses : Schedule(p, s) => ActOK'
           /\ Finished(p) => ActOK'
           /\ \A s \in Statuses : FinishedThen(p, s) => ActOK'
<1>1. \A s \in Statuses : Schedule(p, s) => ActOK'
  BY TypeSchedule DEF ActOK
<1>2. Finished(p) => ActOK'
  BY DEF Finished, TypeOK, ActOK
<1> QED
  BY <1>1, <1>2 DEF FinishedThen

LEMMA TypeReturns ==
    ASSUME TypeOK, NEW g \in Gateways, NEW st \in Statuses, Returns(g, st)
    PROVE  ActOK' /\ RunOK' /\ NoNewAim
<1>1. g \in Processes /\ Main \in Processes
  BY DEF Processes
<1>2. CASE g = Outer /\ Completes(g)
  BY <1>1, <1>2 DEF TypeOK, ActOK, RunOK, NoNewAim, Completes, Statuses, Terminal, GatewayStates
<1>3. CASE ~(g = Outer /\ Completes(g))
  BY <1>1, <1>3 DEF TypeOK, ActOK, RunOK, NoNewAim, Returns, GatewayStates
<1> QED
  BY <1>2, <1>3

LEMMA TypeReturnsTerminated ==
    ASSUME TypeOK, NEW g \in Gateways, ReturnsTerminated(g)
    PROVE  ActOK' /\ RunOK' /\ NoNewAim /\ stray' \in BOOLEAN
<1>1. g \in Processes
  BY DEF Processes
<1> QED
  BY <1>1 DEF TypeOK, ActOK, RunOK, NoNewAim, ReturnsTerminated, Statuses, Terminal, GatewayStates

LEMMA TypeClosePark ==
    ASSUME TypeOK, NEW g, ClosePark(g)
    PROVE  ParkOK'
BY ParksWithoutSeq DEF TypeOK, ClosePark, ParkOK

LEMMA TypeOpenPark ==
    ASSUME TypeOK, NEW g \in Gateways, NEW lost \in SUBSET Leaves, OpenPark(g, lost)
    PROVE  /\ ActOK' /\ RunOK' /\ NoNewAim /\ ParkOK'
           /\ depts' \in [Gateways -> SUBSET Leaves]
           /\ crossed' \in BOOLEAN
<1>1. g \in Processes /\ "DEGRADED" \in Statuses
  BY DEF Processes, Statuses, Live
<1>2. ActOK'
  BY <1>1, TypeAct DEF OpenPark
<1>3. RunOK' /\ NoNewAim
  BY <1>1 DEF OpenPark, TypeOK, RunOK, NoNewAim, GatewayStates
<1>4. ParkOK'
  BY DEF OpenPark, TypeOK, ParkOK
<1> QED
  BY <1>2, <1>3, <1>4 DEF OpenPark, TypeOK

LEMMA TypeJoins ==
    ASSUME TypeOK, NEW g \in Gateways, NEW res \in SUBSET (Leaves \cup Gateways),
           NEW lost \in SUBSET Leaves, Joins(g, res, lost)
    PROVE  /\ ActOK' /\ RunOK' /\ NoNewAim /\ ParkOK'
           /\ resolved' \subseteq Leaves \cup Gateways
           /\ failed' \in [Gateways -> SUBSET Leaves]
           /\ depts' \in [Gateways -> SUBSET Leaves]
           /\ crossed' \in BOOLEAN
<1>1. resolved' \subseteq Leaves \cup Gateways /\ failed' \in [Gateways -> SUBSET Leaves]
  BY DEF Joins, TypeOK
<1>2. CASE /\ gpc' = [gpc EXCEPT ![g] = "joining"]
           /\ UNCHANGED <<status, keepsPause, parks, depts, actVars, main, crossed>>
  <2>1. RunOK' /\ NoNewAim
    BY <1>2 DEF TypeOK, RunOK, NoNewAim, GatewayStates
  <2>2. ActOK' /\ ParkOK'
    BY <1>2 DEF TypeOK, ActOK, ParkOK
  <2> QED
    BY <1>1, <1>2, <2>1, <2>2 DEF TypeOK
<1>3. CASE Returns(g, status) /\ UNCHANGED <<keepsPause, parks, depts, crossed>>
  <2>1. ActOK' /\ RunOK' /\ NoNewAim
    BY <1>3, TypeReturns DEF TypeOK
  <2> QED
    BY <1>1, <1>3, <2>1 DEF TypeOK, ParkOK
<1>4. CASE OpenPark(g, lost)
  BY <1>1, <1>4, TypeOpenPark
<1> QED
  BY <1>2, <1>3, <1>4 DEF Joins

LEMMA TypeWaits ==
    ASSUME TypeOK, NEW g \in Gateways, NEW lost \in SUBSET Leaves,
           NEW again \in SUBSET Leaves, Waits(g, lost, again), main' = main
    PROVE  /\ ActOK' /\ RunOK' /\ NoNewAim /\ ParkOK'
           /\ failed' \in [Gateways -> SUBSET Leaves]
           /\ respawn' \in [Gateways -> SUBSET Leaves]
           /\ kept' \subseteq Gateways
<1>1. failed' \in [Gateways -> SUBSET Leaves] /\ respawn' \in [Gateways -> SUBSET Leaves]
  BY DEF Waits, TypeOK
<1>2. g \in Processes /\ {"RUNNING", "PAUSED", "DEGRADED"} \subseteq Statuses
  BY DEF Processes, Statuses, Live
<1>3. gpc' \in [Gateways -> GatewayStates] /\ NoNewAim
  BY DEF Waits, TypeOK, NoNewAim, GatewayStates
<1>4. status' \in Statuses
  BY <1>2 DEF Waits, TypeOK
<1>5. kept' \subseteq Gateways
  BY DEF Waits, TypeOK
<1>6. ParkOK'
  BY TypeClosePark DEF Waits, TypeOK, ParkOK
<1>7. ActOK'
  <2>1. CASE UNCHANGED actVars
    BY <2>1 DEF TypeOK, ActOK
  <2>2. CASE \E s \in {"RUNNING", "PAUSED", "DEGRADED"} : Schedule(g, s)
    BY <2>2, <1>2, TypeAct
  <2> QED
    BY <2>1, <2>2 DEF Waits
<1> QED
  BY <1>1, <1>3, <1>4, <1>5, <1>6, <1>7 DEF TypeOK, RunOK

LEMMA TypeTakeAdmin ==
    ASSUME TypeInv, NEW g \in Gateways, NEW m \in Messages, TakeAdmin(g, m)
    PROVE  /\ ActOK' /\ gpc' \in [Gateways -> GatewayStates] /\ AimOK'
           /\ aim' \in [Gateways -> Leaves \cup Gateways \cup {None}]
           /\ stray' \in BOOLEAN
<1>1. g \in Processes /\ "TERMINATED" \in Statuses
  BY DEF Processes, Statuses, Terminal
<1>2. CASE UNCHANGED aim /\ gpc' = [gpc EXCEPT ![g] = "cancelling"]
           /\ Schedule(g, "TERMINATED") /\ UNCHANGED stray
  BY <1>1, <1>2, TypeAct DEF TypeInv, TypeOK, AimOK, GatewayStates
<1>3. CASE UNCHANGED <<aim, actVars>> /\ gpc' = [gpc EXCEPT ![g] = "done"] /\ stray' = TRUE
  BY <1>3 DEF TypeInv, TypeOK, AimOK, ActOK, GatewayStates
<1>4. CASE /\ UNCHANGED <<actVars, stray>> /\ gpc' = [gpc EXCEPT ![g] = "redirect"]
           /\ \E b \in BranchRunning(g, m.at) : aim' = [aim EXCEPT ![g] = b]
  <2>1. PICK b \in BranchRunning(g, m.at) : aim' = [aim EXCEPT ![g] = b]
    BY <1>4
  <2>2. b \in Leaves \cup Gateways /\ b # None
    BY <2>1, NoneAssumption DEF BranchRunning, Branches, Inner
  <2>3. AimOK'
    BY <1>4, <2>1, <2>2 DEF TypeInv, TypeOK, AimOK
  <2> QED
    BY <1>4, <2>1, <2>2, <2>3 DEF TypeInv, TypeOK, ActOK, GatewayStates
<1>5. CASE UNCHANGED <<gpc, aim, actVars, stray>>
  BY <1>5 DEF TypeInv, TypeOK, AimOK, ActOK
<1> QED
  BY <1>2, <1>3, <1>4, <1>5 DEF TakeAdmin

LEMMA TypeSever ==
    ASSUME TypeOK, NEW b, Sever(b)
    PROVE  /\ leaf' \in [Leaves -> LeafStates]
           /\ inbox' \in [Leaves -> Results \cup {None}]
           /\ severed' \subseteq Gateways
<1>1. leaf' \in [Leaves -> LeafStates]
  BY DEF Sever, TypeOK, LeafStates
<1>2. inbox' \in [Leaves -> Results \cup {None}]
  BY DEF Sever, TypeOK
<1> QED
  BY <1>1, <1>2 DEF Sever, TypeOK, Inner

\* A forced route is for one of the failed branches of the park, or for none.
LEMMA FailedHit ==
    ASSUME NEW g, NEW t, NEW hit \in FailedBranchFor(g, t)
    PROVE  hit \subseteq failed[g]
<1>1. CASE t # None
  BY <1>1 DEF FailedBranchFor
<1>2. CASE t = None /\ Cardinality(failed[g]) = 1
  BY <1>2 DEF FailedBranchFor
<1>3. CASE t = None /\ Cardinality(failed[g]) # 1
  BY <1>3 DEF FailedBranchFor
<1> QED
  BY <1>1, <1>2, <1>3

LEMMA TypeGateway ==
    ASSUME TypeInv, NEW g \in Gateways, GatewayNext(g)
    PROVE  TypeInv'
<1> USE DEF TypeInv
<1>1. g \in Processes
  BY DEF Processes
<1>2. \A q \in Seq(Messages) : q # <<>> => Head(q) \in Messages /\ Tail(q) \in Seq(Messages)
  OBVIOUS
<1>3. ASSUME NEW b \in Leaves \cup Inner, Settle(g, b) PROVE TypeInv'
  <2>1. resolved \cup {b} \in SUBSET (Leaves \cup Gateways)
    BY DEF TypeOK, Inner
  <2>2. failed[g] \cup Lost(b) \in SUBSET Leaves
    BY DEF TypeOK, Lost
  <2>3. Joins(g, resolved \cup {b}, failed[g] \cup Lost(b))
    BY <1>3 DEF Settle
  <2>4. /\ ActOK' /\ RunOK' /\ NoNewAim /\ ParkOK'
        /\ resolved' \subseteq Leaves \cup Gateways
        /\ failed' \in [Gateways -> SUBSET Leaves]
        /\ depts' \in [Gateways -> SUBSET Leaves]
        /\ crossed' \in BOOLEAN
    BY <2>1, <2>2, <2>3, TypeJoins
  <2> QED
    BY <2>4, <1>3 DEF TypeOK, AimOK, Settle, ActOK, RunOK, ParkOK, NoNewAim
<1>4. CASE TakeShared(g)
  <2>1. Head(adminq) \in Messages /\ adminq' \in Seq(Messages)
    BY <1>4, <1>2 DEF TakeShared, TypeOK
  <2> QED
    BY <1>4, <2>1, TypeTakeAdmin DEF TakeShared, TypeOK, ActOK
<1>5. CASE TakeOwn(g)
  <2>1. Head(own[g]) \in Messages /\ own' \in [Gateways -> Seq(Messages)]
    BY <1>5, <1>2 DEF TakeOwn, TypeOK
  <2> QED
    BY <1>5, <2>1, TypeTakeAdmin DEF TakeOwn, TypeOK, ActOK
<1>6. CASE Redirected(g)
  <2>1. aim[g] \in Leaves \cup Gateways
    BY <1>6 DEF Redirected, TypeOK, AimOK
  <2>2. resolved \cup {aim[g]} \in SUBSET (Leaves \cup Gateways) /\ failed[g] \in SUBSET Leaves
    BY <2>1 DEF TypeOK
  <2>3. /\ leaf' \in [Leaves -> LeafStates]
        /\ inbox' \in [Leaves -> Results \cup {None}]
        /\ severed' \subseteq Gateways
    BY <1>6, TypeSever DEF Redirected
  <2>4. aim' \in [Gateways -> Leaves \cup Gateways \cup {None}] /\ stray' \in BOOLEAN
    BY <1>6 DEF Redirected, TypeOK
  <2>5. /\ ActOK' /\ RunOK' /\ NoNewAim /\ ParkOK'
        /\ resolved' \subseteq Leaves \cup Gateways
        /\ failed' \in [Gateways -> SUBSET Leaves]
        /\ depts' \in [Gateways -> SUBSET Leaves]
        /\ crossed' \in BOOLEAN
    BY <1>6, <2>2, TypeJoins DEF Redirected
  <2>6. gpc'[g] # "redirect"
    BY <1>6 DEF Redirected, Joins, Returns, Completes, OpenPark, TypeOK
  <2>7. AimOK'
    BY <1>6, <2>5, <2>6 DEF Redirected, AimOK, TypeOK, NoNewAim
  <2>8. /\ pausedBy' \in Initiators \cup {None} /\ pauseHeld' \in BOOLEAN
        /\ held' \in [Leaves -> Results \cup {None}]
        /\ respawn' \in [Gateways -> SUBSET Leaves] /\ kept' \subseteq Gateways
        /\ mail' \in [Gateways -> Seq(Messages)] /\ own' \in [Gateways -> Seq(Messages)]
        /\ adminq' \in Seq(Messages) /\ cancelIn' \in Live \cup {None} /\ lifter' \in Initiators \cup {None}
        /\ sent' \in 0..MaxSignals
    BY <1>6 DEF Redirected, TypeOK
  <2> QED
    BY <2>3, <2>4, <2>5, <2>7, <2>8 DEF TypeOK, ActOK, RunOK, ParkOK
<1>7. CASE CancelReturns(g)
  <2>1. ActOK' /\ RunOK' /\ NoNewAim /\ stray' \in BOOLEAN
    BY <1>7, TypeReturnsTerminated DEF CancelReturns
  <2>2. ParkOK'
    BY <1>7, TypeClosePark DEF CancelReturns, ParkOK, TypeOK
  <2> QED
    BY <1>7, <2>1, <2>2 DEF CancelReturns, TypeOK, AimOK, ActOK, RunOK, ParkOK, NoNewAim
<1>8. CASE DegradedReturns(g)
  <2>1. ActOK'
    BY <1>1, <1>8, TypeAct DEF DegradedReturns
  <2>2. gpc' \in [Gateways -> GatewayStates] /\ NoNewAim
    BY <1>8 DEF DegradedReturns, TypeOK, GatewayStates, NoNewAim
  <2> QED
    BY <1>8, <2>1, <2>2 DEF DegradedReturns, TypeOK, AimOK, ActOK, NoNewAim
<1>9. CASE ParkTakes(g)
  <2>1. mail' \in [Gateways -> Seq(Messages)]
    BY <1>9, <1>2 DEF ParkTakes, TypeOK
  <2>2. PICK hit \in FailedBranchFor(g, Head(mail[g]).at) :
            \/ /\ gpc' = [gpc EXCEPT ![g] = "parkRedirect"]
               /\ \E b \in hit : aim' = [aim EXCEPT ![g] = b]
               /\ UNCHANGED <<leaf, failed, respawn>>
            \/ /\ failed' = [failed EXCEPT ![g] = @ \ hit]
               /\ respawn' = [respawn EXCEPT ![g] = @ \cup hit]
               /\ leaf' = [b \in Leaves |-> IF b \in hit THEN "starting" ELSE leaf[b]]
               /\ UNCHANGED <<gpc, aim>>
            \/ UNCHANGED <<gpc, aim, leaf, failed, respawn>>
    BY <1>9 DEF ParkTakes
  <2>6. hit \subseteq Leaves
    BY FailedHit DEF TypeOK
  <2>3. CASE /\ gpc' = [gpc EXCEPT ![g] = "parkRedirect"]
             /\ \E b \in hit : aim' = [aim EXCEPT ![g] = b]
             /\ UNCHANGED <<leaf, failed, respawn>>
    <3>1. PICK b \in hit : aim' = [aim EXCEPT ![g] = b]
      BY <2>3
    <3>2. aim' \in [Gateways -> Leaves \cup Gateways \cup {None}]
      BY <2>6, <3>1 DEF TypeOK
    <3>3. gpc' \in [Gateways -> GatewayStates]
      BY <2>3 DEF TypeOK, GatewayStates
    <3>4. AimOK'
      BY <2>3, <3>1 DEF TypeOK, AimOK
    <3> QED
      BY <1>9, <2>1, <2>3, <3>2, <3>3, <3>4 DEF ParkTakes, TypeOK
  <2>4. CASE /\ failed' = [failed EXCEPT ![g] = @ \ hit]
             /\ respawn' = [respawn EXCEPT ![g] = @ \cup hit]
             /\ leaf' = [b \in Leaves |-> IF b \in hit THEN "starting" ELSE leaf[b]]
             /\ UNCHANGED <<gpc, aim>>
    <3>1. failed' \in [Gateways -> SUBSET Leaves]
      BY <2>4 DEF TypeOK
    <3>2. respawn' \in [Gateways -> SUBSET Leaves]
      BY <2>6, <2>4 DEF TypeOK
    <3>3. leaf' \in [Leaves -> LeafStates]
      BY <2>4 DEF TypeOK, LeafStates
    <3> QED
      BY <1>9, <2>1, <2>4, <3>1, <3>2, <3>3 DEF ParkTakes, TypeOK, AimOK
  <2>5. CASE UNCHANGED <<gpc, aim, leaf, failed, respawn>>
    BY <1>9, <2>1, <2>5 DEF ParkTakes, TypeOK, AimOK
  <2> QED
    BY <2>3, <2>4, <2>5, <2>2
<1>10. CASE ParkRedirected(g)
  <2>1. failed[g] \ {aim[g]} \in SUBSET Leaves /\ respawn[g] \in SUBSET Leaves
    BY DEF TypeOK
  <2>2. /\ ActOK' /\ RunOK' /\ NoNewAim /\ ParkOK'
        /\ failed' \in [Gateways -> SUBSET Leaves]
        /\ respawn' \in [Gateways -> SUBSET Leaves]
        /\ kept' \subseteq Gateways
    BY <1>10, <2>1, TypeWaits DEF ParkRedirected
  <2>3. leaf' \in [Leaves -> LeafStates]
    BY <1>10 DEF ParkRedirected, TypeOK, LeafStates
  <2>4. aim' \in [Gateways -> Leaves \cup Gateways \cup {None}]
    BY <1>10 DEF ParkRedirected, TypeOK
  <2>5. AimOK'
    BY <1>10, <2>2 DEF ParkRedirected, TypeOK, AimOK, NoNewAim
  <2> QED
    BY <1>10, <2>2, <2>3, <2>4, <2>5 DEF ParkRedirected, TypeOK, ActOK, RunOK, ParkOK
<1>11. ASSUME NEW b \in Leaves, ParkSettle(g, b) PROVE TypeInv'
  <2>1. Lost(b) \in SUBSET Leaves /\ failed[g] \cup Lost(b) \in SUBSET Leaves
        /\ respawn[g] \ {b} \in SUBSET Leaves
    BY DEF TypeOK, Lost
  <2>2. Waits(g, failed[g] \cup Lost(b), respawn[g] \ {b}) /\ main' = main
    BY <1>11 DEF ParkSettle
  <2>3. /\ ActOK' /\ RunOK' /\ NoNewAim /\ ParkOK'
        /\ failed' \in [Gateways -> SUBSET Leaves]
        /\ respawn' \in [Gateways -> SUBSET Leaves]
        /\ kept' \subseteq Gateways
    BY <2>1, <2>2, TypeWaits
  <2>4. depts' \in [Gateways -> SUBSET Leaves]
    BY <1>11, <2>1 DEF ParkSettle, TypeOK
  <2> QED
    BY <1>11, <2>3, <2>4 DEF ParkSettle, TypeOK, AimOK, ActOK, RunOK, ParkOK, NoNewAim
<1>12. CASE ParkCancel(g)
  <2>1. ActOK'
    BY <1>1, <1>12, TypeAct DEF ParkCancel, Statuses, Terminal
  <2>2. mail' \in [Gateways -> Seq(Messages)]
    BY <1>12, <1>2 DEF ParkCancel, TypeOK
  <2>3. gpc' \in [Gateways -> GatewayStates] /\ NoNewAim
    BY <1>12 DEF ParkCancel, TypeOK, GatewayStates, NoNewAim
  <2> QED
    BY <1>12, <2>1, <2>2, <2>3 DEF ParkCancel, TypeOK, AimOK, ActOK, NoNewAim
<1>13. CASE ParkTerminate(g)
  <2>1. ActOK' /\ RunOK' /\ NoNewAim /\ stray' \in BOOLEAN
    BY <1>13, TypeReturnsTerminated DEF ParkTerminate
  <2>2. ParkOK'
    BY <1>13, TypeClosePark DEF ParkTerminate
  <2>3. mail' \in [Gateways -> Seq(Messages)]
    BY <1>13, <1>2 DEF ParkTerminate, TypeOK
  <2> QED
    BY <1>13, <2>1, <2>2, <2>3 DEF ParkTerminate, TypeOK, AimOK, ActOK, RunOK, ParkOK, NoNewAim
<1>14. CASE ParkClosedReturns(g)
  <2>1. ActOK' /\ RunOK' /\ NoNewAim
    BY <1>14, TypeReturns DEF ParkClosedReturns, TypeOK
  <2> QED
    BY <1>14, <2>1 DEF ParkClosedReturns, TypeOK, AimOK, ActOK, RunOK, NoNewAim
<1>15. CASE RunningReturns(g)
  <2>1. {"RUNNING", "PAUSED"} \subseteq Statuses
    BY DEF Statuses, Live
  <2>2. parks' \in Seq(Gateways)
    BY <1>15, ParksWithoutSeq DEF RunningReturns, TypeOK
  <2>3. keepsPause' \in BOOLEAN /\ pauseHeld' \in BOOLEAN
    BY <1>15 DEF RunningReturns, TypeOK
  <2>4. CASE /\ status' = "PAUSED" /\ gpc' = [gpc EXCEPT ![g] = "leavePaused"]
             /\ FinishedThen(g, "PAUSED") /\ UNCHANGED main
    <3>1. ActOK'
      BY <1>1, <2>1, <2>4, TypeAct
    <3>2. RunOK' /\ NoNewAim
      BY <2>1, <2>4 DEF TypeOK, RunOK, NoNewAim, GatewayStates
    <3> QED
      BY <1>15, <2>2, <2>3, <3>1, <3>2 DEF RunningReturns, TypeOK, AimOK, ActOK, RunOK, NoNewAim
  <2>5. CASE Returns(g, "RUNNING")
    <3>1. ActOK' /\ RunOK' /\ NoNewAim
      BY <2>1, <2>5, TypeReturns
    <3> QED
      BY <1>15, <2>2, <2>3, <3>1 DEF RunningReturns, TypeOK, AimOK, ActOK, RunOK, NoNewAim
  <2> QED
    BY <1>15, <2>4, <2>5 DEF RunningReturns
<1>16. CASE SeveredReturns(g)
  <2>1. ParkOK'
    BY <1>16, TypeClosePark DEF SeveredReturns, TypeOK, ParkOK
  <2>2. gpc' \in [Gateways -> GatewayStates] /\ NoNewAim
    BY <1>16 DEF SeveredReturns, TypeOK, GatewayStates, NoNewAim
  <2>3. ActOK'
    BY <1>1, <1>16 DEF SeveredReturns, TypeOK, ActOK
  <2> QED
    BY <1>16, <2>1, <2>2, <2>3 DEF SeveredReturns, TypeOK, AimOK, ActOK, ParkOK, NoNewAim
<1> QED
  BY <1>3, <1>4, <1>5, <1>6, <1>7, <1>8, <1>9, <1>10, <1>11, <1>12, <1>13, <1>14, <1>15, <1>16
     DEF GatewayNext

LEMMA TypeNext == TypeInv /\ [Next]_vars => TypeInv'
<1> SUFFICES ASSUME TypeInv, [Next]_vars PROVE TypeInv'
  OBVIOUS
<1> USE DEF TypeInv
<1>1. Router \in Processes /\ Main \in Processes
  BY DEF Processes
<1>2. CASE PauseReturns
  BY <1>1, <1>2, TypeAct DEF PauseReturns, TypeOK, AimOK, ActOK
<1>3. CASE ResumeReturns
  <2>1. ActOK'
    BY <1>1, <1>3, TypeAct DEF ResumeReturns
  <2>2. held' \in [Leaves -> Results \cup {None}] /\ inbox' \in [Leaves -> Results \cup {None}]
    BY <1>3 DEF ResumeReturns, ReleaseHeldResults, TypeOK
  <2> QED
    BY <1>3, <2>1, <2>2 DEF ResumeReturns, TypeOK, AimOK, ActOK
<1>4. ASSUME NEW b \in Leaves, CreateTask(b) PROVE TypeInv'
  BY <1>4 DEF CreateTask, TypeOK, AimOK, LeafStates
<1>5. ASSUME NEW b \in Leaves, ResolveStage(b) PROVE TypeInv'
  BY <1>5 DEF ResolveStage, TypeOK, AimOK, LeafStates
<1>6. ASSUME NEW p \in Processes, CommitWrite(p) PROVE TypeInv'
  <2>1. row' \in Statuses /\ committed' \in [Processes -> BOOLEAN]
    BY <1>6, NoneAssumption DEF CommitWrite, CommitGuard, TypeOK
  <2> QED
    BY <1>6, <2>1 DEF CommitWrite, TypeOK, AimOK
<1>7. CASE Closes
  BY <1>1, <1>7, TypeAct DEF Closes, TypeOK, AimOK, ActOK
<1>8. CASE UNCHANGED vars
  BY <1>8 DEF vars, TypeOK, AimOK
<1> QED
  BY <1>2, <1>3, <1>4, <1>5, <1>6, <1>7, <1>8, TypeSignals, TypeGateway DEF Next

\* Every reachable state of an instance is well typed, whatever the plan's
\* gateways and branches, the initiators and the bounds.
THEOREM TypeCorrect == Spec => []TypeOK
<1>1. Spec => []TypeInv
  BY TypeInit, TypeNext, PTL DEF Spec
<1> QED
  BY <1>1, PTL DEF TypeInv

-----------------------------------------------------------------------------
(***************************************************************************)
(* The pause and the status.  PauseFollowsStatus is inductive by itself    *)
(* over well-typed states.                                                 *)
(***************************************************************************)
LEMMA JoinsStatus ==
    ASSUME NEW g, NEW res, NEW lost, Joins(g, res, lost)
    PROVE  status' \in {status, "COMPLETED", "DEGRADED"}
BY DEF Joins, Returns, Completes, OpenPark

LEMMA WaitsStatus ==
    ASSUME NEW g, NEW lost, NEW again, Waits(g, lost, again)
    PROVE  status' = status \/ (status' = "PAUSED" /\ pauseHeld)
BY DEF Waits

LEMMA PauseKept ==
    ASSUME PauseFollowsStatus, UNCHANGED <<pausedBy, pauseHeld>>,
           \/ status' \in {status, "COMPLETED", "TERMINATED", "DEGRADED"}
           \/ status' = "PAUSED" /\ pauseHeld
    PROVE  PauseFollowsStatus'
BY DEF PauseFollowsStatus

LEMMA PauseNext ==
    ASSUME TypeInv, PauseFollowsStatus, [Next]_vars
    PROVE  PauseFollowsStatus'
<1>1. ASSUME NEW i \in Initiators, HoldPause(i) PROVE PauseFollowsStatus'
  BY <1>1 DEF HoldPause, HoldsPauseDuringPark, PauseFollowsStatus
<1>2. ASSUME NEW i \in Initiators, HoldResume(i) PROVE PauseFollowsStatus'
  BY <1>2 DEF HoldResume, HoldsPauseDuringPark, PauseFollowsStatus
<1>3. ASSUME NEW i \in Initiators, InstancePause(i) PROVE PauseFollowsStatus'
  BY <1>3 DEF InstancePause, PauseFollowsStatus
<1>4. ASSUME NEW i \in Initiators, InstanceResume(i) PROVE PauseFollowsStatus'
  BY <1>4 DEF InstanceResume, PauseFollowsStatus
<1>5. ASSUME \/ \E b \in Leaves, r \in Results : StageResult(b, r)
             \/ \E t \in Leaves : ForceForward(t)
             \/ \E t \in Leaves \cup {None} : ForceBack(t)
             \/ Cancel
             \/ PauseReturns \/ ResumeReturns \/ Closes
             \/ \E b \in Leaves : CreateTask(b) \/ ResolveStage(b)
             \/ \E p \in Processes : CommitWrite(p)
             \/ UNCHANGED vars
      PROVE  PauseFollowsStatus'
  <2>1. UNCHANGED <<status, pausedBy, pauseHeld>>
    BY <1>5 DEF StageResult, ForceForward, ForceBack, Cancel, PauseReturns, ResumeReturns, Closes,
                CreateTask, ResolveStage, CommitWrite, vars
  <2> QED
    BY <2>1, PauseKept
<1>6. ASSUME NEW g \in Gateways, GatewayNext(g) PROVE PauseFollowsStatus'
  <2>1. ASSUME NEW b \in Leaves \cup Inner, Settle(g, b) PROVE PauseFollowsStatus'
    <3>1. status' \in {status, "COMPLETED", "DEGRADED"}
      BY <2>1, JoinsStatus DEF Settle
    <3> QED
      BY <2>1, <3>1, PauseKept DEF Settle
  <2>2. CASE Redirected(g)
    <3>1. status' \in {status, "COMPLETED", "DEGRADED"}
      BY <2>2, JoinsStatus DEF Redirected
    <3> QED
      BY <2>2, <3>1, PauseKept DEF Redirected
  <2>3. CASE CancelReturns(g) \/ ParkTerminate(g)
    BY <2>3, PauseKept DEF CancelReturns, ParkTerminate, ReturnsTerminated
  <2>4. CASE ParkRedirected(g)
    BY <2>4, WaitsStatus, PauseKept DEF ParkRedirected
  <2>5. ASSUME NEW b \in Leaves, ParkSettle(g, b) PROVE PauseFollowsStatus'
    BY <2>5, WaitsStatus, PauseKept DEF ParkSettle
  <2>6. CASE ParkClosedReturns(g)
    BY <2>6, PauseKept DEF ParkClosedReturns, Returns, Completes
  <2>7. CASE RunningReturns(g)
    <3>1. CASE UNCHANGED pauseHeld
      BY <2>7, <3>1, PauseKept DEF RunningReturns, Returns, Completes, PauseFollowsStatus
    <3>2. CASE pauseHeld' = FALSE /\ Returns(g, "RUNNING")
      BY <2>7, <3>2 DEF Returns, Completes, PauseFollowsStatus
    <3> QED
      BY <2>7, <3>1, <3>2 DEF RunningReturns
  <2>8. CASE TakeShared(g) \/ TakeOwn(g) \/ DegradedReturns(g) \/ ParkTakes(g) \/ ParkCancel(g)
             \/ SeveredReturns(g)
    BY <2>8, PauseKept DEF TakeShared, TakeOwn, DegradedReturns, ParkTakes, ParkCancel, SeveredReturns
  <2> QED
    BY <1>6, <2>1, <2>2, <2>3, <2>4, <2>5, <2>6, <2>7, <2>8 DEF GatewayNext
<1> QED
  BY <1>1, <1>2, <1>3, <1>4, <1>5, <1>6 DEF Next, Signals

\* In every reachable state the interpreter is PAUSED only while it holds a
\* pause, RUNNING only without one, and knows the owner of a pause it holds.
THEOREM PauseFollowsStatusHolds == Spec => []PauseFollowsStatus
<1>1. Init => PauseFollowsStatus
  BY DEF Init, PauseFollowsStatus
<1>2. (TypeInv /\ PauseFollowsStatus) /\ [Next]_vars => (TypeInv /\ PauseFollowsStatus)'
  BY TypeNext, PauseNext
<1> QED
  BY TypeInit, <1>1, <1>2, PTL DEF Spec

-----------------------------------------------------------------------------
(***************************************************************************)
(* The parks.  LastParkWritesRunning is inductive over well-typed states.  *)
(***************************************************************************)
InPark == {"writeDegraded", "parked", "parkRedirect", "writeRunning"}

\* A step of gateways that leaves the parks alone: nobody enters a park.
LEMMA ParksKept ==
    ASSUME LastParkWritesRunning, UNCHANGED <<parks, keepsPause, kept, crossed>>,
           \A h \in Gateways : gpc'[h] \in InPark => gpc[h] \in InPark,
           \A h \in Gateways : gpc'[h] = "writeRunning" => gpc[h] = "writeRunning"
    PROVE  LastParkWritesRunning'
BY DEF LastParkWritesRunning, Parked, InPark

\* A gateway closes its park.
LEMMA ParksClosed ==
    ASSUME TypeOK, LastParkWritesRunning, NEW g \in Gateways, Parked(g),
           parks' = ParksWithout(g),
           (~crossed /\ keepsPause /\ Len(parks) > 1) => keepsPause',
           gpc'[g] \notin InPark,
           \A h \in Gateways \ {g} : gpc'[h] = gpc[h],
           UNCHANGED <<kept, crossed>>
    PROVE  LastParkWritesRunning'
<1>1. /\ Len(parks) \in Nat /\ Len(parks') \in Nat /\ Len(parks') = Len(parks) - 1
      /\ parks' \in Seq(Gateways)
      /\ \A h : (h # g /\ Parked(h)) => Parked(h)'
  <2>1. parks \in Seq(Gateways)
    BY DEF TypeOK
  <2>2. /\ ParksWithout(g) \in Seq(Gateways)
        /\ Len(ParksWithout(g)) = Len(parks) - 1
        /\ \A h : (h # g /\ Parked(h)) =>
             \E i \in 1..Len(ParksWithout(g)) : ParksWithout(g)[i] = h
    BY <2>1, ParksWithoutType
  <2>3. Len(parks) \in Nat /\ Len(parks') \in Nat /\ Len(parks') = Len(parks) - 1
        /\ parks' \in Seq(Gateways)
    BY <2>1, <2>2
  <2>4. \A h : (h # g /\ Parked(h)) => Parked(h)'
    BY <2>2 DEF Parked
  <2> QED
    BY <2>3, <2>4
<1>2. \A h \in Gateways : gpc'[h] \in InPark => Parked(h)'
  BY <1>1 DEF LastParkWritesRunning, InPark
<1>3. ASSUME ~crossed, NEW h \in Gateways, gpc'[h] = "writeRunning"
      PROVE  FALSE
  <2>1. h # g /\ gpc[h] = "writeRunning"
    BY <1>3 DEF InPark
  <2>2. Parked(h) /\ Len(parks) = 1
    BY <1>3, <2>1 DEF LastParkWritesRunning
  <2> QED
    BY <2>1, <2>2 DEF Parked
<1>4. ASSUME ~crossed, parks' # <<>>
      PROVE  keepsPause'
  <2>1. Len(parks') # 0
    BY <1>1, <1>4
  <2>2. Len(parks) > 1 /\ parks # <<>>
    BY <1>1, <2>1
  <2> QED
    BY <1>4, <2>2 DEF LastParkWritesRunning
<1> QED
  BY <1>2, <1>3, <1>4 DEF LastParkWritesRunning, InPark

\* A gateway opens its park.
LEMMA ParksOpened ==
    ASSUME TypeOK, LastParkWritesRunning, NEW g \in Gateways, NEW lost,
           OpenPark(g, lost), UNCHANGED kept
    PROVE  LastParkWritesRunning'
<1>1. parks' = Append(parks, g) /\ Len(parks') = Len(parks) + 1 /\ Len(parks) \in Nat
  BY DEF OpenPark, TypeOK
<1>2. Parked(g)'
  <2>1. parks'[Len(parks')] = g /\ Len(parks') \in 1..Len(parks')
    BY <1>1 DEF TypeOK
  <2> QED
    BY <2>1 DEF Parked
<1>3. ASSUME NEW h, Parked(h) PROVE Parked(h)'
  <2>1. PICK i \in 1..Len(parks) : parks[i] = h
    BY <1>3 DEF Parked
  <2>2. i \in 1..Len(parks') /\ parks'[i] = h
    BY <2>1, <1>1 DEF TypeOK
  <2> QED
    BY <2>2 DEF Parked
<1>4. \A h \in Gateways : h # g => gpc'[h] = gpc[h]
  BY DEF OpenPark, TypeOK
<1>5. gpc'[g] = "writeDegraded"
  BY DEF OpenPark, TypeOK
<1>6. \A h \in Gateways : gpc'[h] \in InPark => Parked(h)'
  BY <1>2, <1>3, <1>4 DEF LastParkWritesRunning, InPark
<1>7. ASSUME ~crossed' PROVE ~crossed /\ keepsPause' /\ \A h \in Gateways : gpc'[h] # "writeRunning"
  <2>1. ~crossed /\ \A h \in Gateways \ {g} : gpc[h] # "writeRunning"
    BY <1>7 DEF OpenPark
  <2>2. keepsPause'
    BY <2>1 DEF OpenPark, LastParkWritesRunning
  <2> QED
    BY <2>1, <2>2, <1>4, <1>5
<1> QED
  BY <1>6, <1>7 DEF LastParkWritesRunning, InPark

LEMMA ParksJoins ==
    ASSUME TypeOK, LastParkWritesRunning, NEW g \in Gateways, NEW res, NEW lost,
           Joins(g, res, lost), UNCHANGED kept
    PROVE  LastParkWritesRunning'
<1>1. CASE gpc' = [gpc EXCEPT ![g] = "joining"] /\ UNCHANGED <<keepsPause, parks, crossed>>
  BY <1>1, ParksKept DEF TypeOK, InPark
<1>2. CASE Returns(g, status) /\ UNCHANGED <<keepsPause, parks, crossed>>
  <2>1. gpc' = [gpc EXCEPT ![g] = "done"]
    BY <1>2 DEF Returns, Completes
  <2> QED
    BY <1>2, <2>1, ParksKept DEF TypeOK, InPark
<1>3. CASE OpenPark(g, lost)
  BY <1>3, ParksOpened
<1> QED
  BY <1>1, <1>2, <1>3 DEF Joins

LEMMA ParksWaits ==
    ASSUME TypeOK, LastParkWritesRunning, NEW g \in Gateways, gpc[g] \in InPark,
           NEW lost, NEW again, Waits(g, lost, again), UNCHANGED crossed
    PROVE  LastParkWritesRunning'
<1>1. Parked(g)
  BY DEF LastParkWritesRunning, InPark
<1>2. CASE gpc' = [gpc EXCEPT ![g] = "parked"] /\ UNCHANGED <<keepsPause, parks, kept>>
  BY <1>2, ParksKept DEF TypeOK, InPark
<1>3. CASE /\ \E s \in {"rewrite", "leavePaused"} : gpc' = [gpc EXCEPT ![g] = s]
           /\ ClosePark(g) /\ UNCHANGED kept
  <2>1. gpc'[g] \notin InPark /\ \A h \in Gateways \ {g} : gpc'[h] = gpc[h]
    BY <1>3 DEF TypeOK, InPark
  <2> QED
    BY <1>1, <1>3, <2>1, ParksClosed DEF ClosePark
<1>4. CASE /\ Len(parks) = 1 /\ gpc' = [gpc EXCEPT ![g] = "writeRunning"]
           /\ kept' = IF keepsPause THEN kept \cup {g} ELSE kept \ {g}
           /\ UNCHANGED <<keepsPause, parks>>
  <2>1. \A h \in Gateways : gpc'[h] \in InPark => Parked(h)'
    BY <1>1, <1>4 DEF LastParkWritesRunning, InPark, Parked, TypeOK
  <2>2. ASSUME ~crossed
        PROVE  /\ keepsPause'
               /\ \A h \in Gateways : gpc'[h] = "writeRunning" => Len(parks') = 1 /\ h \in kept'
    <3>1. keepsPause
      BY <1>4, <2>2 DEF LastParkWritesRunning
    <3> QED
      BY <1>4, <2>2, <3>1 DEF LastParkWritesRunning, TypeOK
  <2> QED
    BY <2>1, <2>2 DEF LastParkWritesRunning, InPark
<1> QED
  BY <1>2, <1>3, <1>4 DEF Waits

\* A gateway ends: its park, if it is open, is closed.
LEMMA ParksDone ==
    ASSUME TypeOK, LastParkWritesRunning, NEW g \in Gateways,
           gpc' = [gpc EXCEPT ![g] = "done"],
           IF Parked(g) THEN ClosePark(g) ELSE UNCHANGED <<parks, keepsPause>>,
           UNCHANGED <<kept, crossed>>
    PROVE  LastParkWritesRunning'
<1>1. gpc'[g] \notin InPark /\ \A h \in Gateways \ {g} : gpc'[h] = gpc[h]
  BY DEF TypeOK, InPark
<1>2. CASE Parked(g)
  BY <1>1, <1>2, ParksClosed DEF ClosePark
<1>3. CASE ~Parked(g)
  BY <1>1, <1>3, ParksKept DEF InPark
<1> QED
  BY <1>2, <1>3

LEMMA ParksNext ==
    ASSUME TypeInv, LastParkWritesRunning, [Next]_vars
    PROVE  LastParkWritesRunning'
<1> USE DEF TypeInv
<1>1. ASSUME \/ Signals
             \/ PauseReturns \/ ResumeReturns \/ Closes
             \/ \E b \in Leaves : CreateTask(b) \/ ResolveStage(b)
             \/ \E p \in Processes : CommitWrite(p)
             \/ UNCHANGED vars
      PROVE  LastParkWritesRunning'
  <2>1. CASE Signals
    BY <2>1, ParksKept DEF Signals, HoldPause, HoldResume, InstancePause, InstanceResume, StageResult,
                           ForceForward, ForceBack, Cancel
  <2>2. CASE ~Signals
    BY <1>1, <2>2, ParksKept DEF PauseReturns, ResumeReturns, Closes, CreateTask, ResolveStage,
                                 CommitWrite, vars
  <2> QED
    BY <2>1, <2>2
<1>2. ASSUME NEW g \in Gateways, GatewayNext(g) PROVE LastParkWritesRunning'
  <2>1. ASSUME NEW b \in Leaves \cup Inner, Settle(g, b) PROVE LastParkWritesRunning'
    BY <2>1, ParksJoins DEF Settle
  <2>2. CASE Redirected(g)
    BY <2>2, ParksJoins DEF Redirected
  <2>3. CASE CancelReturns(g)
    BY <2>3, ParksDone DEF CancelReturns, ReturnsTerminated
  <2>4. CASE ParkTerminate(g)
    <3>1. Parked(g)
      BY <2>4 DEF ParkTerminate, LastParkWritesRunning
    <3> QED
      BY <2>4, <3>1, ParksDone DEF ParkTerminate, ReturnsTerminated
  <2>5. CASE ParkRedirected(g)
    BY <2>5, ParksWaits DEF ParkRedirected, InPark
  <2>6. ASSUME NEW b \in Leaves, ParkSettle(g, b) PROVE LastParkWritesRunning'
    BY <2>6, ParksWaits DEF ParkSettle, InPark
  <2>7. CASE ParkClosedReturns(g)
    <3>1. gpc' = [gpc EXCEPT ![g] = "done"]
      BY <2>7 DEF ParkClosedReturns, Returns, Completes
    <3> QED
      BY <2>7, <3>1, ParksKept DEF ParkClosedReturns, TypeOK, InPark
  <2>8. CASE RunningReturns(g)
    <3>1. Parked(g) /\ (~crossed => Len(parks) = 1)
      BY <2>8 DEF RunningReturns, LastParkWritesRunning
    <3>2. \E s \in {"leavePaused", "done"} : gpc' = [gpc EXCEPT ![g] = s]
      BY <2>8 DEF RunningReturns, Returns, Completes
    <3>3. gpc'[g] \notin InPark /\ \A h \in Gateways \ {g} : gpc'[h] = gpc[h]
      BY <3>2 DEF TypeOK, InPark
    <3>4. parks' = ParksWithout(g) /\ UNCHANGED <<kept, crossed>>
      BY <2>8 DEF RunningReturns
    <3>5. (~crossed /\ keepsPause /\ Len(parks) > 1) => keepsPause'
      <4>1. Len(parks) = 1 => ~(Len(parks) > 1)
        OBVIOUS
      <4> QED
        BY <3>1, <4>1, Zenon
    <3>6. TypeOK /\ LastParkWritesRunning /\ Parked(g)
      BY <3>1
    <3> QED
      BY <3>3, <3>4, <3>5, <3>6, ParksClosed
  <2>9. CASE SeveredReturns(g)
    BY <2>9, ParksDone DEF SeveredReturns
  <2>10. CASE DegradedReturns(g)
    BY <2>10, ParksKept DEF DegradedReturns, TypeOK, InPark
  <2>11. CASE ParkTakes(g)
    <3>1. gpc[g] = "parked" /\ (UNCHANGED gpc \/ gpc' = [gpc EXCEPT ![g] = "parkRedirect"])
      BY <2>11 DEF ParkTakes
    <3> QED
      BY <2>11, <3>1, ParksKept DEF ParkTakes, TypeOK, InPark
  <2>12. CASE ParkCancel(g)
    BY <2>12, ParksKept DEF ParkCancel, TypeOK, InPark
  <2>13. CASE TakeShared(g) \/ TakeOwn(g)
    <3>1. UNCHANGED gpc \/ \E s \in {"cancelling", "redirect", "done"} : gpc' = [gpc EXCEPT ![g] = s]
      BY <2>13 DEF TakeShared, TakeOwn, TakeAdmin
    <3> QED
      BY <2>13, <3>1, ParksKept DEF TakeShared, TakeOwn, TypeOK, InPark
  <2> QED
    BY <1>2, <2>1, <2>2, <2>3, <2>4, <2>5, <2>6, <2>7, <2>8, <2>9, <2>10, <2>11, <2>12, <2>13
       DEF GatewayNext
<1> QED
  BY <1>1, <1>2 DEF Next

LEMMA PauseInvariant == Spec => [](TypeInv /\ PauseFollowsStatus /\ LastParkWritesRunning)
<1>1. Init => PauseFollowsStatus /\ LastParkWritesRunning
  BY DEF Init, PauseFollowsStatus, LastParkWritesRunning
<1>2. /\ TypeInv /\ PauseFollowsStatus /\ LastParkWritesRunning
      /\ [Next]_vars
      => (TypeInv /\ PauseFollowsStatus /\ LastParkWritesRunning)'
  BY TypeNext, PauseNext, ParksNext
<1> QED
  BY TypeInit, <1>1, <1>2, PTL DEF Spec

\* In every reachable state a gateway in its park has it open, and until a
\* park opens under another's write of RUNNING only the last open park writes
\* RUNNING and every open park keeps pauses.
THEOREM LastParkWritesRunningHolds == Spec => []LastParkWritesRunning
BY PauseInvariant, PTL

\* Whatever the plan, a pause ends only through a resume of its initiator or
\* of the administrator, and no other pause replaces it, until a park opens
\* under another's write of RUNNING.
THEOREM PauseOwnershipHolds == Spec => PauseOwnership
<1> DEFINE Step == (pauseHeld /\ ~crossed /\ (~pauseHeld' \/ pausedBy' # pausedBy)) =>
                     \E i \in {Admin, pausedBy} : HoldResume(i) \/ InstanceResume(i)
<1>1. ASSUME TypeInv, PauseFollowsStatus, LastParkWritesRunning, [Next]_vars
      PROVE  [Step]_vars
  <2> SUFFICES ASSUME pauseHeld, ~crossed, ~pauseHeld' \/ pausedBy' # pausedBy, Next
               PROVE  \E i \in {Admin, pausedBy} : HoldResume(i) \/ InstanceResume(i)
    BY <1>1
  <2>1. ASSUME NEW i \in Initiators, HoldResume(i) \/ InstanceResume(i)
        PROVE  \E j \in {Admin, pausedBy} : HoldResume(j) \/ InstanceResume(j)
    <3>1. i \in {Admin, pausedBy}
      BY <2>1 DEF HoldResume, InstanceResume, CanResume
    <3> QED
      BY <2>1, <3>1
  <2>2. ASSUME NEW i \in Initiators, HoldPause(i) \/ InstancePause(i)
        PROVE  FALSE
    BY <1>1, <2>2 DEF HoldPause, InstancePause, PauseFollowsStatus
  <2>3. ASSUME NEW g \in Gateways, RunningReturns(g)
        PROVE  FALSE
    <3>1. g \in kept
      BY <1>1, <2>3 DEF RunningReturns, LastParkWritesRunning
    <3> QED
      BY <2>3, <3>1 DEF RunningReturns
  <2>4. ASSUME NEW g \in Gateways, GatewayNext(g), ~RunningReturns(g)
        PROVE  UNCHANGED <<pauseHeld, pausedBy>>
    BY <2>4 DEF GatewayNext, Settle, TakeShared, TakeOwn, Redirected, CancelReturns, DegradedReturns,
                ParkTakes, ParkRedirected, ParkSettle, ParkCancel, ParkTerminate, ParkClosedReturns,
                SeveredReturns
  <2>5. ASSUME \/ \E b \in Leaves, r \in Results : StageResult(b, r)
               \/ \E t \in Leaves : ForceForward(t)
               \/ \E t \in Leaves \cup {None} : ForceBack(t)
               \/ Cancel
               \/ PauseReturns \/ ResumeReturns \/ Closes
               \/ \E b \in Leaves : CreateTask(b) \/ ResolveStage(b)
               \/ \E p \in Processes : CommitWrite(p)
        PROVE  UNCHANGED <<pauseHeld, pausedBy>>
    BY <2>5 DEF StageResult, ForceForward, ForceBack, Cancel, PauseReturns, ResumeReturns, Closes,
                CreateTask, ResolveStage, CommitWrite
  <2> QED
    BY <2>1, <2>2, <2>3, <2>4, <2>5 DEF Next, Signals
<1> QED
  BY <1>1, PauseInvariant, PTL DEF Spec, PauseOwnership

-----------------------------------------------------------------------------
(***************************************************************************)
(* Refinement.  With one gateway no park can open under another's write,   *)
(* and the instance is DEGRADED while that gateway is in its park.         *)
(***************************************************************************)
OneGateway == Gateways = {Outer}

AliveOK ==
    /\ ~crossed
    /\ main = "running" => status \in Live
    /\ (main = "running" /\ gpc[Outer] \in InPark) => status = "DEGRADED"

LEMMA AliveKept ==
    ASSUME AliveOK, UNCHANGED <<crossed, main>>, status' = status,
           gpc'[Outer] \in InPark => gpc[Outer] \in InPark
    PROVE  AliveOK'
BY DEF AliveOK

LEMMA AliveJoins ==
    ASSUME OneGateway, TypeOK, AliveOK, main = "running", NEW res, NEW lost,
           Joins(Outer, res, lost)
    PROVE  AliveOK'
<1>1. Outer \in Gateways
  BY DEF OneGateway
<1>2. CASE gpc' = [gpc EXCEPT ![Outer] = "joining"] /\ UNCHANGED <<status, main, crossed>>
  BY <1>1, <1>2, AliveKept DEF TypeOK, InPark
<1>3. CASE Returns(Outer, status) /\ UNCHANGED crossed
  BY <1>3 DEF AliveOK, Returns, Completes
<1>4. CASE OpenPark(Outer, lost)
  BY <1>4 DEF OneGateway, AliveOK, OpenPark, Live
<1> QED
  BY <1>2, <1>3, <1>4 DEF Joins

LEMMA AliveWaits ==
    ASSUME OneGateway, TypeOK, AliveOK, main = "running", gpc[Outer] \in InPark, NEW lost, NEW again,
           Waits(Outer, lost, again), UNCHANGED <<main, crossed>>
    PROVE  AliveOK'
<1>1. Outer \in Gateways
  BY DEF OneGateway
<1>2. CASE UNCHANGED status
  BY <1>2, AliveKept
<1>3. CASE gpc' = [gpc EXCEPT ![Outer] = "leavePaused"] /\ status' = "PAUSED"
  BY <1>1, <1>3 DEF AliveOK, TypeOK, InPark, Live
<1> QED
  BY <1>2, <1>3 DEF Waits

LEMMA AliveNext ==
    ASSUME OneGateway, TypeInv, AliveOK, [Next]_vars
    PROVE  AliveOK'
<1> USE DEF TypeInv
<1>1. Outer \in Gateways
  BY DEF OneGateway
<1>2. ASSUME NEW i \in Initiators, HoldPause(i) \/ HoldResume(i) PROVE AliveOK'
  BY <1>2, AliveKept DEF HoldPause, HoldResume
<1>3. ASSUME NEW i \in Initiators, InstancePause(i) \/ InstanceResume(i) PROVE AliveOK'
  BY <1>3 DEF InstancePause, InstanceResume, AliveOK, Live
<1>4. ASSUME \/ \E b \in Leaves, r \in Results : StageResult(b, r)
             \/ \E t \in Leaves : ForceForward(t)
             \/ \E t \in Leaves \cup {None} : ForceBack(t)
             \/ Cancel
             \/ PauseReturns \/ ResumeReturns
             \/ \E b \in Leaves : CreateTask(b) \/ ResolveStage(b)
             \/ \E p \in Processes : CommitWrite(p)
             \/ UNCHANGED vars
      PROVE  AliveOK'
  BY <1>4, AliveKept DEF StageResult, ForceForward, ForceBack, Cancel, PauseReturns, ResumeReturns,
                         CreateTask, ResolveStage, CommitWrite, vars
<1>5. CASE Closes
  BY <1>5 DEF Closes, AliveOK
<1>6. CASE GatewayNext(Outer)
  <2>1. ASSUME NEW b \in Leaves \cup Inner, Settle(Outer, b) PROVE AliveOK'
    BY <2>1, AliveJoins DEF Settle, Joining
  <2>2. CASE Redirected(Outer)
    BY <2>2, AliveJoins DEF Redirected
  <2>3. CASE CancelReturns(Outer) \/ ParkTerminate(Outer)
    BY <2>3 DEF CancelReturns, ParkTerminate, ReturnsTerminated, AliveOK
  <2>4. CASE ParkRedirected(Outer)
    BY <2>4, AliveWaits DEF ParkRedirected, InPark
  <2>5. ASSUME NEW b \in Leaves, ParkSettle(Outer, b) PROVE AliveOK'
    BY <2>5, AliveWaits DEF ParkSettle, InPark
  <2>6. CASE ParkClosedReturns(Outer)
    BY <2>6 DEF ParkClosedReturns, Returns, Completes, AliveOK
  <2>7. CASE RunningReturns(Outer)
    BY <1>1, <2>7 DEF RunningReturns, Returns, Completes, AliveOK, TypeOK, Live, InPark
  <2>8. CASE DegradedReturns(Outer) \/ ParkTakes(Outer)
    BY <2>8, AliveKept DEF DegradedReturns, ParkTakes, InPark
  <2>9. CASE ParkCancel(Outer) \/ SeveredReturns(Outer)
    <3>1. gpc'[Outer] \in {"cancelling", "done"}
      BY <1>1, <2>9 DEF ParkCancel, SeveredReturns, TypeOK
    <3> QED
      BY <2>9, <3>1, AliveKept DEF ParkCancel, SeveredReturns, InPark
  <2>10. CASE TakeShared(Outer) \/ TakeOwn(Outer)
    <3>1. gpc'[Outer] \in {"joining", "cancelling", "done", "redirect"}
      BY <1>1, <2>10 DEF TakeShared, TakeOwn, TakeAdmin, Joining, TypeOK
    <3> QED
      BY <2>10, <3>1, AliveKept DEF TakeShared, TakeOwn, InPark
  <2> QED
    BY <1>6, <2>1, <2>2, <2>3, <2>4, <2>5, <2>6, <2>7, <2>8, <2>9, <2>10 DEF GatewayNext
<1> QED
  BY <1>2, <1>3, <1>4, <1>5, <1>6 DEF Next, Signals, OneGateway

LEMMA OwnerKept ==
    ASSUME UNCHANGED <<status, pausedBy, pauseHeld, lifter>>
    PROVE  UNCHANGED Abs!absVars
BY DEF Abs!absVars

LEMMA AbsStep ==
    ASSUME OneGateway, TypeInv, PauseFollowsStatus, LastParkWritesRunning, AliveOK, [Next]_vars
    PROVE  [Abs!AbsNext]_(Abs!absVars)
<1> USE DEF TypeInv
<1>1. Outer \in Gateways
  BY DEF OneGateway
<1>2. ASSUME status \in Live, status' \in Terminal, UNCHANGED <<pausedBy, pauseHeld, lifter>>
      PROVE  Abs!AbsNext
  BY <1>2 DEF Abs!AbsNext, Abs!End, Live, Terminal
<1>3. ASSUME status \in Live, status' = "DEGRADED", UNCHANGED <<pausedBy, pauseHeld, lifter>>
      PROVE  [Abs!AbsNext]_(Abs!absVars)
  BY <1>3 DEF Abs!AbsNext, Abs!Degrade, Abs!absVars, Live
<1>4. ASSUME status = "DEGRADED", status' = "PAUSED", pauseHeld, UNCHANGED <<pausedBy, pauseHeld, lifter>>
      PROVE  Abs!AbsNext
  BY <1>4, InitiatorAssumption DEF Abs!AbsNext, Abs!Recover, PauseFollowsStatus
<1>5. ASSUME NEW i \in Initiators, HoldPause(i) \/ InstancePause(i) PROVE Abs!AbsNext
  <2>1. Abs!TakePause(i)
    BY <1>5 DEF HoldPause, HoldsPauseDuringPark, InstancePause, PauseFollowsStatus, Abs!TakePause
  <2> QED
    BY <2>1 DEF Abs!AbsNext
<1>6. ASSUME NEW i \in Initiators, HoldResume(i) \/ InstanceResume(i) PROVE Abs!AbsNext
  <2>1. Abs!LiftPause(i)
    BY <1>6, InitiatorAssumption DEF HoldResume, HoldsPauseDuringPark, InstanceResume, CanResume,
                                     PauseFollowsStatus, Abs!LiftPause
  <2> QED
    BY <2>1 DEF Abs!AbsNext
<1>7. ASSUME \/ \E b \in Leaves, r \in Results : StageResult(b, r)
             \/ \E t \in Leaves : ForceForward(t)
             \/ \E t \in Leaves \cup {None} : ForceBack(t)
             \/ Cancel
             \/ PauseReturns \/ ResumeReturns \/ Closes
             \/ \E b \in Leaves : CreateTask(b) \/ ResolveStage(b)
             \/ \E p \in Processes : CommitWrite(p)
             \/ UNCHANGED vars
      PROVE  UNCHANGED Abs!absVars
  BY <1>7, OwnerKept DEF StageResult, ForceForward, ForceBack, Cancel, PauseReturns, ResumeReturns,
                         Closes, CreateTask, ResolveStage, CommitWrite, vars
<1>8. ASSUME main = "running", NEW res, NEW lost, Joins(Outer, res, lost),
             UNCHANGED <<pausedBy, pauseHeld, lifter>>
      PROVE  [Abs!AbsNext]_(Abs!absVars)
  <2>1. CASE status' = status
    BY <1>8, <2>1, OwnerKept
  <2>2. CASE status' \in {"COMPLETED", "DEGRADED"}
    BY <1>8, <1>2, <1>3, <2>2 DEF AliveOK, Terminal
  <2> QED
    BY <1>8, <2>1, <2>2, JoinsStatus
<1>9. ASSUME main = "running", gpc[Outer] \in InPark, NEW lost, NEW again,
             Waits(Outer, lost, again), UNCHANGED <<pausedBy, pauseHeld, lifter>>
      PROVE  [Abs!AbsNext]_(Abs!absVars)
  <2>1. CASE status' = status
    BY <1>9, <2>1, OwnerKept
  <2>2. CASE status' = "PAUSED" /\ pauseHeld
    BY <1>9, <1>4, <2>2 DEF AliveOK
  <2> QED
    BY <1>9, <2>1, <2>2, WaitsStatus
<1>10. CASE GatewayNext(Outer)
  <2>1. ASSUME NEW b \in Leaves \cup Inner, Settle(Outer, b) PROVE [Abs!AbsNext]_(Abs!absVars)
    BY <2>1, <1>8 DEF Settle, Joining
  <2>2. CASE Redirected(Outer)
    BY <2>2, <1>8 DEF Redirected
  <2>3. CASE CancelReturns(Outer) \/ ParkTerminate(Outer)
    BY <2>3, <1>2 DEF CancelReturns, ParkTerminate, ReturnsTerminated, AliveOK, Terminal
  <2>4. CASE ParkRedirected(Outer)
    BY <2>4, <1>9 DEF ParkRedirected, InPark
  <2>5. ASSUME NEW b \in Leaves, ParkSettle(Outer, b) PROVE [Abs!AbsNext]_(Abs!absVars)
    BY <2>5, <1>9 DEF ParkSettle, InPark
  <2>6. CASE ParkClosedReturns(Outer)
    BY <2>6, <1>2 DEF ParkClosedReturns, Returns, Completes, AliveOK, Terminal
  <2>7. CASE RunningReturns(Outer)
    <3>1. Outer \in kept /\ status = "DEGRADED" /\ UNCHANGED <<pausedBy, lifter>>
      BY <1>1, <2>7 DEF RunningReturns, LastParkWritesRunning, AliveOK, InPark
    <3>2. CASE pauseHeld
      <4>1. status' = "PAUSED" /\ UNCHANGED pauseHeld
        BY <2>7, <3>1, <3>2 DEF RunningReturns
      <4> QED
        BY <1>4, <3>1, <3>2, <4>1
    <3>3. CASE ~pauseHeld
      <4>1. pauseHeld' = FALSE /\ Returns(Outer, "RUNNING")
        BY <2>7, <3>3 DEF RunningReturns
      <4>2. status' = "COMPLETED" /\ UNCHANGED pauseHeld
        BY <3>3, <4>1 DEF Returns, Completes, TypeOK
      <4> QED
        BY <1>2, <3>1, <4>2 DEF Live, Terminal
    <3> QED
      BY <3>2, <3>3
  <2>8. CASE TakeShared(Outer) \/ TakeOwn(Outer) \/ DegradedReturns(Outer) \/ ParkTakes(Outer)
             \/ ParkCancel(Outer) \/ SeveredReturns(Outer)
    BY <2>8, OwnerKept DEF TakeShared, TakeOwn, DegradedReturns, ParkTakes, ParkCancel, SeveredReturns
  <2> QED
    BY <1>10, <2>1, <2>2, <2>3, <2>4, <2>5, <2>6, <2>7, <2>8 DEF GatewayNext
<1> QED
  BY <1>5, <1>6, <1>7, <1>10 DEF Next, Signals, OneGateway

\* With one gateway, the life of an instance implements the abstract life of
\* InstanceStatus: a pause in force is lifted by its owner or the
\* administrator only, and shows again when the instance recovers.
THEOREM Refinement == ASSUME OneGateway PROVE Spec => ImplementsInstanceStatus
<1>1. Init => AliveOK
  BY GatewayAssumption DEF Init, AliveOK, Live, InPark
<1>2. AliveOK /\ TypeInv /\ [Next]_vars => AliveOK'
  BY AliveNext
<1>3. Spec => []AliveOK
  <2>1. Spec => []TypeInv
    BY TypeInit, TypeNext, PTL DEF Spec
  <2> QED
    BY <1>1, <1>2, <2>1, PTL DEF Spec
<1>4. Init => Abs!AbsInit
  BY DEF Init, Abs!AbsInit
<1>5. TypeInv /\ PauseFollowsStatus /\ LastParkWritesRunning /\ AliveOK /\ [Next]_vars
        => [Abs!AbsNext]_(Abs!absVars)
  BY AbsStep
<1> QED
  BY <1>3, <1>4, <1>5, PauseInvariant, PTL DEF Spec, ImplementsInstanceStatus, Abs!AbsSpec

(***************************************************************************)
(* What a run leaves behind when its branches join.  The status is         *)
(* DEGRADED only while a gateway is parked (DegradedInv); a gateway that   *)
(* is done has every branch joined (JoinInv); the list of parks names each *)
(* gateway once, so the outermost gateway parks alone (ParkListInv) and no *)
(* terminate is ever in its mail (MailInv); hence the status writes of a   *)
(* run that ends do not cross and the row follows (WriteInv).  With one    *)
(* gateway, a result that a task waits for is held back only while a pause *)
(* stands or is being lifted (HeldInv).                                    *)
(***************************************************************************)
\* The length of the list of parks after one of them is removed.
LEMMA ParkRemoved ==
    ASSUME TypeOK, NEW g \in Gateways, Parked(g), parks' = ParksWithout(g)
    PROVE  /\ parks # <<>> /\ Len(parks) \in Nat
           /\ parks' = <<>> <=> Len(parks) = 1
           /\ parks' # <<>> <=> Len(parks) > 1
<1>1. parks \in Seq(Gateways)
  BY DEF TypeOK
<1>2. parks' \in Seq(Gateways) /\ Len(parks') = Len(parks) - 1
  BY <1>1, ParksWithoutType
<1>3. Len(parks) \in Nat /\ Len(parks) # 0
  BY <1>1 DEF Parked
<1>4. parks' = <<>> <=> Len(parks') = 0
  <2>1. \A s \in Seq(Gateways) : s = <<>> <=> Len(s) = 0
    OBVIOUS
  <2> QED
    BY <1>2, <2>1
<1>5. parks # <<>>
  <2>1. Len(<<>>) = 0
    OBVIOUS
  <2> QED
    BY <1>3, <2>1
<1>6. Len(parks') = 0 <=> Len(parks) = 1
  BY <1>2, <1>3
<1>7. Len(parks) = 1 <=> ~(Len(parks) > 1)
  <2>1. \A n \in Nat : n # 0 => (n = 1 <=> ~(n > 1))
    OBVIOUS
  <2> QED
    BY <1>3, <2>1
<1> QED
  BY <1>3, <1>4, <1>5, <1>6, <1>7, Zenon

-----------------------------------------------------------------------------
(***************************************************************************)
(* DEGRADED and the parks.                                                 *)
(***************************************************************************)
KeepsOnlyParked == keepsPause => parks # <<>>

DegradedInv == KeepsOnlyParked /\ DegradedWhileParked

\* Nothing about the parks changes and the status stays or becomes final.
LEMMA DegradedKept ==
    ASSUME DegradedInv, UNCHANGED <<parks, keepsPause, crossed>>, stray => stray',
           status' = status \/ status' \notin Live
    PROVE  DegradedInv'
BY DEF DegradedInv, KeepsOnlyParked, DegradedWhileParked

LEMMA DegradedJoins ==
    ASSUME TypeOK, DegradedInv, LastParkWritesRunning', NEW g \in Gateways, NEW res, NEW lost,
           Joins(g, res, lost), stray => stray'
    PROVE  DegradedInv'
<1>1. CASE UNCHANGED <<status, keepsPause, parks, crossed>>
  BY <1>1, DegradedKept
<1>2. CASE Returns(g, status) /\ UNCHANGED <<keepsPause, parks, crossed>>
  <2>1. status' = status \/ status' \notin Live
    BY <1>2 DEF Returns, Completes, Live
  <2> QED
    BY <1>2, <2>1, DegradedKept
<1>3. CASE OpenPark(g, lost)
  <2>1. parks' # <<>> /\ status' = "DEGRADED"
    <3>1. parks' = Append(parks, g) /\ parks \in Seq(Gateways)
      BY <1>3 DEF OpenPark, TypeOK
    <3>2. Len(parks') # 0
      BY <3>1
    <3>3. Len(<<>>) = 0
      OBVIOUS
    <3> QED
      BY <1>3, <3>2, <3>3 DEF OpenPark
  <2>2. ~crossed' => keepsPause'
    BY <2>1 DEF LastParkWritesRunning
  <2> QED
    BY <2>1, <2>2, Zenon DEF DegradedInv, KeepsOnlyParked, DegradedWhileParked
<1> QED
  BY <1>1, <1>2, <1>3 DEF Joins

LEMMA DegradedWaits ==
    ASSUME TypeOK, DegradedInv, LastParkWritesRunning', NEW g \in Gateways, Parked(g),
           NEW lost, NEW again, Waits(g, lost, again), UNCHANGED <<crossed, stray>>
    PROVE  DegradedInv'
<1>1. CASE UNCHANGED <<status, keepsPause, parks>>
  BY <1>1, DegradedKept
<1>2. CASE Len(parks) > 1 /\ ClosePark(g) /\ UNCHANGED status
  <2>1. parks # <<>> /\ parks' # <<>>
    BY <1>2, ParkRemoved DEF ClosePark
  <2>2. ~crossed' => keepsPause'
    BY <2>1 DEF LastParkWritesRunning
  <2> QED
    BY <1>2, <2>1, <2>2, Zenon DEF DegradedInv, KeepsOnlyParked, DegradedWhileParked
<1>3. CASE Len(parks) = 1 /\ ClosePark(g) /\ status' = "PAUSED"
  <2>1. parks' = <<>>
    BY <1>3, ParkRemoved DEF ClosePark
  <2>2. ~keepsPause'
    <3>1. Len(parks) = 1 => ~(Len(parks) > 1)
      OBVIOUS
    <3> QED
      BY <1>3, <3>1, Zenon DEF ClosePark
  <2> QED
    BY <1>3, <2>1, <2>2 DEF DegradedInv, KeepsOnlyParked, DegradedWhileParked
<1> QED
  BY <1>1, <1>2, <1>3 DEF Waits

\* A gateway closes its park, if it has one, in a step after which either
\* the instance is over or a gateway was ended from outside.
LEMMA DegradedDone ==
    ASSUME TypeOK, DegradedInv, NEW g \in Gateways,
           IF Parked(g) THEN ClosePark(g) ELSE UNCHANGED <<parks, keepsPause>>,
           status' \notin Live \/ stray'
    PROVE  DegradedInv'
<1>1. CASE Parked(g)
  <2>1. keepsPause' => Len(parks) > 1
    BY <1>1 DEF ClosePark
  <2>2. parks' # <<>> <=> Len(parks) > 1
    BY <1>1, ParkRemoved DEF ClosePark
  <2> QED
    BY <2>1, <2>2 DEF DegradedInv, KeepsOnlyParked, DegradedWhileParked
<1>2. CASE ~Parked(g)
  BY <1>2 DEF DegradedInv, KeepsOnlyParked, DegradedWhileParked
<1> QED
  BY <1>1, <1>2

LEMMA DegradedNext ==
    ASSUME TypeInv, LastParkWritesRunning, DegradedInv, [Next]_vars
    PROVE  DegradedInv'
<1> USE DEF TypeInv
<1>0. LastParkWritesRunning'
  BY ParksNext
<1>1. ASSUME NEW i \in Initiators, InstancePause(i) \/ InstanceResume(i) PROVE DegradedInv'
  BY <1>1 DEF InstancePause, InstanceResume, DegradedInv, KeepsOnlyParked, DegradedWhileParked, Live
<1>2. ASSUME \/ \E i \in Initiators : HoldPause(i) \/ HoldResume(i)
             \/ \E b \in Leaves, r \in Results : StageResult(b, r)
             \/ \E t \in Leaves : ForceForward(t)
             \/ \E t \in Leaves \cup {None} : ForceBack(t)
             \/ Cancel
             \/ PauseReturns \/ ResumeReturns \/ Closes
             \/ \E b \in Leaves : CreateTask(b) \/ ResolveStage(b)
             \/ \E p \in Processes : CommitWrite(p)
             \/ UNCHANGED vars
      PROVE  DegradedInv'
  <2>1. UNCHANGED <<status, parks, keepsPause, crossed, stray>>
    BY <1>2 DEF HoldPause, HoldResume, StageResult, ForceForward, ForceBack, Cancel, PauseReturns,
                ResumeReturns, Closes, CreateTask, ResolveStage, CommitWrite, vars
  <2> QED
    BY <2>1, DegradedKept
<1>3. ASSUME NEW g \in Gateways, GatewayNext(g) PROVE DegradedInv'
  <2>1. ASSUME NEW b \in Leaves \cup Inner, Settle(g, b) PROVE DegradedInv'
    BY <1>0, <2>1, DegradedJoins DEF Settle
  <2>2. CASE Redirected(g)
    <3>1. stray => stray'
      BY <2>2 DEF Redirected
    <3> QED
      BY <1>0, <2>2, <3>1, DegradedJoins DEF Redirected
  <2>3. CASE CancelReturns(g)
    <3>1. status' \notin Live \/ stray'
      BY <2>3 DEF CancelReturns, ReturnsTerminated, Live
    <3> QED
      BY <2>3, <3>1, DegradedDone DEF CancelReturns
  <2>4. CASE ParkTerminate(g)
    <3>1. status' \notin Live \/ stray'
      BY <2>4 DEF ParkTerminate, ReturnsTerminated, Live
    <3>2. Parked(g)
      BY <2>4 DEF ParkTerminate, LastParkWritesRunning
    <3> QED
      BY <2>4, <3>1, <3>2, DegradedDone DEF ParkTerminate
  <2>5. CASE ParkRedirected(g)
    <3>1. Parked(g)
      BY <2>5 DEF ParkRedirected, LastParkWritesRunning
    <3> QED
      BY <1>0, <2>5, <3>1, DegradedWaits DEF ParkRedirected
  <2>6. ASSUME NEW b \in Leaves, ParkSettle(g, b) PROVE DegradedInv'
    <3>1. Parked(g)
      BY <2>6 DEF ParkSettle, LastParkWritesRunning
    <3> QED
      BY <1>0, <2>6, <3>1, DegradedWaits DEF ParkSettle
  <2>7. CASE ParkClosedReturns(g)
    <3>1. status' = status \/ status' \notin Live
      BY <2>7 DEF ParkClosedReturns, Returns, Completes, Live
    <3> QED
      BY <2>7, <3>1, DegradedKept DEF ParkClosedReturns
  <2>8. CASE RunningReturns(g)
    <3>1. Parked(g) /\ parks' = ParksWithout(g) /\ UNCHANGED <<crossed, stray>>
      BY <2>8 DEF RunningReturns, LastParkWritesRunning
    <3>2. /\ parks' = <<>> <=> Len(parks) = 1
          /\ parks' # <<>> <=> Len(parks) > 1
      BY <3>1, ParkRemoved
    <3>3. keepsPause' => Len(parks) > 1
      BY <2>8 DEF RunningReturns
    <3>4. ~crossed => Len(parks) = 1
      BY <2>8 DEF RunningReturns, LastParkWritesRunning
    <3>5. status' # "DEGRADED"
      BY <2>8 DEF RunningReturns, Returns, Completes
    <3> QED
      BY <3>1, <3>2, <3>3, <3>4, <3>5 DEF DegradedInv, KeepsOnlyParked, DegradedWhileParked
  <2>9. CASE SeveredReturns(g)
    BY <2>9, DegradedDone DEF SeveredReturns
  <2>10. CASE TakeShared(g) \/ TakeOwn(g)
    <3>1. stray => stray'
      BY <2>10 DEF TakeShared, TakeOwn, TakeAdmin
    <3> QED
      BY <2>10, <3>1, DegradedKept DEF TakeShared, TakeOwn
  <2>11. CASE DegradedReturns(g) \/ ParkTakes(g) \/ ParkCancel(g)
    BY <2>11, DegradedKept DEF DegradedReturns, ParkTakes, ParkCancel
  <2> QED
    BY <1>3, <2>1, <2>2, <2>3, <2>4, <2>5, <2>6, <2>7, <2>8, <2>9, <2>10, <2>11 DEF GatewayNext
<1> QED
  BY <1>1, <1>2, <1>3 DEF Next, Signals

\* In every reachable state of every plan the interpreter is DEGRADED, and
\* keeps pauses for later, exactly while a park is open, until a park opens
\* under another's write of RUNNING or a gateway is ended from outside.
THEOREM DegradedWhileParkedHolds == Spec => []DegradedWhileParked
<1>1. Init => DegradedInv
  BY DEF Init, DegradedInv, KeepsOnlyParked, DegradedWhileParked
<1>2. TypeInv /\ LastParkWritesRunning /\ DegradedInv /\ [Next]_vars => DegradedInv'
  BY DegradedNext
<1>3. Spec => []DegradedInv
  BY <1>1, <1>2, PauseInvariant, PTL DEF Spec
<1> QED
  BY <1>3, PTL DEF DegradedInv

-----------------------------------------------------------------------------
(***************************************************************************)
(* Joins.  While Execute waits for its outermost gateway the status is     *)
(* live; a gateway that leaves its park, or is done, has every branch      *)
(* resolved and none failed or started again; and the branch of a resolved *)
(* leaf is completed, bypassed, failed or started again.                   *)
(***************************************************************************)
LiveWhileRunning == main = "running" => status \in Live

LEMMA LiveNext ==
    ASSUME LiveWhileRunning, [Next]_vars
    PROVE  LiveWhileRunning'
<1>1. ASSUME NEW i \in Initiators, InstancePause(i) \/ InstanceResume(i) PROVE LiveWhileRunning'
  BY <1>1 DEF InstancePause, InstanceResume, LiveWhileRunning, Live
<1>2. ASSUME \/ \E i \in Initiators : HoldPause(i) \/ HoldResume(i)
             \/ \E b \in Leaves, r \in Results : StageResult(b, r)
             \/ \E t \in Leaves : ForceForward(t)
             \/ \E t \in Leaves \cup {None} : ForceBack(t)
             \/ Cancel
             \/ PauseReturns \/ ResumeReturns
             \/ \E b \in Leaves : CreateTask(b) \/ ResolveStage(b)
             \/ \E p \in Processes : CommitWrite(p)
             \/ \E g \in Gateways : \/ TakeShared(g) \/ TakeOwn(g) \/ DegradedReturns(g) \/ ParkTakes(g)
                                    \/ ParkCancel(g) \/ SeveredReturns(g)
             \/ UNCHANGED vars
      PROVE  LiveWhileRunning'
  <2>1. UNCHANGED <<status, main>>
    BY <1>2 DEF HoldPause, HoldResume, StageResult, ForceForward, ForceBack, Cancel, PauseReturns,
                ResumeReturns, CreateTask, ResolveStage, CommitWrite, TakeShared, TakeOwn,
                DegradedReturns, ParkTakes, ParkCancel, SeveredReturns, vars
  <2> QED
    BY <2>1 DEF LiveWhileRunning
<1>3. CASE Closes
  BY <1>3 DEF Closes, LiveWhileRunning
<1>4. ASSUME NEW g \in Gateways, NEW st \in Live, Returns(g, st)
      PROVE  LiveWhileRunning'
  BY <1>4 DEF Returns, Completes, LiveWhileRunning
<1>5. ASSUME main = "running", NEW g \in Gateways, NEW res, NEW lost, Joins(g, res, lost)
      PROVE  LiveWhileRunning'
  BY <1>4, <1>5 DEF Joins, OpenPark, LiveWhileRunning, Live
<1>6. ASSUME main = "running", NEW g, NEW lost, NEW again, Waits(g, lost, again), UNCHANGED main
      PROVE  LiveWhileRunning'
  BY <1>6 DEF Waits, LiveWhileRunning, Live
<1>7. ASSUME main = "running", NEW g, ReturnsTerminated(g)
      PROVE  LiveWhileRunning'
  BY <1>7 DEF ReturnsTerminated, LiveWhileRunning
<1>8. ASSUME NEW g \in Gateways, NEW b, Settle(g, b) PROVE LiveWhileRunning'
  BY <1>5, <1>8 DEF Settle, Joining
<1>9. ASSUME NEW g \in Gateways, Redirected(g) PROVE LiveWhileRunning'
  BY <1>5, <1>9 DEF Redirected
<1>10. ASSUME NEW g \in Gateways, CancelReturns(g) \/ ParkTerminate(g) PROVE LiveWhileRunning'
  BY <1>7, <1>10 DEF CancelReturns, ParkTerminate
<1>11. ASSUME NEW g \in Gateways, ParkRedirected(g) PROVE LiveWhileRunning'
  BY <1>6, <1>11 DEF ParkRedirected
<1>12. ASSUME NEW g \in Gateways, NEW b, ParkSettle(g, b) PROVE LiveWhileRunning'
  BY <1>6, <1>12 DEF ParkSettle
<1>13. ASSUME NEW g \in Gateways, ParkClosedReturns(g) PROVE LiveWhileRunning'
  BY <1>4, <1>13 DEF ParkClosedReturns, LiveWhileRunning
<1>14. ASSUME NEW g \in Gateways, RunningReturns(g) PROVE LiveWhileRunning'
  <2>1. CASE status' = "PAUSED"
    BY <2>1 DEF LiveWhileRunning, Live
  <2>2. CASE Returns(g, "RUNNING")
    BY <1>4, <2>2 DEF Live
  <2> QED
    BY <1>14, <2>1, <2>2 DEF RunningReturns
<1> QED
  BY <1>1, <1>2, <1>3, <1>8, <1>9, <1>10, <1>11, <1>12, <1>13, <1>14 DEF Next, Signals, GatewayNext

LeavesOf(g) == {b \in Leaves : Home[b] = g}

Leaving == {"rewrite", "leavePaused", "writeRunning"}

Clean(g) == Branches(g) \subseteq resolved /\ failed[g] = {} /\ respawn[g] = {}

JoinAt(g) ==
    /\ failed[g] \cup respawn[g] \subseteq LeavesOf(g)
    /\ gpc[g] \in {"joining", "redirect"} => respawn[g] = {}
    /\ gpc[g] = "redirect" => aim[g] \in Leaves \cup Inner
    /\ gpc[g] \in InPark => Branches(g) \subseteq resolved
    /\ gpc[g] \in Leaving => Clean(g)

LeafJoined(b) ==
    b \in failed[Home[b]] \cup respawn[Home[b]] \/ leaf[b] \in {"ok", "bypassed"}

Joined ==
    /\ \A g \in Inner : gpc[g] = "done" => Clean(g)
    /\ status = "COMPLETED" => Clean(Outer)
    /\ \A h \in Inner \cap resolved : gpc[h] = "done"
    /\ \A b \in Leaves \cap resolved : LeafJoined(b)

JoinInv == (\A g \in Gateways : JoinAt(g)) /\ (~stray => Joined)

LEMMA JoinInit == Init => JoinInv /\ LiveWhileRunning
BY GatewayAssumption DEF Init, JoinInv, JoinAt, Joined, LiveWhileRunning, Live, InPark, Leaving, Inner

\* The instance is complete only with every leaf completed or bypassed.
LEMMA JoinImplies == JoinInv => CompletesWhenJoined
<1> SUFFICES ASSUME JoinInv, status = "COMPLETED", ~stray, NEW b \in Leaves
             PROVE  leaf[b] \in {"ok", "bypassed"}
  BY DEF CompletesWhenJoined
<1>1. Joined /\ Clean(Outer)
  BY DEF JoinInv, Joined
<1>2. Home[b] \in Gateways /\ b \in Branches(Home[b])
  BY GatewayAssumption DEF Branches
<1>3. Clean(Home[b])
  <2>1. CASE Home[b] = Outer
    BY <1>1, <2>1
  <2>2. CASE Home[b] \in Inner
    <3>1. Home[b] \in Inner \cap resolved
      BY <1>1, <2>2 DEF Clean, Branches
    <3> QED
      BY <1>1, <2>2, <3>1 DEF Joined
  <2> QED
    BY <1>2, <2>1, <2>2 DEF Inner
<1> QED
  BY <1>1, <1>2, <1>3 DEF Clean, Joined, LeafJoined

\* A gateway that does not move keeps its part of the invariant.
LEMMA JoinAtKept ==
    ASSUME NEW h, JoinAt(h), resolved \subseteq resolved',
           gpc'[h] = gpc[h], failed'[h] = failed[h], respawn'[h] = respawn[h], aim'[h] = aim[h]
    PROVE  JoinAt(h)'
BY DEF JoinAt, Clean

\* A step of no gateway, that changes at most leaves that are not joined.
LEMMA JoinKept ==
    ASSUME JoinInv, UNCHANGED <<gpc, resolved, failed, respawn, aim, stray>>,
           status' = "COMPLETED" => status = "COMPLETED",
           \A b \in Leaves : leaf[b] \in {"ok", "bypassed"} => leaf'[b] = leaf[b]
    PROVE  JoinInv'
<1>1. \A g \in Gateways : JoinAt(g)'
  BY JoinAtKept DEF JoinInv
<1>2. ASSUME ~stray' PROVE Joined'
  <2>1. Joined
    BY <1>2 DEF JoinInv
  <2>2. \A g : Clean(g)' <=> Clean(g)
    BY DEF Clean
  <2>3. \A b \in Leaves : LeafJoined(b) => LeafJoined(b)'
    BY DEF LeafJoined
  <2> QED
    BY <2>1, <2>2, <2>3 DEF Joined
<1> QED
  BY <1>1, <1>2 DEF JoinInv

\* A step of gateway g.
LEMMA JoinMoved ==
    ASSUME JoinInv, NEW g \in Gateways, resolved \subseteq resolved', stray => stray',
           \A h \in Gateways \ {g} : /\ gpc'[h] = gpc[h] /\ failed'[h] = failed[h]
                                     /\ respawn'[h] = respawn[h] /\ aim'[h] = aim[h],
           JoinAt(g)',
           ~stray' => /\ (g \in Inner /\ gpc'[g] = "done") => Clean(g)'
                      /\ status' = "COMPLETED" => Clean(Outer)'
                      /\ \A h \in Inner \cap resolved' : gpc'[h] = "done"
                      /\ \A b \in Leaves \cap resolved' : LeafJoined(b)'
    PROVE  JoinInv'
<1>1. \A h \in Gateways : JoinAt(h)'
  BY JoinAtKept DEF JoinInv
<1>2. ASSUME ~stray' PROVE Joined'
  <2>1. Joined
    BY <1>2 DEF JoinInv
  <2>2. ASSUME NEW h \in Inner, gpc'[h] = "done" PROVE Clean(h)'
    <3>1. CASE h = g
      BY <1>2, <2>2, <3>1
    <3>2. CASE h # g
      <4>1. h \in Gateways \ {g} /\ Clean(h)
        BY <2>1, <2>2, <3>2 DEF Joined, Inner
      <4> QED
        BY <4>1 DEF Clean
    <3> QED
      BY <3>1, <3>2
  <2> QED
    BY <1>2, <2>2 DEF Joined
<1> QED
  BY <1>1, <1>2 DEF JoinInv

\* A gateway moves on without a change to what is resolved, failed or started
\* again.
LEMMA JoinStepped ==
    ASSUME TypeOK, JoinInv, NEW g \in Gateways, gpc[g] # "done",
           UNCHANGED <<resolved, failed, respawn, leaf>>,
           NEW s, gpc' = [gpc EXCEPT ![g] = s],
           \A h \in Gateways \ {g} : aim'[h] = aim[h],
           JoinAt(g)', stray => stray',
           ~stray' => /\ (g \in Inner /\ s = "done") => Clean(g)
                      /\ status' = "COMPLETED" => status = "COMPLETED" \/ Clean(Outer)
    PROVE  JoinInv'
<1>1. gpc'[g] = s /\ \A h \in Gateways \ {g} : gpc'[h] = gpc[h]
  BY DEF TypeOK
<1>2. ASSUME ~stray'
      PROVE  /\ (g \in Inner /\ gpc'[g] = "done") => Clean(g)'
             /\ status' = "COMPLETED" => Clean(Outer)'
             /\ \A h \in Inner \cap resolved' : gpc'[h] = "done"
             /\ \A b \in Leaves \cap resolved' : LeafJoined(b)'
  <2>1. Joined
    BY <1>2 DEF JoinInv
  <2>2. \A h : Clean(h)' <=> Clean(h)
    BY DEF Clean
  <2>3. \A b \in Leaves \cap resolved' : LeafJoined(b)'
    BY <2>1 DEF Joined, LeafJoined
  <2>4. \A h \in Inner \cap resolved' : gpc'[h] = "done"
    BY <1>1, <2>1 DEF Joined, Inner
  <2>5. status' = "COMPLETED" => Clean(Outer)
    BY <1>2, <2>1 DEF Joined
  <2> QED
    BY <1>1, <1>2, <2>2, <2>3, <2>4, <2>5
<1> QED
  BY <1>1, <1>2, JoinMoved

\* The end of an iteration of runParallel's loop.
LEMMA JoinJoins ==
    ASSUME TypeOK, JoinInv, LiveWhileRunning, main = "running", NEW g \in Gateways,
           gpc[g] \in {"joining", "redirect"}, NEW res, NEW lost, Joins(g, res, lost),
           resolved \subseteq res, lost \subseteq LeavesOf(g), UNCHANGED respawn,
           \A h \in Gateways \ {g} : aim'[h] = aim[h], stray => stray',
           ~stray' => /\ \A h \in Inner \cap res : gpc[h] = "done"
                      /\ \A b \in Leaves \cap res : LeafJoined(b)'
    PROVE  JoinInv'
<1>1. resolved' = res /\ failed'[g] = lost /\ \A h \in Gateways \ {g} : failed'[h] = failed[h]
  BY DEF Joins, TypeOK
<1>2. /\ gpc'[g] \in {"joining", "done", "writeDegraded"}
      /\ \A h \in Gateways \ {g} : gpc'[h] = gpc[h]
      /\ gpc'[g] # "joining" => Branches(g) \subseteq res
      /\ gpc'[g] = "done" => lost = {}
  BY DEF Joins, Returns, Completes, OpenPark, TypeOK
<1>3. respawn'[g] = {}
  BY DEF JoinInv, JoinAt
<1>4. status' = "COMPLETED" => g = Outer /\ gpc'[g] = "done"
  BY DEF Joins, Returns, Completes, OpenPark, TypeOK, LiveWhileRunning, Live
<1>5. JoinAt(g)'
  BY <1>1, <1>2, <1>3 DEF JoinAt, InPark, Leaving
<1>6. gpc'[g] = "done" => Clean(g)'
  BY <1>1, <1>2, <1>3 DEF Clean
<1>7. ~stray' => \A h \in Inner \cap resolved' : gpc'[h] = "done"
  BY <1>1, <1>2 DEF Inner
<1> QED
  BY <1>1, <1>2, <1>3, <1>4, <1>5, <1>6, <1>7, JoinMoved

\* The end of an iteration of the park's loop.
LEMMA JoinWaits ==
    ASSUME TypeOK, JoinInv, LiveWhileRunning, main = "running", NEW g \in Gateways,
           gpc[g] \in InPark, NEW lost, NEW again, Waits(g, lost, again),
           lost \cup again \subseteq LeavesOf(g), UNCHANGED <<resolved, stray>>,
           \A h \in Gateways \ {g} : aim'[h] = aim[h],
           ~stray' => \A b \in Leaves \cap resolved : LeafJoined(b)'
    PROVE  JoinInv'
<1>1. /\ failed'[g] = lost /\ respawn'[g] = again
      /\ \A h \in Gateways \ {g} : failed'[h] = failed[h] /\ respawn'[h] = respawn[h]
  BY DEF Waits, TypeOK
<1>2. /\ gpc'[g] \in {"parked", "rewrite", "leavePaused", "writeRunning"}
      /\ \A h \in Gateways \ {g} : gpc'[h] = gpc[h]
      /\ gpc'[g] # "parked" => lost \cup again = {}
  BY DEF Waits, TypeOK
<1>3. Branches(g) \subseteq resolved
  BY DEF JoinInv, JoinAt
<1>4. status' # "COMPLETED"
  BY DEF Waits, LiveWhileRunning, Live
<1>5. gpc'[g] # "parked" => Clean(g)'
  BY <1>1, <1>2, <1>3 DEF Clean
<1>6. JoinAt(g)'
  BY <1>1, <1>2, <1>3, <1>5 DEF JoinAt, InPark, Leaving
<1>7. ~stray' => \A h \in Inner \cap resolved' : gpc'[h] = "done"
  <2>1. ~stray => \A h \in Inner \cap resolved : gpc[h] = "done"
    BY DEF JoinInv, Joined
  <2>2. gpc[g] # "done"
    BY DEF InPark
  <2> QED
    BY <1>2, <2>1, <2>2 DEF Inner
<1> QED
  BY <1>1, <1>2, <1>4, <1>6, <1>7, JoinMoved

LEMMA JoinSettle ==
    ASSUME TypeOK, JoinInv, LiveWhileRunning, NEW g \in Gateways, NEW b \in Leaves \cup Inner,
           Settle(g, b)
    PROVE  JoinInv'
<1>1. /\ main = "running" /\ gpc[g] = "joining" /\ b \in Branches(g) /\ Settled(b)
      /\ Joins(g, resolved \cup {b}, failed[g] \cup Lost(b))
      /\ UNCHANGED <<respawn, aim, leaf, stray>>
  BY DEF Settle, Joining
<1>2. Lost(b) \subseteq LeavesOf(g)
  <2>1. b \in Leaves => b \in LeavesOf(g)
    BY <1>1, GatewayAssumption DEF Branches, LeavesOf, Inner
  <2> QED
    BY <2>1 DEF Lost
<1>3. failed[g] \cup Lost(b) \subseteq LeavesOf(g)
  BY <1>2 DEF JoinInv, JoinAt
<1>4. /\ failed'[g] = failed[g] \cup Lost(b)
      /\ \A h \in Gateways \ {g} : failed'[h] = failed[h]
  BY <1>1 DEF Joins, TypeOK
<1>5. ASSUME ~stray
      PROVE  /\ \A h \in Inner \cap (resolved \cup {b}) : gpc[h] = "done"
             /\ \A c \in Leaves \cap (resolved \cup {b}) : LeafJoined(c)'
  <2>1. Joined
    BY <1>5 DEF JoinInv
  <2>2. b \in Inner => gpc[b] = "done"
    BY <1>1, GatewayAssumption DEF Settled, Inner
  <2>3. ASSUME NEW c \in Leaves, c \in resolved PROVE LeafJoined(c)'
    <3>1. Home[c] \in Gateways /\ LeafJoined(c)
      BY <2>1, <2>3, GatewayAssumption DEF Joined
    <3> QED
      BY <1>1, <1>4, <3>1 DEF LeafJoined
  <2>4. ASSUME b \in Leaves PROVE LeafJoined(b)'
    <3>1. Home[b] = g
      BY <1>1, <2>4, GatewayAssumption DEF Branches, Inner
    <3>2. b \in Lost(b) \/ leaf[b] = "ok"
      BY <2>4 DEF Lost
    <3> QED
      BY <1>1, <1>4, <3>1, <3>2 DEF LeafJoined
  <2> QED
    BY <2>1, <2>2, <2>3, <2>4 DEF Joined
<1> QED
  BY <1>1, <1>3, <1>5, JoinJoins

LEMMA JoinRedirected ==
    ASSUME TypeInv, JoinInv, LiveWhileRunning, NEW g \in Gateways, Redirected(g)
    PROVE  JoinInv'
<1> DEFINE b == aim[g]
<1>1. /\ main = "running" /\ gpc[g] = "redirect" /\ Sever(b)
      /\ Joins(g, resolved \cup {b}, failed[g])
      /\ aim' = [aim EXCEPT ![g] = None]
      /\ stray' = (stray \/ b \in Inner)
      /\ UNCHANGED respawn
  BY DEF Redirected
<1>2. b \in Leaves \cup Inner
  BY <1>1 DEF JoinInv, JoinAt
<1> HIDE DEF b
<1>3. failed[g] \subseteq LeavesOf(g)
  BY DEF JoinInv, JoinAt
<1>4. \A h \in Gateways : failed'[h] = failed[h]
  BY <1>1 DEF Joins, TypeInv, TypeOK
<1>5. \A h \in Gateways \ {g} : aim'[h] = aim[h]
  BY <1>1 DEF TypeInv, TypeOK
<1>6. ASSUME ~stray'
      PROVE  /\ \A h \in Inner \cap (resolved \cup {b}) : gpc[h] = "done"
             /\ \A c \in Leaves \cap (resolved \cup {b}) : LeafJoined(c)'
  <2>1. Joined /\ b \in Leaves /\ b \notin Inner
    BY <1>1, <1>2, <1>6 DEF JoinInv
  <2>2. leaf'[b] = "bypassed" /\ \A c \in Leaves \ {b} : leaf'[c] = leaf[c]
    BY <1>1, <2>1 DEF Sever
  <2>3. ASSUME NEW c \in Leaves, c \in resolved \cup {b} PROVE LeafJoined(c)'
    <3>1. Home[c] \in Gateways /\ (c # b => LeafJoined(c))
      BY <2>1, <2>3, GatewayAssumption DEF Joined
    <3> QED
      BY <1>1, <1>4, <2>2, <3>1 DEF LeafJoined
  <2> QED
    BY <2>1, <2>3 DEF Joined
<1> QED
  BY <1>1, <1>3, <1>5, <1>6, JoinJoins DEF TypeInv

LEMMA JoinParkRedirected ==
    ASSUME TypeInv, JoinInv, LiveWhileRunning, NEW g \in Gateways, ParkRedirected(g)
    PROVE  JoinInv'
<1>1. /\ main = "running" /\ gpc[g] \in InPark
      /\ leaf' = [leaf EXCEPT ![aim[g]] = "bypassed"]
      /\ aim' = [aim EXCEPT ![g] = None]
      /\ Waits(g, failed[g] \ {aim[g]}, respawn[g])
      /\ UNCHANGED <<resolved, stray>>
  BY DEF ParkRedirected, InPark
<1>2. (failed[g] \ {aim[g]}) \cup respawn[g] \subseteq LeavesOf(g)
  BY DEF JoinInv, JoinAt
<1>3. /\ failed'[g] = failed[g] \ {aim[g]} /\ respawn'[g] = respawn[g]
      /\ \A h \in Gateways \ {g} : failed'[h] = failed[h] /\ respawn'[h] = respawn[h]
  BY <1>1 DEF Waits, TypeInv, TypeOK
<1>4. \A h \in Gateways \ {g} : aim'[h] = aim[h]
  BY <1>1 DEF TypeInv, TypeOK
<1>5. ASSUME ~stray', NEW c \in Leaves \cap resolved PROVE LeafJoined(c)'
  <2>1. LeafJoined(c) /\ Home[c] \in Gateways
    BY <1>1, <1>5, GatewayAssumption DEF JoinInv, Joined
  <2>2. CASE c = aim[g]
    BY <1>1, <2>2 DEF LeafJoined, TypeInv, TypeOK
  <2>3. CASE c # aim[g]
    <3>1. leaf'[c] = leaf[c]
      BY <1>1, <2>3 DEF TypeInv, TypeOK
    <3>2. c \in failed[Home[c]] \cup respawn[Home[c]] => c \in failed'[Home[c]] \cup respawn'[Home[c]]
      BY <1>3, <2>1, <2>3
    <3> QED
      BY <2>1, <3>1, <3>2 DEF LeafJoined
  <2> QED
    BY <2>2, <2>3
<1> QED
  BY <1>1, <1>2, <1>4, <1>5, JoinWaits DEF TypeInv

LEMMA JoinParkSettle ==
    ASSUME TypeInv, JoinInv, LiveWhileRunning, NEW g \in Gateways, NEW b \in Leaves, ParkSettle(g, b)
    PROVE  JoinInv'
<1>1. /\ main = "running" /\ gpc[g] \in InPark /\ b \in respawn[g]
      /\ Waits(g, failed[g] \cup Lost(b), respawn[g] \ {b})
      /\ UNCHANGED <<resolved, stray, leaf, aim>>
  BY DEF ParkSettle, InPark
<1>2. (failed[g] \cup Lost(b)) \cup (respawn[g] \ {b}) \subseteq LeavesOf(g)
  BY <1>1 DEF JoinInv, JoinAt, Lost
<1>3. /\ failed'[g] = failed[g] \cup Lost(b) /\ respawn'[g] = respawn[g] \ {b}
      /\ \A h \in Gateways \ {g} : failed'[h] = failed[h] /\ respawn'[h] = respawn[h]
  BY <1>1 DEF Waits, TypeInv, TypeOK
<1>4. b \in Lost(b) \/ leaf[b] = "ok"
  BY DEF Lost
<1>5. ASSUME ~stray', NEW c \in Leaves \cap resolved PROVE LeafJoined(c)'
  <2>1. LeafJoined(c) /\ Home[c] \in Gateways
    BY <1>1, <1>5, GatewayAssumption DEF JoinInv, Joined
  <2>2. leaf'[c] = leaf[c]
    BY <1>1
  <2>3. CASE Home[c] = g
    BY <1>3, <1>4, <2>1, <2>2, <2>3 DEF LeafJoined
  <2>4. CASE Home[c] # g
    BY <1>3, <2>1, <2>2, <2>4 DEF LeafJoined
  <2> QED
    BY <2>3, <2>4
<1> QED
  BY <1>1, <1>2, <1>5, JoinWaits DEF TypeInv

LEMMA JoinParkTakes ==
    ASSUME TypeInv, JoinInv, LiveWhileRunning, NEW g \in Gateways, ParkTakes(g)
    PROVE  JoinInv'
<1>1. /\ main = "running" /\ gpc[g] = "parked"
      /\ UNCHANGED <<resolved, stray, status>>
  BY DEF ParkTakes
<1>2. PICK hit \in FailedBranchFor(g, Head(mail[g]).at) :
        \/ /\ gpc' = [gpc EXCEPT ![g] = "parkRedirect"]
           /\ \E b \in hit : aim' = [aim EXCEPT ![g] = b]
           /\ UNCHANGED <<leaf, failed, respawn>>
        \/ /\ failed' = [failed EXCEPT ![g] = @ \ hit]
           /\ respawn' = [respawn EXCEPT ![g] = @ \cup hit]
           /\ leaf' = [b \in Leaves |-> IF b \in hit THEN "starting" ELSE leaf[b]]
           /\ UNCHANGED <<gpc, aim>>
        \/ UNCHANGED <<gpc, aim, leaf, failed, respawn>>
  BY DEF ParkTakes
<1>3. hit \subseteq failed[g]
  BY FailedHit
<1>4. CASE /\ gpc' = [gpc EXCEPT ![g] = "parkRedirect"]
           /\ \E b \in hit : aim' = [aim EXCEPT ![g] = b]
           /\ UNCHANGED <<leaf, failed, respawn>>
  <2>1. \A h \in Gateways \ {g} : aim'[h] = aim[h]
    BY <1>4 DEF TypeInv, TypeOK
  <2>2. gpc'[g] = "parkRedirect"
    BY <1>4 DEF TypeInv, TypeOK
  <2>3. JoinAt(g)'
    BY <1>1, <1>4, <2>2 DEF JoinInv, JoinAt, InPark, Leaving
  <2> QED
    BY <1>1, <1>4, <2>1, <2>3, JoinStepped DEF TypeInv
<1>5. CASE /\ failed' = [failed EXCEPT ![g] = @ \ hit]
           /\ respawn' = [respawn EXCEPT ![g] = @ \cup hit]
           /\ leaf' = [b \in Leaves |-> IF b \in hit THEN "starting" ELSE leaf[b]]
           /\ UNCHANGED <<gpc, aim>>
  <2>1. /\ failed'[g] = failed[g] \ hit /\ respawn'[g] = respawn[g] \cup hit
        /\ \A h \in Gateways \ {g} : failed'[h] = failed[h] /\ respawn'[h] = respawn[h]
    BY <1>5 DEF TypeInv, TypeOK
  <2>2. JoinAt(g)'
    BY <1>1, <1>3, <1>5, <2>1 DEF JoinInv, JoinAt, InPark, Leaving
  <2>3. ASSUME ~stray'
        PROVE  /\ (g \in Inner /\ gpc'[g] = "done") => Clean(g)'
               /\ status' = "COMPLETED" => Clean(Outer)'
               /\ \A h \in Inner \cap resolved' : gpc'[h] = "done"
               /\ \A b \in Leaves \cap resolved' : LeafJoined(b)'
    <3>1. Joined
      BY <1>1, <2>3 DEF JoinInv
    <3>2. ASSUME NEW b \in Leaves, b \in resolved PROVE LeafJoined(b)'
      <4>1. Home[b] \in Gateways /\ LeafJoined(b)
        BY <3>1, <3>2, GatewayAssumption DEF Joined
      <4>2. CASE b \in hit
        <5>1. Home[b] = g
          BY <1>3, <4>2 DEF JoinInv, JoinAt, LeavesOf
        <5> QED
          BY <2>1, <4>2, <5>1 DEF LeafJoined
      <4>3. CASE b \notin hit
        <5>1. leaf'[b] = leaf[b]
          BY <1>5, <3>2, <4>3
        <5>2. b \in failed[Home[b]] \cup respawn[Home[b]] => b \in failed'[Home[b]] \cup respawn'[Home[b]]
          BY <2>1, <4>1, <4>3
        <5> QED
          BY <4>1, <5>1, <5>2 DEF LeafJoined
      <4> QED
        BY <4>2, <4>3
    <3>3. status # "COMPLETED"
      BY <1>1 DEF LiveWhileRunning, Live
    <3> QED
      BY <1>1, <1>5, <3>1, <3>2, <3>3 DEF Joined
  <2> QED
    BY <1>1, <1>5, <2>1, <2>2, <2>3, JoinMoved
<1>6. CASE UNCHANGED <<gpc, aim, leaf, failed, respawn>>
  BY <1>1, <1>6, JoinKept
<1> QED
  BY <1>2, <1>4, <1>5, <1>6

LEMMA JoinTakeAdmin ==
    ASSUME TypeInv, JoinInv, NEW g \in Gateways, gpc[g] = "joining", NEW m, TakeAdmin(g, m),
           UNCHANGED <<resolved, failed, respawn, leaf, status>>
    PROVE  JoinInv'
<1>1. respawn[g] = {}
  BY DEF JoinInv, JoinAt
<1>2. CASE gpc' = [gpc EXCEPT ![g] = "cancelling"] /\ UNCHANGED <<aim, stray>>
  <2>1. gpc'[g] = "cancelling"
    BY <1>2 DEF TypeInv, TypeOK
  <2>2. JoinAt(g)'
    BY <2>1 DEF JoinInv, JoinAt, InPark, Leaving
  <2> QED
    BY <1>2, <2>2, JoinStepped DEF TypeInv
<1>3. CASE gpc' = [gpc EXCEPT ![g] = "done"] /\ stray' = TRUE /\ UNCHANGED aim
  <2>1. gpc'[g] = "done"
    BY <1>3 DEF TypeInv, TypeOK
  <2>2. JoinAt(g)'
    BY <2>1 DEF JoinInv, JoinAt, InPark, Leaving
  <2> QED
    BY <1>3, <2>2, JoinStepped DEF TypeInv
<1>4. CASE /\ gpc' = [gpc EXCEPT ![g] = "redirect"]
           /\ \E b \in BranchRunning(g, m.at) : aim' = [aim EXCEPT ![g] = b]
           /\ UNCHANGED stray
  <2>1. PICK b \in BranchRunning(g, m.at) : aim' = [aim EXCEPT ![g] = b]
    BY <1>4
  <2>2. aim'[g] = b /\ gpc'[g] = "redirect" /\ \A h \in Gateways \ {g} : aim'[h] = aim[h]
    BY <1>4, <2>1 DEF TypeInv, TypeOK
  <2>3. b \in Leaves \cup Inner
    BY DEF BranchRunning, Branches
  <2>4. JoinAt(g)'
    BY <1>1, <2>2, <2>3 DEF JoinInv, JoinAt, InPark, Leaving
  <2> QED
    BY <1>4, <2>2, <2>4, JoinStepped DEF TypeInv
<1>5. CASE UNCHANGED <<gpc, aim, stray>>
  BY <1>5, JoinKept
<1> QED
  BY <1>2, <1>3, <1>4, <1>5 DEF TakeAdmin

\* Steps in which a gateway returns from an activity or takes a cancel.
LEMMA JoinActivities ==
    ASSUME TypeInv, JoinInv, LiveWhileRunning, NEW g \in Gateways,
           \/ CancelReturns(g) \/ DegradedReturns(g) \/ ParkCancel(g) \/ ParkTerminate(g)
           \/ ParkClosedReturns(g) \/ RunningReturns(g) \/ SeveredReturns(g)
    PROVE  JoinInv'
<1>1. UNCHANGED <<resolved, failed, respawn, leaf, aim>> /\ main = "running"
  BY DEF CancelReturns, DegradedReturns, ParkCancel, ParkTerminate, ParkClosedReturns, RunningReturns,
         SeveredReturns
<1>2. status # "COMPLETED" /\ \A h : Clean(h)' <=> Clean(h)
  BY <1>1 DEF LiveWhileRunning, Live, Clean
<1>3. ASSUME NEW s \in {"cancelling", "done"}, gpc' = [gpc EXCEPT ![g] = s]
      PROVE  JoinAt(g)'
  <2>1. gpc'[g] = s
    BY <1>3 DEF TypeInv, TypeOK
  <2> QED
    BY <1>1, <1>3, <2>1 DEF JoinInv, JoinAt, InPark, Leaving
<1>4. CASE CancelReturns(g) \/ ParkTerminate(g)
  <2>1. /\ gpc' = [gpc EXCEPT ![g] = "done"] /\ gpc[g] # "done"
        /\ stray' = (stray \/ g # Outer)
        /\ status' \in {status, "TERMINATED"}
    BY <1>4 DEF CancelReturns, ParkTerminate, ReturnsTerminated
  <2>2. g \in Inner => stray'
    BY <2>1 DEF Inner
  <2> QED
    BY <1>1, <1>2, <1>3, <2>1, <2>2, JoinStepped DEF TypeInv
<1>5. CASE DegradedReturns(g)
  <2>1. gpc[g] = "writeDegraded" /\ gpc' = [gpc EXCEPT ![g] = "parked"] /\ UNCHANGED <<status, stray>>
    BY <1>5 DEF DegradedReturns
  <2>2. gpc'[g] = "parked"
    BY <2>1 DEF TypeInv, TypeOK
  <2>3. JoinAt(g)'
    BY <1>1, <2>1, <2>2 DEF JoinInv, JoinAt, InPark, Leaving
  <2> QED
    BY <1>1, <1>2, <2>1, <2>3, JoinStepped DEF TypeInv
<1>6. CASE ParkCancel(g)
  <2>1. gpc[g] # "done" /\ gpc' = [gpc EXCEPT ![g] = "cancelling"] /\ UNCHANGED <<status, stray>>
    BY <1>6 DEF ParkCancel
  <2> QED
    BY <1>1, <1>2, <1>3, <2>1, JoinStepped DEF TypeInv
<1>7. CASE ParkClosedReturns(g) \/ RunningReturns(g)
  <2>1. gpc[g] \in Leaving /\ UNCHANGED stray
    BY <1>7 DEF ParkClosedReturns, RunningReturns, Leaving
  <2>2. Clean(g)
    BY <2>1 DEF JoinInv, JoinAt
  <2>3. gpc[g] # "done"
    BY <2>1 DEF Leaving
  <2>4. CASE gpc' = [gpc EXCEPT ![g] = "leavePaused"] /\ status' = "PAUSED"
    <3>1. gpc'[g] = "leavePaused"
      BY <2>4 DEF TypeInv, TypeOK
    <3>2. JoinAt(g)'
      BY <1>1, <1>2, <2>2, <3>1 DEF JoinInv, JoinAt, InPark, Leaving
    <3> QED
      BY <1>1, <2>1, <2>3, <2>4, <3>2, JoinStepped DEF TypeInv
  <2>5. CASE gpc' = [gpc EXCEPT ![g] = "done"] /\ (status' = "COMPLETED" => g = Outer)
    BY <1>1, <1>3, <2>1, <2>2, <2>3, <2>5, JoinStepped DEF TypeInv
  <2>6. \/ gpc' = [gpc EXCEPT ![g] = "leavePaused"] /\ status' = "PAUSED"
        \/ gpc' = [gpc EXCEPT ![g] = "done"] /\ (status' = "COMPLETED" => g = Outer)
    BY <1>2, <1>7 DEF ParkClosedReturns, RunningReturns, Returns, Completes
  <2> QED
    BY <2>4, <2>5, <2>6
<1>8. CASE SeveredReturns(g)
  <2>1. gpc' = [gpc EXCEPT ![g] = "done"] /\ stray' = TRUE
    BY <1>8 DEF SeveredReturns
  <2>2. JoinAt(g)' /\ \A h \in Gateways \ {g} : gpc'[h] = gpc[h]
    BY <1>3, <2>1 DEF TypeInv, TypeOK
  <2> QED
    BY <1>1, <2>1, <2>2, JoinMoved
<1> QED
  BY <1>4, <1>5, <1>6, <1>7, <1>8

LEMMA JoinNext ==
    ASSUME TypeInv, LiveWhileRunning, JoinInv, [Next]_vars
    PROVE  JoinInv'
<1>1. ASSUME \/ Signals \/ PauseReturns \/ ResumeReturns \/ Closes
             \/ \E p \in Processes : CommitWrite(p)
             \/ UNCHANGED vars
      PROVE  JoinInv'
  <2>1. UNCHANGED <<gpc, resolved, failed, respawn, aim, stray, leaf>>
    BY <1>1 DEF Signals, HoldPause, HoldResume, InstancePause, InstanceResume, StageResult, ForceForward,
                ForceBack, Cancel, PauseReturns, ResumeReturns, Closes, CommitWrite, vars
  <2>2. status' \in {status, "PAUSED", "RUNNING"}
    BY <1>1 DEF Signals, HoldPause, HoldResume, InstancePause, InstanceResume, StageResult, ForceForward,
                ForceBack, Cancel, PauseReturns, ResumeReturns, Closes, CommitWrite, vars
  <2> QED
    BY <2>1, <2>2, JoinKept
<1>2. ASSUME NEW b \in Leaves, CreateTask(b) \/ ResolveStage(b) PROVE JoinInv'
  <2>1. UNCHANGED <<gpc, resolved, failed, respawn, aim, stray, status>>
    BY <1>2 DEF CreateTask, ResolveStage
  <2>2. leaf[b] \in {"starting", "waiting"} /\ \E v : leaf' = [leaf EXCEPT ![b] = v]
    BY <1>2 DEF CreateTask, ResolveStage
  <2>3. \A c \in Leaves : leaf[c] \in {"ok", "bypassed"} => leaf'[c] = leaf[c]
    BY <2>2 DEF TypeInv, TypeOK
  <2> QED
    BY <2>1, <2>3, JoinKept
<1>3. ASSUME NEW g \in Gateways, GatewayNext(g) PROVE JoinInv'
  <2>1. CASE TakeShared(g) \/ TakeOwn(g)
    BY <2>1, JoinTakeAdmin DEF TakeShared, TakeOwn, Joining
  <2> QED
    BY <1>3, <2>1, JoinSettle, JoinRedirected, JoinParkRedirected, JoinParkSettle, JoinParkTakes,
       JoinActivities DEF GatewayNext, TypeInv
<1> QED
  BY <1>1, <1>2, <1>3 DEF Next

LEMMA JoinInvariant == Spec => [](TypeInv /\ LiveWhileRunning /\ JoinInv)
<1>1. TypeInv /\ LiveWhileRunning /\ JoinInv /\ [Next]_vars => (TypeInv /\ LiveWhileRunning /\ JoinInv)'
  BY TypeNext, LiveNext, JoinNext
<1> QED
  BY TypeInit, JoinInit, <1>1, PTL DEF Spec

\* In every plan an instance completes only when every task branch, of the
\* outermost gateway and of the inner ones, is completed or was bypassed,
\* unless a gateway was ended from outside.
THEOREM CompletesWhenJoinedHolds == Spec => []CompletesWhenJoined
BY JoinInvariant, JoinImplies, PTL

-----------------------------------------------------------------------------
(***************************************************************************)
(* The list of parks.  It names a gateway at most once, and only one that  *)
(* is in its park, with every branch resolved.                             *)
(***************************************************************************)
HasPark == InPark \cup {"cancelling"}

ParksDistinct == \A i, j \in 1..Len(parks) : parks[i] = parks[j] => i = j

ParkedInPark ==
    \A g \in Gateways : Parked(g) => gpc[g] \in HasPark /\ Branches(g) \subseteq resolved

ParkListInv == ParksDistinct /\ ParkedInPark

LEMMA ParkListRemoved ==
    ASSUME TypeOK, ParksDistinct, NEW g \in Gateways, Parked(g), parks' = ParksWithout(g)
    PROVE  /\ ParksDistinct'
           /\ \A h : Parked(h)' => h # g /\ Parked(h)
<1> DEFINE k == CHOOSE i \in 1..Len(parks) : parks[i] = g
           at(i) == IF i < k THEN i ELSE i + 1
<1>1. k \in 1..Len(parks) /\ parks[k] = g
  BY DEF Parked
<1>2. Len(parks) \in Nat /\ parks \in Seq(Gateways)
  BY DEF TypeOK
<1>3. parks' = [i \in 1..(Len(parks) - 1) |-> IF i < k THEN parks[i] ELSE parks[i + 1]]
  BY DEF ParksWithout
<1>4. Len(parks') = Len(parks) - 1
  BY <1>2, ParksWithoutType
<1> HIDE DEF k
<1>5. \A i \in 1..Len(parks') : /\ at(i) \in 1..Len(parks) /\ at(i) # k
                               /\ parks'[i] = parks[at(i)]
  BY <1>1, <1>2, <1>3, <1>4
<1>6. \A i, j \in 1..Len(parks') : at(i) = at(j) => i = j
  BY <1>1, <1>2, <1>4
<1> HIDE DEF at
<1>7. ParksDistinct'
  BY <1>5, <1>6 DEF ParksDistinct
<1>8. ASSUME NEW h, Parked(h)' PROVE h # g /\ Parked(h)
  <2>1. PICK i \in 1..Len(parks') : parks'[i] = h
    BY <1>8 DEF Parked
  <2>2. at(i) \in 1..Len(parks) /\ at(i) # k /\ parks[at(i)] = h
    BY <1>5, <2>1
  <2>3. h # g
    BY <1>1, <2>2 DEF ParksDistinct
  <2> QED
    BY <2>2, <2>3 DEF Parked
<1> QED
  BY <1>7, <1>8

LEMMA ParkListKept ==
    ASSUME ParkListInv, UNCHANGED parks, resolved \subseteq resolved',
           \A h \in Gateways : gpc[h] \in HasPark => gpc'[h] \in HasPark
    PROVE  ParkListInv'
BY DEF ParkListInv, ParksDistinct, ParkedInPark, Parked

\* A gateway moves to a state s and closes its park if it has one.
LEMMA ParkListClosed ==
    ASSUME TypeOK, ParkListInv, NEW g \in Gateways, NEW s, gpc' = [gpc EXCEPT ![g] = s],
           resolved \subseteq resolved',
           IF Parked(g) THEN parks' = ParksWithout(g) ELSE UNCHANGED parks
    PROVE  ParkListInv'
<1>1. \A h \in Gateways \ {g} : gpc'[h] = gpc[h]
  BY DEF TypeOK
<1>2. ParksDistinct' /\ \A h : Parked(h)' => h # g /\ Parked(h)
  <2>1. CASE Parked(g)
    BY <2>1, ParkListRemoved DEF ParkListInv
  <2>2. CASE ~Parked(g)
    BY <2>2 DEF ParkListInv, ParksDistinct, Parked
  <2> QED
    BY <2>1, <2>2
<1> QED
  BY <1>1, <1>2 DEF ParkListInv, ParkedInPark

LEMMA ParkListOpened ==
    ASSUME TypeOK, ParkListInv, NEW g \in Gateways, gpc[g] \notin HasPark, NEW lost, OpenPark(g, lost),
           resolved \subseteq resolved', Branches(g) \subseteq resolved'
    PROVE  ParkListInv'
<1>1. /\ parks' = Append(parks, g) /\ Len(parks') = Len(parks) + 1 /\ Len(parks) \in Nat
      /\ parks'[Len(parks) + 1] = g
      /\ \A i \in 1..Len(parks) : parks'[i] = parks[i]
  BY DEF OpenPark, TypeOK
<1>2. gpc'[g] = "writeDegraded" /\ \A h \in Gateways \ {g} : gpc'[h] = gpc[h]
  BY DEF OpenPark, TypeOK
<1>3. \A i \in 1..Len(parks) : parks[i] # g
  BY DEF ParkListInv, ParkedInPark, Parked
<1>4. \A i \in 1..Len(parks') : i \in 1..Len(parks) \/ i = Len(parks) + 1
  BY <1>1
<1>5. ParksDistinct'
  <2> SUFFICES ASSUME NEW i \in 1..Len(parks'), NEW j \in 1..Len(parks'), parks'[i] = parks'[j]
               PROVE  i = j
    BY DEF ParksDistinct
  <2>1. CASE i \in 1..Len(parks) /\ j \in 1..Len(parks)
    BY <1>1, <2>1 DEF ParkListInv, ParksDistinct
  <2>2. CASE i = Len(parks) + 1 \/ j = Len(parks) + 1
    BY <1>1, <1>3, <1>4, <2>2
  <2> QED
    BY <1>4, <2>1, <2>2
<1>6. ASSUME NEW h \in Gateways, Parked(h)'
      PROVE  gpc'[h] \in HasPark /\ Branches(h) \subseteq resolved'
  <2>1. PICK i \in 1..Len(parks') : parks'[i] = h
    BY <1>6 DEF Parked
  <2>2. CASE i \in 1..Len(parks)
    <3>1. Parked(h) /\ h # g
      BY <1>1, <1>3, <2>1, <2>2 DEF Parked
    <3> QED
      BY <1>2, <3>1 DEF ParkListInv, ParkedInPark
  <2>3. CASE i = Len(parks) + 1
    BY <1>1, <1>2, <2>1, <2>3 DEF HasPark, InPark
  <2> QED
    BY <1>4, <2>2, <2>3
<1> QED
  BY <1>5, <1>6 DEF ParkListInv, ParkedInPark

LEMMA ParkListJoins ==
    ASSUME TypeOK, ParkListInv, NEW g \in Gateways, gpc[g] \in {"joining", "redirect"}, NEW res, NEW lost,
           Joins(g, res, lost), resolved \subseteq res
    PROVE  ParkListInv'
<1>1. resolved' = res /\ gpc[g] \notin HasPark
  BY DEF Joins, HasPark, InPark
<1>2. CASE UNCHANGED parks /\ \E s : gpc' = [gpc EXCEPT ![g] = s]
  BY <1>1, <1>2, ParkListKept DEF TypeOK
<1>3. CASE OpenPark(g, lost) /\ Branches(g) \subseteq res
  BY <1>1, <1>3, ParkListOpened
<1>4. Returns(g, status) => gpc' = [gpc EXCEPT ![g] = "done"]
  BY DEF Returns, Completes
<1> QED
  BY <1>2, <1>3, <1>4 DEF Joins

LEMMA ParkListWaits ==
    ASSUME TypeOK, ParkListInv, NEW g \in Gateways, Parked(g), NEW lost, NEW again,
           Waits(g, lost, again), UNCHANGED resolved
    PROVE  ParkListInv'
<1>1. CASE UNCHANGED parks /\ \E s \in {"parked", "writeRunning"} : gpc' = [gpc EXCEPT ![g] = s]
  <2>1. \A h \in Gateways : gpc[h] \in HasPark => gpc'[h] \in HasPark
    BY <1>1 DEF TypeOK, HasPark, InPark
  <2> QED
    BY <1>1, <2>1, ParkListKept
<1>2. CASE ClosePark(g) /\ \E s : gpc' = [gpc EXCEPT ![g] = s]
  BY <1>2, ParkListClosed DEF ClosePark
<1> QED
  BY <1>1, <1>2 DEF Waits

LEMMA ParkListNext ==
    ASSUME TypeInv, LastParkWritesRunning, ParkListInv, [Next]_vars
    PROVE  ParkListInv'
<1> USE DEF TypeInv
<1>1. ASSUME \/ Signals \/ PauseReturns \/ ResumeReturns \/ Closes
             \/ \E b \in Leaves : CreateTask(b) \/ ResolveStage(b)
             \/ \E p \in Processes : CommitWrite(p)
             \/ UNCHANGED vars
      PROVE  ParkListInv'
  <2>1. UNCHANGED <<gpc, resolved, parks>>
    BY <1>1 DEF Signals, HoldPause, HoldResume, InstancePause, InstanceResume, StageResult, ForceForward,
                ForceBack, Cancel, PauseReturns, ResumeReturns, Closes, CreateTask, ResolveStage,
                CommitWrite, vars
  <2> QED
    BY <2>1, ParkListKept
<1>2. ASSUME NEW g \in Gateways, GatewayNext(g) PROVE ParkListInv'
  <2>1. ASSUME NEW b \in Leaves \cup Inner, Settle(g, b) PROVE ParkListInv'
    BY <2>1, ParkListJoins DEF Settle, Joining
  <2>2. CASE Redirected(g)
    BY <2>2, ParkListJoins DEF Redirected
  <2>3. CASE CancelReturns(g) \/ SeveredReturns(g)
    BY <2>3, ParkListClosed DEF CancelReturns, ReturnsTerminated, SeveredReturns, ClosePark
  <2>4. CASE ParkTerminate(g)
    <3>1. Parked(g)
      BY <2>4 DEF ParkTerminate, LastParkWritesRunning
    <3> QED
      BY <2>4, <3>1, ParkListClosed DEF ParkTerminate, ReturnsTerminated, ClosePark
  <2>5. CASE RunningReturns(g)
    <3>1. Parked(g)
      BY <2>5 DEF RunningReturns, LastParkWritesRunning
    <3>2. \E s : gpc' = [gpc EXCEPT ![g] = s]
      BY <2>5 DEF RunningReturns, Returns, Completes
    <3> QED
      BY <2>5, <3>1, <3>2, ParkListClosed DEF RunningReturns
  <2>6. CASE ParkRedirected(g)
    BY <2>6, ParkListWaits DEF ParkRedirected, LastParkWritesRunning
  <2>7. ASSUME NEW b \in Leaves, ParkSettle(g, b) PROVE ParkListInv'
    BY <2>7, ParkListWaits DEF ParkSettle, LastParkWritesRunning
  <2>8. CASE ParkClosedReturns(g)
    <3>1. gpc' = [gpc EXCEPT ![g] = "done"] /\ gpc[g] \notin HasPark
      BY <2>8 DEF ParkClosedReturns, Returns, Completes, HasPark, InPark
    <3>2. \A h \in Gateways : gpc[h] \in HasPark => gpc'[h] \in HasPark
      BY <3>1 DEF TypeOK
    <3> QED
      BY <2>8, <3>2, ParkListKept DEF ParkClosedReturns
  <2>9. CASE TakeShared(g) \/ TakeOwn(g)
    <3>1. gpc[g] \notin HasPark /\ \E s : gpc' = [gpc EXCEPT ![g] = s] \/ UNCHANGED gpc
      BY <2>9 DEF TakeShared, TakeOwn, TakeAdmin, Joining, HasPark, InPark
    <3>2. \A h \in Gateways : gpc[h] \in HasPark => gpc'[h] \in HasPark
      BY <3>1 DEF TypeOK
    <3> QED
      BY <2>9, <3>2, ParkListKept DEF TakeShared, TakeOwn
  <2>10. CASE DegradedReturns(g) \/ ParkTakes(g) \/ ParkCancel(g)
    <3>1. UNCHANGED gpc \/ \E s \in HasPark : gpc' = [gpc EXCEPT ![g] = s]
      BY <2>10 DEF DegradedReturns, ParkTakes, ParkCancel, HasPark, InPark
    <3>2. \A h \in Gateways : gpc[h] \in HasPark => gpc'[h] \in HasPark
      BY <3>1 DEF TypeOK
    <3> QED
      BY <2>10, <3>2, ParkListKept DEF DegradedReturns, ParkTakes, ParkCancel
  <2> QED
    BY <1>2, <2>1, <2>2, <2>3, <2>4, <2>5, <2>6, <2>7, <2>8, <2>9, <2>10 DEF GatewayNext
<1> QED
  BY <1>1, <1>2 DEF Next

\* The outermost gateway parks alone, unless a gateway was ended from outside.
LEMMA OuterParksAlone ==
    ASSUME TypeOK, JoinInv, ParkListInv, ~stray, Parked(Outer)
    PROVE  parks # <<>> /\ Head(parks) = Outer
<1>1. parks \in Seq(Gateways) /\ Len(parks) \in Nat /\ Len(parks) >= 1
  BY DEF TypeOK, Parked
<1>2. Head(parks) = parks[1] /\ 1 \in 1..Len(parks) /\ parks # <<>>
  BY <1>1
<1>3. Inner \subseteq resolved
  BY GatewayAssumption DEF ParkListInv, ParkedInPark, Branches
<1>4. \A h \in Inner : ~Parked(h)
  BY <1>3 DEF JoinInv, Joined, ParkListInv, ParkedInPark, HasPark, InPark, Inner
<1>5. parks[1] \in Gateways /\ Parked(parks[1])
  BY <1>1, <1>2 DEF Parked
<1> QED
  BY <1>2, <1>4, <1>5 DEF Inner

\* Only a gateway whose park is not the first is told to terminate, so the
\* outermost one never is, unless a gateway was ended from outside.
NoTerminate(q) == \A i \in 1..Len(q) : q[i].kind # "terminate"

MailInv == ~stray => NoTerminate(mail[Outer])

LEMMA NoTerminateSent ==
    ASSUME NEW q \in Seq(Messages), NEW m \in Messages, NoTerminate(q), m.kind # "terminate"
    PROVE  NoTerminate(Append(q, m))
<1>1. /\ Len(Append(q, m)) = Len(q) + 1 /\ Len(q) \in Nat
      /\ Append(q, m)[Len(q) + 1] = m
      /\ \A i \in 1..Len(q) : Append(q, m)[i] = q[i]
  OBVIOUS
<1>2. \A i \in 1..(Len(q) + 1) : i \in 1..Len(q) \/ i = Len(q) + 1
  BY <1>1
<1> QED
  BY <1>1, <1>2 DEF NoTerminate

LEMMA NoTerminateTaken ==
    ASSUME NEW q \in Seq(Messages), q # <<>>, NoTerminate(q)
    PROVE  NoTerminate(Tail(q)) /\ Head(q).kind # "terminate"
<1>1. /\ Len(q) \in Nat /\ Len(q) >= 1 /\ Head(q) = q[1]
      /\ Len(Tail(q)) = Len(q) - 1
      /\ \A i \in 1..(Len(q) - 1) : Tail(q)[i] = q[i + 1]
  OBVIOUS
<1>2. \A i \in 1..(Len(q) - 1) : i + 1 \in 1..Len(q)
  BY <1>1
<1> QED
  BY <1>1, <1>2 DEF NoTerminate

LEMMA MailSent ==
    ASSUME TypeOK, MailInv, NEW t, NEW m \in Messages, m.kind # "terminate", SendToPark(t, m),
           UNCHANGED stray
    PROVE  MailInv'
<1>1. mail \in [Gateways -> Seq(Messages)] /\ Outer \in Gateways
  BY GatewayAssumption DEF TypeOK
<1>2. mail' = [mail EXCEPT ![ParkFor(t)] = Append(mail[ParkFor(t)], m)]
  BY DEF SendToPark
<1>3. mail'[Outer] = mail[Outer] \/ mail'[Outer] = Append(mail[Outer], m)
  BY <1>1, <1>2
<1> QED
  BY <1>1, <1>3, NoTerminateSent DEF MailInv

LEMMA MailTaken ==
    ASSUME TypeOK, MailInv, NEW g \in Gateways, mail[g] # <<>>, mail' = [mail EXCEPT ![g] = Tail(@)],
           stray => stray'
    PROVE  MailInv'
<1>1. mail \in [Gateways -> Seq(Messages)] /\ Outer \in Gateways
  BY GatewayAssumption DEF TypeOK
<1>2. mail'[Outer] = mail[Outer] \/ (g = Outer /\ mail'[Outer] = Tail(mail[Outer]))
  BY <1>1
<1> QED
  BY <1>1, <1>2, NoTerminateTaken DEF MailInv

LEMMA MailNext ==
    ASSUME TypeInv, JoinInv, ParkListInv, MailInv, [Next]_vars
    PROVE  MailInv'
<1> USE DEF TypeInv
<1>1. ASSUME UNCHANGED mail, stray => stray' PROVE MailInv'
  BY <1>1 DEF MailInv
<1>2. ASSUME NEW t \in Leaves, ForceForward(t) PROVE MailInv'
  <2> DEFINE m == [kind |-> "fwd", at |-> t]
  <2>1. m \in Messages /\ m.kind # "terminate"
    BY DEF Messages
  <2>2. (SendToPark(t, m) \/ UNCHANGED mail) /\ UNCHANGED stray
    BY <1>2 DEF ForceForward, SendToAdmin
  <2> HIDE DEF m
  <2> QED
    BY <1>1, <2>1, <2>2, MailSent
<1>3. ASSUME NEW t \in Leaves \cup {None}, ForceBack(t) PROVE MailInv'
  <2> DEFINE m == [kind |-> "back", at |-> t]
  <2>1. m \in Messages /\ m.kind # "terminate"
    BY DEF Messages
  <2>2. (SendToPark(t, m) \/ UNCHANGED mail) /\ UNCHANGED stray
    BY <1>3 DEF ForceBack, SendToAdmin
  <2> HIDE DEF m
  <2> QED
    BY <1>1, <2>1, <2>2, MailSent
<1>4. CASE Cancel
  <2> DEFINE c == [kind |-> "cancel", at |-> None]
             t == [kind |-> "terminate", at |-> None]
  <2>1. c \in Messages /\ c.kind # "terminate"
    BY DEF Messages
  <2>2. \/ UNCHANGED mail
        \/ mail' = [g \in Gateways |->
                      IF g = Head(parks) THEN Append(mail[g], c)
                      ELSE IF \E i \in 1..Len(parks) : parks[i] = g THEN Append(mail[g], t)
                      ELSE mail[g]]
    BY <1>4 DEF Cancel, SendToAdmin
  <2> HIDE DEF c, t
  <2>3. UNCHANGED stray
    BY <1>4 DEF Cancel
  <2>4. ASSUME ~stray,
               mail' = [g \in Gateways |->
                      IF g = Head(parks) THEN Append(mail[g], c)
                      ELSE IF \E i \in 1..Len(parks) : parks[i] = g THEN Append(mail[g], t)
                      ELSE mail[g]]
        PROVE  NoTerminate(mail'[Outer])
    <3>1. Parked(Outer) => Head(parks) = Outer
      BY <2>4, OuterParksAlone
    <3>2. mail'[Outer] \in {mail[Outer], Append(mail[Outer], c)}
      BY <2>4, <3>1, GatewayAssumption DEF Parked
    <3>3. mail[Outer] \in Seq(Messages) /\ NoTerminate(mail[Outer])
      BY <2>4, GatewayAssumption DEF TypeOK, MailInv
    <3> QED
      BY <2>1, <3>2, <3>3, NoTerminateSent
  <2>5. CASE UNCHANGED mail
    BY <1>1, <2>3, <2>5
  <2>6. CASE ~UNCHANGED mail
    <3>1. ~stray' => NoTerminate(mail'[Outer])
      BY <2>2, <2>3, <2>4, <2>6
    <3> QED
      BY <3>1 DEF MailInv
  <2> QED
    BY <2>5, <2>6
<1>5. ASSUME NEW g \in Gateways, ParkTakes(g) \/ ParkCancel(g) \/ ParkTerminate(g) PROVE MailInv'
  <2>1. mail[g] # <<>> /\ mail' = [mail EXCEPT ![g] = Tail(@)]
    BY <1>5 DEF ParkTakes, ParkCancel, ParkTerminate
  <2>2. stray => stray'
    <3>1. CASE ParkTerminate(g)
      BY <3>1 DEF ParkTerminate, ReturnsTerminated
    <3>2. CASE ParkTakes(g) \/ ParkCancel(g)
      BY <3>2 DEF ParkTakes, ParkCancel
    <3> QED
      BY <1>5, <3>1, <3>2
  <2> QED
    BY <2>1, <2>2, MailTaken
<1>6. ASSUME \/ \E i \in Initiators : \/ HoldPause(i) \/ HoldResume(i)
                                      \/ InstancePause(i) \/ InstanceResume(i)
             \/ \E b \in Leaves, r \in Results : StageResult(b, r)
             \/ PauseReturns \/ ResumeReturns \/ Closes
             \/ \E b \in Leaves : CreateTask(b) \/ ResolveStage(b)
             \/ \E p \in Processes : CommitWrite(p)
             \/ UNCHANGED vars
      PROVE  MailInv'
  <2>1. UNCHANGED <<mail, stray>>
    BY <1>6 DEF HoldPause, HoldResume, InstancePause, InstanceResume, StageResult, PauseReturns,
                ResumeReturns, Closes, CreateTask, ResolveStage, CommitWrite, vars
  <2> QED
    BY <1>1, <2>1
<1>7. ASSUME NEW g \in Gateways, GatewayNext(g), ~(ParkTakes(g) \/ ParkCancel(g) \/ ParkTerminate(g))
      PROVE  MailInv'
  <2>1. UNCHANGED mail
    BY <1>7 DEF GatewayNext, Settle, TakeShared, TakeOwn, Redirected, CancelReturns, DegradedReturns,
                ParkRedirected, ParkSettle, ParkClosedReturns, RunningReturns, SeveredReturns
  <2>2. CASE TakeShared(g) \/ TakeOwn(g)
    BY <1>1, <2>1, <2>2 DEF TakeShared, TakeOwn, TakeAdmin
  <2>3. CASE Redirected(g) \/ CancelReturns(g) \/ SeveredReturns(g)
    BY <1>1, <2>1, <2>3 DEF Redirected, CancelReturns, ReturnsTerminated, SeveredReturns
  <2>4. CASE \/ \E b \in Leaves \cup Inner : Settle(g, b)
             \/ \E b \in Leaves : ParkSettle(g, b)
             \/ DegradedReturns(g) \/ ParkRedirected(g) \/ ParkClosedReturns(g) \/ RunningReturns(g)
    BY <1>1, <2>1, <2>4 DEF Settle, ParkSettle, DegradedReturns, ParkRedirected, ParkClosedReturns,
                            RunningReturns
  <2> QED
    BY <1>7, <2>2, <2>3, <2>4 DEF GatewayNext
<1> QED
  BY <1>2, <1>3, <1>4, <1>5, <1>6, <1>7 DEF Next, Signals

-----------------------------------------------------------------------------
(***************************************************************************)
(* The stored status.  A gateway writes what its state says and nothing    *)
(* else.  While no two writes overlapped, at most one is in flight, it     *)
(* writes the interpreter's status, or the one that status becomes when    *)
(* the write returns, and between writes the row has the status.           *)
(***************************************************************************)
WriteOf(s) ==
    IF s \in {"writeDegraded", "rewrite"} THEN "DEGRADED"
    ELSE IF s = "leavePaused" THEN "PAUSED"
    ELSE IF s = "writeRunning" THEN "RUNNING"
    ELSE IF s = "cancelling" THEN "TERMINATED"
    ELSE None

WritesByState ==
    /\ \A g \in Gateways : act[g] = WriteOf(gpc[g])
    /\ main = "running" => act[Main] = None

\* p's write is of a status that is taken only when the write returns
Ahead(p) == p \in Gateways /\ gpc[p] \in {"writeRunning", "cancelling"}

Written ==
    /\ \A p, q \in Processes : act[p] # None /\ act[q] # None => p = q
    /\ \A p \in Processes : act[p] # None =>
         (committed[p] => row = act[p]) /\ (act[p] = status \/ Ahead(p))
    /\ (\A p \in Processes : act[p] = None) => row = status

WriteInv ==
    /\ WritesByState
    /\ crossed => overlap
    /\ (~overlap /\ ~stray) => Written

LEMMA WriteInit == Init => WriteInv
<1> SUFFICES ASSUME Init PROVE WriteInv
  OBVIOUS
<1>1. \A p \in Processes : act[p] = None
  BY DEF Init
<1>2. \A g \in Gateways : gpc[g] = "joining" /\ g \in Processes
  BY DEF Init, Processes
<1>3. Main \in Processes
  BY DEF Processes
<1> QED
  BY <1>1, <1>2, <1>3 DEF Init, WriteInv, WritesByState, WriteOf, Written

LEMMA WriteImplies == WriteInv => StoredStatusFollows
BY DEF WriteInv, Written, StoredStatusFollows

LEMMA WrittenKept ==
    ASSUME Written, UNCHANGED <<act, committed, row, status>>,
           \A p \in Processes : act[p] # None /\ Ahead(p) => Ahead(p)'
    PROVE  Written'
BY DEF Written

LEMMA WrittenScheduled ==
    ASSUME TypeOK, NEW p \in Processes, NEW s, s # None, Schedule(p, s), ~overlap',
           s = status' \/ Ahead(p)'
    PROVE  Written'
<1>1. \A q \in Processes \ {p} : act'[q] = None
  BY DEF Schedule, TypeOK
<1>2. act'[p] = s /\ committed'[p] = FALSE
  BY DEF Schedule, TypeOK
<1> QED
  BY <1>1, <1>2 DEF Written

LEMMA WrittenFinished ==
    ASSUME TypeOK, Written, NEW p \in Processes, act' = [act EXCEPT ![p] = None],
           committed' = [committed EXCEPT ![p] = FALSE], UNCHANGED row,
           \A q \in Gateways \ {p} : gpc'[q] = gpc[q],
           \/ act[p] = None /\ status' = status
           \/ act[p] # None /\ committed[p] /\ status' = act[p]
    PROVE  Written'
<1>1. act'[p] = None /\ \A q \in Processes \ {p} : act'[q] = act[q] /\ committed'[q] = committed[q]
  BY DEF TypeOK
<1>2. CASE act[p] = None /\ status' = status
  <2>1. \A q \in Processes : act'[q] = act[q]
    BY <1>1, <1>2
  <2>2. \A q \in Processes : act'[q] # None => q # p /\ committed'[q] = committed[q]
    BY <1>1
  <2>3. \A q \in Processes : q # p /\ Ahead(q) => Ahead(q)'
    BY DEF Ahead
  <2> QED
    BY <1>2, <2>1, <2>2, <2>3 DEF Written
<1>3. CASE act[p] # None /\ committed[p] /\ status' = act[p]
  <2>1. \A q \in Processes : act'[q] = None
    BY <1>1, <1>3 DEF Written
  <2>2. row' = status'
    BY <1>3 DEF Written
  <2> QED
    BY <2>1, <2>2 DEF Written
<1> QED
  BY <1>2, <1>3

LEMMA WrittenCompleted ==
    ASSUME TypeOK, Completes(Outer), ~overlap'
    PROVE  Written'
<1>1. Main \in Processes /\ Outer \in Processes /\ Outer # Main
  BY GatewayAssumption, ProcessAssumption DEF Processes
<1>2. \A q \in Processes \ {Main} : act'[q] = None
  BY <1>1 DEF Completes, TypeOK
<1>3. act'[Main] = "COMPLETED" /\ committed'[Main] = FALSE /\ status' = "COMPLETED"
  BY <1>1 DEF Completes, TypeOK
<1>4. "COMPLETED" # None
  BY NoneAssumption
<1> QED
  BY <1>1, <1>2, <1>3, <1>4 DEF Written

\* The writes of the gateways when gateway g goes to state s.
LEMMA WritesMoved ==
    ASSUME TypeOK, WritesByState, NEW g \in Gateways, NEW s, gpc' = [gpc EXCEPT ![g] = s],
           act' = [act EXCEPT ![g] = WriteOf(s)], main' = "running" => main = "running"
    PROVE  WritesByState'
<1>1. /\ \A h \in Gateways : h \in Processes
      /\ Main \in Processes /\ Main # g
  BY ProcessAssumption DEF Processes
<1>2. act'[g] = WriteOf(s) /\ \A q \in Processes \ {g} : act'[q] = act[q]
  BY <1>1 DEF TypeOK
<1>3. gpc'[g] = s /\ \A h \in Gateways \ {g} : gpc'[h] = gpc[h]
  BY DEF TypeOK
<1>4. \A h \in Gateways : act'[h] = WriteOf(gpc'[h])
  BY <1>1, <1>2, <1>3 DEF WritesByState
<1>5. main' = "running" => act'[Main] = None
  BY <1>1, <1>2 DEF WritesByState
<1> QED
  BY <1>4, <1>5 DEF WritesByState

\* The writes when no gateway moves.
LEMMA WritesOthers ==
    ASSUME TypeOK, WritesByState, UNCHANGED gpc, NEW p \in {Router, Main}, NEW s,
           act' = [act EXCEPT ![p] = s], main' = "running" => main = "running" /\ p # Main
    PROVE  WritesByState'
<1>1. /\ \A h \in Gateways : h \in Processes /\ h # p
      /\ Main \in Processes
  BY ProcessAssumption DEF Processes
<1>2. \A q \in Processes \ {p} : act'[q] = act[q]
  BY DEF TypeOK
<1> QED
  BY <1>1, <1>2 DEF WritesByState

\* A step that schedules nothing and after which g, if any, waits for nothing.
LEMMA WriteKept ==
    ASSUME TypeOK, WriteInv, UNCHANGED <<act, committed, row, overlap, crossed, status, main>>,
           stray => stray',
           \/ UNCHANGED gpc
           \/ \E g \in Gateways : \E s : /\ gpc' = [gpc EXCEPT ![g] = s]
                                         /\ WriteOf(gpc[g]) = None /\ WriteOf(s) = None
    PROVE  WriteInv'
<1>1. WritesByState' /\ \A p \in Processes : act[p] # None /\ Ahead(p) => Ahead(p)'
  <2>1. CASE UNCHANGED gpc
    BY <2>1 DEF WriteInv, WritesByState, Ahead
  <2>2. ASSUME NEW g \in Gateways, NEW s, gpc' = [gpc EXCEPT ![g] = s],
               WriteOf(gpc[g]) = None, WriteOf(s) = None
        PROVE  WritesByState' /\ \A p \in Processes : act[p] # None /\ Ahead(p) => Ahead(p)'
    <3>1. gpc'[g] = s /\ \A h \in Gateways \ {g} : gpc'[h] = gpc[h]
      BY <2>2 DEF TypeOK
    <3>2. act[g] = None
      BY <2>2 DEF WriteInv, WritesByState
    <3>3. WritesByState'
      BY <2>2, <3>1, <3>2 DEF WriteInv, WritesByState
    <3> QED
      BY <3>1, <3>2, <3>3 DEF Ahead
  <2> QED
    BY <2>1, <2>2
<1>2. ASSUME ~overlap', ~stray' PROVE Written'
  BY <1>1, <1>2, WrittenKept DEF WriteInv
<1> QED
  BY <1>1, <1>2 DEF WriteInv

\* Gateway g goes to a state in which it writes the status s.
LEMMA WriteScheduled ==
    ASSUME TypeOK, WriteInv, NEW g \in Gateways, NEW t, gpc' = [gpc EXCEPT ![g] = t],
           WriteOf(t) # None, Schedule(g, WriteOf(t)), UNCHANGED main, crossed' => overlap',
           (~overlap' /\ ~stray') => t \in {"writeRunning", "cancelling"} \/ WriteOf(t) = status'
    PROVE  WriteInv'
<1>1. g \in Processes
  BY DEF Processes
<1>2. WritesByState'
  BY WritesMoved DEF Schedule, WriteInv
<1>3. t \in {"writeRunning", "cancelling"} => Ahead(g)'
  BY DEF Ahead, TypeOK
<1>4. ASSUME ~overlap', ~stray' PROVE Written'
  BY <1>1, <1>3, <1>4, WrittenScheduled
<1> QED
  BY <1>2, <1>4 DEF WriteInv

\* Gateway g goes, when its write has returned, to a state in which it writes
\* nothing.
LEMMA WriteReturned ==
    ASSUME TypeOK, WriteInv, NEW g \in Gateways, NEW t, WriteOf(t) = None,
           gpc' = [gpc EXCEPT ![g] = t], act' = [act EXCEPT ![g] = None],
           committed' = [committed EXCEPT ![g] = FALSE],
           UNCHANGED <<row, overlap, crossed>>, main' = "running" => main = "running", stray => stray',
           (~overlap /\ ~stray') => \/ act[g] = None /\ status' = status
                                    \/ act[g] # None /\ committed[g] /\ status' = act[g]
    PROVE  WriteInv'
<1>1. g \in Processes /\ \A q \in Gateways \ {g} : gpc'[q] = gpc[q]
  BY DEF Processes, TypeOK
<1>2. WritesByState'
  BY WritesMoved DEF WriteInv
<1>3. ASSUME ~overlap', ~stray' PROVE Written'
  BY <1>1, <1>3, WrittenFinished DEF WriteInv
<1> QED
  BY <1>2, <1>3 DEF WriteInv

LEMMA WriteCompleted ==
    ASSUME TypeOK, WriteInv, Completes(Outer), UNCHANGED crossed
    PROVE  WriteInv'
<1>1. Outer \in Gateways /\ Outer # Main /\ \A h \in Gateways : h \in Processes /\ h # Main
  BY GatewayAssumption, ProcessAssumption DEF Processes
<1>2. \A h \in Gateways \ {Outer} : gpc'[h] = gpc[h] /\ act'[h] = act[h]
  BY <1>1 DEF Completes, TypeOK
<1>3. gpc'[Outer] = "done" /\ act'[Outer] = None /\ main' # "running"
  BY <1>1 DEF Completes, TypeOK
<1>4. WritesByState'
  BY <1>2, <1>3 DEF WritesByState, WriteInv, WriteOf
<1>5. overlap => overlap'
  BY DEF Completes
<1>6. ~overlap' => Written'
  BY WrittenCompleted
<1> QED
  BY <1>4, <1>5, <1>6 DEF WriteInv

\* Gateway g returns without an error.
LEMMA WriteReturns ==
    ASSUME TypeOK, WriteInv, NEW g \in Gateways, NEW st, Returns(g, st), UNCHANGED <<crossed, stray>>,
           (~overlap /\ ~stray) => \/ act[g] = None /\ st = status
                                   \/ act[g] # None /\ committed[g] /\ st = act[g]
    PROVE  WriteInv'
<1>1. CASE g = Outer /\ Completes(g)
  BY <1>1, WriteCompleted
<1>2. CASE ~(g = Outer /\ Completes(g))
  <2>1. /\ gpc' = [gpc EXCEPT ![g] = "done"] /\ act' = [act EXCEPT ![g] = None]
        /\ committed' = [committed EXCEPT ![g] = FALSE]
        /\ UNCHANGED <<row, overlap, main>> /\ status' = st
    BY <1>2 DEF Returns
  <2>2. WriteOf("done") = None
    BY DEF WriteOf
  <2> QED
    BY <2>1, <2>2, WriteReturned
<1> QED
  BY <1>1, <1>2

LEMMA WriteJoins ==
    ASSUME TypeOK, WriteInv, NEW g \in Gateways, gpc[g] \in {"joining", "redirect"}, NEW res, NEW lost,
           Joins(g, res, lost), stray => stray'
    PROVE  WriteInv'
<1>1. act[g] = None /\ WriteOf(gpc[g]) = None
  BY DEF WriteInv, WritesByState, WriteOf
<1>2. CASE /\ gpc' = [gpc EXCEPT ![g] = "joining"]
           /\ UNCHANGED <<act, committed, row, overlap, crossed, status, main>>
  <2>1. WriteOf("joining") = None
    BY DEF WriteOf
  <2> QED
    BY <1>1, <1>2, <2>1, WriteKept
<1>3. CASE Returns(g, status) /\ UNCHANGED crossed
  <2>1. CASE g = Outer /\ Completes(g)
    BY <1>3, <2>1, WriteCompleted
  <2>2. CASE ~(g = Outer /\ Completes(g))
    <3>1. /\ gpc' = [gpc EXCEPT ![g] = "done"] /\ act' = [act EXCEPT ![g] = None]
          /\ committed' = [committed EXCEPT ![g] = FALSE]
          /\ UNCHANGED <<row, overlap, main>> /\ status' = status
      BY <1>3, <2>2 DEF Returns
    <3>2. WriteOf("done") = None
      BY DEF WriteOf
    <3> QED
      BY <1>1, <1>3, <3>1, <3>2, WriteReturned
  <2> QED
    BY <2>1, <2>2
<1>4. CASE OpenPark(g, lost)
  <2>1. WriteOf("writeDegraded") = "DEGRADED" /\ "DEGRADED" # None
    BY NoneAssumption DEF WriteOf
  <2>2. crossed' => overlap'
    <3>1. ASSUME NEW h \in Gateways \ {g}, gpc[h] = "writeRunning" PROVE overlap'
      <4>1. act[h] = "RUNNING" /\ "RUNNING" # None
        BY <3>1, NoneAssumption DEF WriteInv, WritesByState, WriteOf
      <4>2. h \in Processes \ {g}
        BY <3>1 DEF Processes
      <4> QED
        BY <1>4, <4>1, <4>2 DEF OpenPark, Schedule
    <3>2. overlap => overlap'
      BY <1>4 DEF OpenPark, Schedule
    <3> QED
      BY <1>4, <3>1, <3>2 DEF OpenPark, WriteInv
  <2> QED
    BY <1>4, <2>1, <2>2, WriteScheduled DEF OpenPark
<1> QED
  BY <1>2, <1>3, <1>4 DEF Joins

LEMMA WriteWaits ==
    ASSUME TypeOK, WriteInv, DegradedInv, LiveWhileRunning, main = "running", NEW g \in Gateways, Parked(g),
           gpc[g] \in {"parked", "parkRedirect"}, NEW lost, NEW again, Waits(g, lost, again),
           UNCHANGED <<main, stray, crossed>>
    PROVE  WriteInv'
<1>1. act[g] = None /\ WriteOf(gpc[g]) = None
  BY DEF WriteInv, WritesByState, WriteOf
<1>2. CASE gpc' = [gpc EXCEPT ![g] = "parked"] /\ UNCHANGED <<actVars, status>>
  <2>1. WriteOf("parked") = None
    BY DEF WriteOf
  <2> QED
    BY <1>1, <1>2, <2>1, WriteKept
<1>3. ASSUME \E s : Schedule(g, s) PROVE crossed' => overlap'
  BY <1>3 DEF Schedule, WriteInv
<1>4. CASE gpc' = [gpc EXCEPT ![g] = "rewrite"] /\ Schedule(g, "DEGRADED") /\ UNCHANGED status
  <2>1. WriteOf("rewrite") = "DEGRADED" /\ "DEGRADED" # None
    BY NoneAssumption DEF WriteOf
  <2>2. parks # <<>>
    <3>1. Len(parks) # 0
      BY DEF Parked, TypeOK
    <3>2. Len(<<>>) = 0
      OBVIOUS
    <3> QED
      BY <3>1, <3>2
  <2>3. ASSUME ~overlap', ~stray' PROVE status = "DEGRADED"
    <3>1. ~crossed
      BY <1>3, <1>4, <2>3
    <3>2. status \in Live
      BY DEF LiveWhileRunning
    <3> QED
      BY <2>2, <2>3, <3>1, <3>2 DEF DegradedInv, DegradedWhileParked
  <2> QED
    BY <1>3, <1>4, <2>1, <2>3, WriteScheduled
<1>5. CASE gpc' = [gpc EXCEPT ![g] = "leavePaused"] /\ Schedule(g, "PAUSED") /\ status' = "PAUSED"
  <2>1. WriteOf("leavePaused") = "PAUSED" /\ "PAUSED" # None
    BY NoneAssumption DEF WriteOf
  <2> QED
    BY <1>3, <1>5, <2>1, WriteScheduled
<1>6. CASE gpc' = [gpc EXCEPT ![g] = "writeRunning"] /\ Schedule(g, "RUNNING")
  <2>1. WriteOf("writeRunning") = "RUNNING" /\ "RUNNING" # None
    BY NoneAssumption DEF WriteOf
  <2> QED
    BY <1>3, <1>6, <2>1, WriteScheduled
<1> QED
  BY <1>2, <1>4, <1>5, <1>6 DEF Waits

LEMMA WriteTakeAdmin ==
    ASSUME TypeOK, WriteInv, NEW g \in Gateways, gpc[g] = "joining", NEW m, TakeAdmin(g, m),
           UNCHANGED <<status, main, crossed>>
    PROVE  WriteInv'
<1>1. act[g] = None /\ WriteOf(gpc[g]) = None
  BY DEF WriteInv, WritesByState, WriteOf
<1>2. CASE gpc' = [gpc EXCEPT ![g] = "cancelling"] /\ Schedule(g, "TERMINATED") /\ UNCHANGED stray
  <2>1. WriteOf("cancelling") = "TERMINATED" /\ "TERMINATED" # None
    BY NoneAssumption DEF WriteOf
  <2>2. crossed' => overlap'
    BY <1>2 DEF Schedule, WriteInv
  <2> QED
    BY <1>2, <2>1, <2>2, WriteScheduled
<1>3. CASE /\ \E s \in {"done", "redirect"} : gpc' = [gpc EXCEPT ![g] = s]
           /\ UNCHANGED actVars
           /\ stray => stray'
  <2>1. WriteOf("done") = None /\ WriteOf("redirect") = None
    BY DEF WriteOf
  <2> QED
    BY <1>1, <1>3, <2>1, WriteKept
<1>4. CASE UNCHANGED <<gpc, actVars, stray>>
  BY <1>4, WriteKept
<1> QED
  BY <1>2, <1>3, <1>4 DEF TakeAdmin

\* A gateway's write has returned, or it is told to stop.
LEMMA WriteActivities ==
    ASSUME TypeOK, WriteInv, MailInv, NEW g \in Gateways,
           \/ CancelReturns(g) \/ DegradedReturns(g) \/ ParkCancel(g) \/ ParkTerminate(g)
           \/ ParkClosedReturns(g) \/ RunningReturns(g) \/ SeveredReturns(g)
    PROVE  WriteInv'
<1>1. act[g] = WriteOf(gpc[g]) /\ g \in Processes
  BY DEF WriteInv, WritesByState, Processes
<1>2. /\ WriteOf("done") = None /\ WriteOf("parked") = None
      /\ WriteOf("cancelling") = "TERMINATED" /\ WriteOf("writeDegraded") = "DEGRADED"
      /\ WriteOf("rewrite") = "DEGRADED" /\ WriteOf("leavePaused") = "PAUSED"
      /\ WriteOf("writeRunning") = "RUNNING"
      /\ "TERMINATED" # None /\ "DEGRADED" # None /\ "PAUSED" # None /\ "RUNNING" # None
  BY NoneAssumption DEF WriteOf
<1>3. ASSUME ~overlap, ~stray, act[g] # None, gpc[g] \notin {"writeRunning", "cancelling"}
      PROVE  act[g] = status
  BY <1>1, <1>3 DEF WriteInv, Written, Ahead
<1>4. CASE CancelReturns(g)
  <2>1. /\ gpc[g] = "cancelling" /\ committed[g] /\ main = "running"
        /\ gpc' = [gpc EXCEPT ![g] = "done"] /\ act' = [act EXCEPT ![g] = None]
        /\ committed' = [committed EXCEPT ![g] = FALSE]
        /\ UNCHANGED <<row, overlap, crossed>>
    BY <1>4 DEF CancelReturns, ReturnsTerminated
  <2>2. stray => stray'
    BY <1>4 DEF CancelReturns, ReturnsTerminated
  <2>3. ~stray' => status' = "TERMINATED"
    BY <1>4 DEF CancelReturns, ReturnsTerminated
  <2> QED
    BY <1>1, <1>2, <2>1, <2>2, <2>3, WriteReturned
<1>5. CASE DegradedReturns(g)
  <2>1. /\ gpc[g] = "writeDegraded" /\ committed[g]
        /\ gpc' = [gpc EXCEPT ![g] = "parked"] /\ act' = [act EXCEPT ![g] = None]
        /\ committed' = [committed EXCEPT ![g] = FALSE]
        /\ UNCHANGED <<row, overlap, crossed, status, main, stray>>
    BY <1>5 DEF DegradedReturns, Finished
  <2> QED
    BY <1>1, <1>2, <1>3, <2>1, WriteReturned
<1>6. CASE ParkCancel(g)
  <2>1. /\ gpc' = [gpc EXCEPT ![g] = "cancelling"] /\ Schedule(g, "TERMINATED")
        /\ UNCHANGED <<crossed, main, stray>>
    BY <1>6 DEF ParkCancel
  <2>2. crossed' => overlap'
    BY <2>1 DEF Schedule, WriteInv
  <2> QED
    BY <1>2, <2>1, <2>2, WriteScheduled
<1>7. CASE ParkTerminate(g)
  <2>1. /\ gpc' = [gpc EXCEPT ![g] = "done"] /\ act' = [act EXCEPT ![g] = None]
        /\ committed' = [committed EXCEPT ![g] = FALSE]
        /\ UNCHANGED <<row, overlap, crossed>> /\ main = "running"
    BY <1>7 DEF ParkTerminate, ReturnsTerminated
  <2>2. (stray => stray') /\ (g # Outer => stray')
    BY <1>7 DEF ParkTerminate, ReturnsTerminated
  <2>3. stray'
    <3>1. CASE g = Outer
      <4>1. mail[g] \in Seq(Messages) /\ mail[g] # <<>> /\ Head(mail[g]).kind = "terminate"
        BY <1>7 DEF ParkTerminate, TypeOK
      <4>2. stray
        BY <3>1, <4>1, NoTerminateTaken DEF MailInv
      <4> QED
        BY <2>2, <4>2
    <3> QED
      BY <2>2, <3>1
  <2> QED
    BY <1>2, <2>1, <2>2, <2>3, WriteReturned
<1>8. CASE ParkClosedReturns(g)
  <2>1. /\ gpc[g] \in {"rewrite", "leavePaused"} /\ act[g] # None /\ committed[g]
        /\ Returns(g, status) /\ UNCHANGED <<crossed, stray>>
    BY <1>8 DEF ParkClosedReturns
  <2> QED
    BY <1>3, <2>1, WriteReturns
<1>9. CASE RunningReturns(g)
  <2>1. act[g] = "RUNNING" /\ committed[g] /\ UNCHANGED <<crossed, stray>>
    BY <1>1, <1>2, <1>9 DEF RunningReturns
  <2>2. CASE /\ status' = "PAUSED" /\ gpc' = [gpc EXCEPT ![g] = "leavePaused"]
             /\ FinishedThen(g, "PAUSED") /\ UNCHANGED main
    <3>1. crossed' => overlap'
      BY <2>1, <2>2 DEF FinishedThen, Schedule, WriteInv
    <3> QED
      BY <1>2, <2>2, <3>1, WriteScheduled DEF FinishedThen
  <2>3. CASE Returns(g, "RUNNING")
    BY <1>2, <2>1, <2>3, WriteReturns
  <2> QED
    BY <1>9, <2>2, <2>3 DEF RunningReturns
<1>10. CASE SeveredReturns(g)
  <2>1. /\ gpc' = [gpc EXCEPT ![g] = "done"] /\ act' = [act EXCEPT ![g] = None]
        /\ committed' = [committed EXCEPT ![g] = FALSE]
        /\ UNCHANGED <<row, overlap, crossed, main>> /\ stray' = TRUE
    BY <1>10 DEF SeveredReturns
  <2> QED
    BY <1>2, <2>1, WriteReturned
<1> QED
  BY <1>4, <1>5, <1>6, <1>7, <1>8, <1>9, <1>10

\* The router's or Execute's write has returned.
LEMMA WriteOthersReturn ==
    ASSUME TypeOK, WriteInv, NEW p \in {Router, Main}, Finished(p), UNCHANGED <<gpc, status, crossed, stray>>,
           main' = "running" => main = "running" /\ p # Main
    PROVE  WriteInv'
<1>1. p \in Processes /\ p \notin Gateways
  BY ProcessAssumption DEF Processes
<1>2. WritesByState'
  BY WritesOthers DEF Finished, WriteInv
<1>3. ASSUME ~overlap', ~stray' PROVE Written'
  <2>1. Written
    BY <1>3 DEF Finished, WriteInv
  <2>2. act[p] # None /\ committed[p] /\ status' = act[p]
    BY <1>1, <2>1 DEF Finished, Written, Ahead
  <2> QED
    BY <1>1, <2>1, <2>2, WrittenFinished DEF Finished
<1> QED
  BY <1>2, <1>3 DEF Finished, WriteInv

LEMMA WriteCommitted ==
    ASSUME TypeOK, WriteInv, NEW p \in Processes, CommitWrite(p)
    PROVE  WriteInv'
<1>1. act[p] # None /\ row' = act[p] /\ UNCHANGED <<act, overlap, status, gpc, main, crossed, stray>>
  BY DEF CommitWrite, CommitGuard
<1>2. WritesByState' /\ (crossed' => overlap')
  BY <1>1 DEF WriteInv, WritesByState
<1>3. ASSUME ~overlap', ~stray' PROVE Written'
  <2>1. Written
    BY <1>1, <1>3 DEF WriteInv
  <2>2. \A q \in Processes : act'[q] # None => q = p
    BY <1>1, <2>1 DEF Written
  <2>3. act'[p] = status' \/ Ahead(p)'
    BY <1>1, <2>1 DEF Written, Ahead
  <2> QED
    BY <1>1, <2>2, <2>3 DEF Written
<1> QED
  BY <1>2, <1>3 DEF WriteInv

LEMMA WriteNext ==
    ASSUME TypeInv, LastParkWritesRunning, DegradedInv, LiveWhileRunning, MailInv, WriteInv, [Next]_vars
    PROVE  WriteInv'
<1> USE DEF TypeInv
<1>1. ASSUME NEW i \in Initiators, InstancePause(i) \/ InstanceResume(i) PROVE WriteInv'
  <2>1. Router \in Processes /\ Router # Main /\ "PAUSED" # None /\ "RUNNING" # None
    BY ProcessAssumption, NoneAssumption DEF Processes
  <2>2. PICK s \in {"PAUSED", "RUNNING"} : Schedule(Router, s) /\ status' = s
    BY <1>1 DEF InstancePause, InstanceResume
  <2>3. UNCHANGED <<gpc, main, crossed, stray>>
    BY <1>1 DEF InstancePause, InstanceResume
  <2>4. WritesByState'
    BY <2>1, <2>2, <2>3, WritesOthers DEF Schedule, WriteInv
  <2>5. ~overlap' => Written'
    BY <2>1, <2>2, WrittenScheduled
  <2>6. crossed' => overlap'
    BY <2>2, <2>3 DEF Schedule, WriteInv
  <2> QED
    BY <2>4, <2>5, <2>6 DEF WriteInv
<1>2. ASSUME \/ \E i \in Initiators : HoldPause(i) \/ HoldResume(i)
             \/ \E b \in Leaves, r \in Results : StageResult(b, r)
             \/ \E t \in Leaves : ForceForward(t)
             \/ \E t \in Leaves \cup {None} : ForceBack(t)
             \/ Cancel
             \/ \E b \in Leaves : CreateTask(b) \/ ResolveStage(b)
             \/ UNCHANGED vars
      PROVE  WriteInv'
  <2>1. UNCHANGED <<gpc, act, committed, row, overlap, crossed, status, main, stray>>
    BY <1>2 DEF HoldPause, HoldResume, StageResult, ForceForward, ForceBack, Cancel, CreateTask,
                ResolveStage, vars
  <2> QED
    BY <2>1, WriteKept
<1>3. CASE PauseReturns \/ ResumeReturns
  <2>1. Finished(Router) /\ UNCHANGED <<gpc, status, main, crossed, stray>> /\ Router # Main
    BY <1>3, ProcessAssumption DEF PauseReturns, ResumeReturns
  <2> QED
    BY <2>1, WriteOthersReturn
<1>4. CASE Closes
  <2>1. Finished(Main) /\ UNCHANGED <<gpc, status, crossed, stray>> /\ main' # "running"
    BY <1>4 DEF Closes
  <2> QED
    BY <2>1, WriteOthersReturn
<1>5. ASSUME NEW g \in Gateways, GatewayNext(g) PROVE WriteInv'
  <2>1. ASSUME NEW b \in Leaves \cup Inner, Settle(g, b) PROVE WriteInv'
    BY <2>1, WriteJoins DEF Settle, Joining
  <2>2. CASE Redirected(g)
    <3>1. stray => stray'
      BY <2>2 DEF Redirected
    <3> QED
      BY <2>2, <3>1, WriteJoins DEF Redirected
  <2>3. CASE TakeShared(g) \/ TakeOwn(g)
    BY <2>3, WriteTakeAdmin DEF TakeShared, TakeOwn, Joining
  <2>4. CASE ParkTakes(g)
    <3>1. /\ UNCHANGED <<act, committed, row, overlap, crossed, status, main, stray>>
          /\ gpc[g] = "parked"
          /\ UNCHANGED gpc \/ gpc' = [gpc EXCEPT ![g] = "parkRedirect"]
      BY <2>4 DEF ParkTakes
    <3>2. WriteOf("parked") = None /\ WriteOf("parkRedirect") = None
      BY DEF WriteOf
    <3> QED
      BY <3>1, <3>2, WriteKept
  <2>5. CASE ParkRedirected(g)
    BY <2>5, WriteWaits DEF ParkRedirected, LastParkWritesRunning
  <2>6. ASSUME NEW b \in Leaves, ParkSettle(g, b) PROVE WriteInv'
    BY <2>6, WriteWaits DEF ParkSettle, LastParkWritesRunning
  <2> QED
    BY <1>5, <2>1, <2>2, <2>3, <2>4, <2>5, <2>6, WriteActivities DEF GatewayNext
<1> QED
  BY <1>1, <1>2, <1>3, <1>4, <1>5, WriteCommitted DEF Next, Signals

\* In every plan, while no two status writes were ever in flight at once and
\* no gateway was ended from outside, the stored status is the interpreter's
\* whenever no write is in flight.
THEOREM StoredStatusFollowsHolds == Spec => []StoredStatusFollows
<1>1. Init => DegradedInv /\ ParkListInv /\ MailInv
  BY GatewayAssumption DEF Init, DegradedInv, KeepsOnlyParked, DegradedWhileParked, ParkListInv,
                           ParksDistinct, ParkedInPark, Parked, MailInv, NoTerminate
<1> DEFINE Inv == /\ TypeInv /\ PauseFollowsStatus /\ LastParkWritesRunning
                  /\ LiveWhileRunning /\ JoinInv
                  /\ DegradedInv /\ ParkListInv /\ MailInv /\ WriteInv
<1>2. Inv /\ [Next]_vars => Inv'
  BY TypeNext, PauseNext, ParksNext, LiveNext, JoinNext, DegradedNext, ParkListNext, MailNext, WriteNext
<1>3. Init => Inv
  BY <1>1, TypeInit, JoinInit, WriteInit DEF Init, PauseFollowsStatus, LastParkWritesRunning
<1>4. Inv => StoredStatusFollows
  BY WriteImplies
<1> QED
  BY <1>2, <1>3, <1>4, PTL DEF Spec

-----------------------------------------------------------------------------
(***************************************************************************)
(* Held results, with one gateway.  A failed branch has no result held for *)
(* it, so one started again has none either; and while the gateway is in   *)
(* its park no branch has both an open task and a result held for it.      *)
(***************************************************************************)
BranchState ==
    /\ ~stray /\ severed = {}
    /\ failed[Outer] \subseteq resolved
    /\ gpc[Outer] = "redirect" => aim[Outer] \notin resolved
    /\ \A b \in Leaves : leaf[b] # "abandoned" /\ (b \in failed[Outer] => leaf[b] = "failed")
    /\ respawn[Outer] # {} => status \notin {"RUNNING", "PAUSED"}
    /\ status = "DEGRADED" => Leaves \subseteq resolved

HeldOK(b) ==
    held[b] # None => /\ leaf[b] \notin {"starting", "failed"}
                      /\ leaf[b] = "waiting" => b \notin resolved /\ inbox[b] = None

HeldInv == BranchState /\ \A b \in Leaves : HeldOK(b)

\* A gateway's step that changes no leaf and nothing resolved, failed or
\* started again.
LEMMA HeldKept ==
    ASSUME HeldInv, UNCHANGED <<severed, failed, resolved, respawn, leaf, held, inbox, stray>>,
           gpc'[Outer] = "redirect" => aim'[Outer] \notin resolved,
           \/ status' \in {status, "COMPLETED", "TERMINATED"}
           \/ status' \in {"RUNNING", "PAUSED"} /\ respawn[Outer] = {}
    PROVE  HeldInv'
BY DEF HeldInv, BranchState, HeldOK

LEMMA OneHome ==
    ASSUME OneGateway
    PROVE  /\ Inner = {} /\ Outer \in Gateways /\ Branches(Outer) = Leaves
           /\ \A b \in Leaves : Home[b] = Outer
BY GatewayAssumption DEF OneGateway, Inner, Branches

LEMMA HeldJoins ==
    ASSUME OneGateway, TypeOK, JoinInv, BranchState, main = "running", LiveWhileRunning,
           gpc[Outer] \in {"joining", "redirect"}, NEW res, NEW lost, Joins(Outer, res, lost),
           UNCHANGED <<severed, respawn, stray>>, resolved \cup lost \subseteq res,
           \A b \in Leaves : leaf'[b] # "abandoned" /\ (b \in lost => leaf'[b] = "failed")
    PROVE  BranchState'
<1>1. resolved' = res /\ failed'[Outer] = lost /\ respawn'[Outer] = {}
  BY OneHome DEF Joins, TypeOK, JoinInv, JoinAt
<1>2. gpc'[Outer] # "redirect"
  BY OneHome DEF Joins, Returns, Completes, OpenPark, TypeOK
<1>3. status' = "DEGRADED" => Leaves \subseteq res
  <2>1. CASE UNCHANGED status
    BY <2>1 DEF BranchState
  <2>2. CASE Branches(Outer) \subseteq res
    BY <2>2, OneHome
  <2> QED
    BY <2>1, <2>2 DEF Joins
<1> QED
  BY <1>1, <1>2, <1>3 DEF BranchState

LEMMA HeldSettle ==
    ASSUME OneGateway, TypeInv, JoinInv, LiveWhileRunning, HeldInv, NEW b \in Leaves \cup Inner,
           Settle(Outer, b)
    PROVE  HeldInv'
<1>1. /\ main = "running" /\ gpc[Outer] = "joining" /\ Settled(b)
      /\ Joins(Outer, resolved \cup {b}, failed[Outer] \cup Lost(b))
      /\ UNCHANGED <<severed, respawn, stray, leaf, held, inbox>>
  BY DEF Settle, Joining
<1>2. b \in Leaves /\ leaf[b] \in {"ok", "failed"} /\ Lost(b) \subseteq {b}
      /\ (b \in Lost(b) => leaf[b] = "failed")
  BY <1>1, OneHome DEF Settled, Lost
<1>3. BranchState'
  <2>1. resolved \cup (failed[Outer] \cup Lost(b)) \subseteq resolved \cup {b}
    BY <1>2 DEF HeldInv, BranchState
  <2>2. \A c \in Leaves : /\ leaf'[c] # "abandoned"
                          /\ (c \in failed[Outer] \cup Lost(b)) => leaf'[c] = "failed"
    BY <1>1, <1>2 DEF HeldInv, BranchState
  <2> QED
    BY <1>1, <2>1, <2>2, HeldJoins DEF HeldInv, TypeInv
<1>4. resolved' = resolved \cup {b}
  BY <1>1 DEF Joins
<1>5. \A c \in Leaves : HeldOK(c)'
  BY <1>1, <1>2, <1>4 DEF HeldInv, HeldOK
<1> QED
  BY <1>3, <1>5 DEF HeldInv

LEMMA HeldRedirected ==
    ASSUME OneGateway, TypeInv, JoinInv, LiveWhileRunning, HeldInv, Redirected(Outer)
    PROVE  HeldInv'
<1> DEFINE b == aim[Outer]
<1>1. /\ main = "running" /\ gpc[Outer] = "redirect" /\ Sever(b)
      /\ Joins(Outer, resolved \cup {b}, failed[Outer])
      /\ stray' = (stray \/ b \in Inner)
      /\ UNCHANGED <<respawn, held>>
  BY DEF Redirected
<1>2. b \in Leaves /\ b \notin resolved /\ b \notin Inner
  BY <1>1, OneHome DEF JoinInv, JoinAt, HeldInv, BranchState
<1> HIDE DEF b
<1>3. /\ leaf'[b] = "bypassed" /\ severed' = severed
      /\ \A c \in Leaves \ {b} : leaf'[c] = leaf[c] /\ inbox'[c] = inbox[c]
  BY <1>1, <1>2 DEF Sever
<1>4. BranchState'
  <2>1. resolved \cup failed[Outer] \subseteq resolved \cup {b}
    BY DEF HeldInv, BranchState
  <2>2. ASSUME NEW c \in Leaves
        PROVE  leaf'[c] # "abandoned" /\ (c \in failed[Outer] => leaf'[c] = "failed")
    <3>1. b \notin failed[Outer]
      BY <1>2 DEF HeldInv, BranchState
    <3> QED
      BY <1>3, <3>1 DEF HeldInv, BranchState
  <2>3. UNCHANGED stray
    BY <1>1, <1>2 DEF TypeInv, TypeOK
  <2> QED
    BY <1>1, <1>3, <2>1, <2>2, <2>3, HeldJoins DEF HeldInv, TypeInv
<1>5. resolved' = resolved \cup {b}
  BY <1>1 DEF Joins
<1>6. \A c \in Leaves : HeldOK(c)'
  BY <1>1, <1>3, <1>5 DEF HeldInv, HeldOK
<1> QED
  BY <1>4, <1>6 DEF HeldInv

\* The end of an iteration of the park's loop.
LEMMA HeldWaits ==
    ASSUME OneGateway, TypeInv, HeldInv, AliveOK, main = "running", gpc[Outer] \in InPark,
           NEW lost, NEW again, Waits(Outer, lost, again),
           UNCHANGED <<severed, resolved, stray, held, inbox>>,
           lost \subseteq resolved,
           \A b \in Leaves : /\ leaf'[b] # "abandoned" /\ (b \in lost => leaf'[b] = "failed")
                             /\ leaf'[b] = leaf[b] \/ leaf'[b] = "bypassed"
    PROVE  HeldInv'
<1>1. failed'[Outer] = lost /\ respawn'[Outer] = again
  BY OneHome DEF Waits, TypeInv, TypeOK
<1>2. gpc'[Outer] # "redirect"
  BY OneHome DEF Waits, TypeInv, TypeOK
<1>3. status = "DEGRADED"
  BY DEF AliveOK, InPark
<1>4. again # {} => UNCHANGED status
  BY DEF Waits
<1>5. status' \in {"DEGRADED", "PAUSED"}
  BY <1>3 DEF Waits
<1>6. BranchState'
  BY <1>1, <1>2, <1>3, <1>4, <1>5 DEF HeldInv, BranchState
<1>7. \A b \in Leaves : HeldOK(b)'
  BY DEF HeldInv, HeldOK
<1> QED
  BY <1>6, <1>7 DEF HeldInv

LEMMA HeldParkRedirected ==
    ASSUME OneGateway, TypeInv, HeldInv, AliveOK, ParkRedirected(Outer)
    PROVE  HeldInv'
<1>1. /\ main = "running" /\ gpc[Outer] \in InPark
      /\ leaf' = [leaf EXCEPT ![aim[Outer]] = "bypassed"]
      /\ Waits(Outer, failed[Outer] \ {aim[Outer]}, respawn[Outer])
      /\ UNCHANGED <<severed, resolved, stray, held, inbox>>
  BY DEF ParkRedirected, InPark
<1>2. \A b \in Leaves : leaf'[b] = IF b = aim[Outer] THEN "bypassed" ELSE leaf[b]
  BY <1>1 DEF TypeInv, TypeOK
<1>3. \A b \in Leaves : /\ leaf'[b] # "abandoned"
                        /\ (b \in failed[Outer] \ {aim[Outer]}) => leaf'[b] = "failed"
                        /\ leaf'[b] = leaf[b] \/ leaf'[b] = "bypassed"
  BY <1>2 DEF HeldInv, BranchState
<1>4. failed[Outer] \ {aim[Outer]} \subseteq resolved
  BY DEF HeldInv, BranchState
<1> QED
  BY <1>1, <1>3, <1>4, HeldWaits

LEMMA HeldParkSettle ==
    ASSUME OneGateway, TypeInv, JoinInv, HeldInv, AliveOK, NEW b \in Leaves, ParkSettle(Outer, b)
    PROVE  HeldInv'
<1>1. /\ main = "running" /\ gpc[Outer] \in InPark
      /\ leaf[b] \in {"ok", "failed", "abandoned"}
      /\ Waits(Outer, failed[Outer] \cup Lost(b), respawn[Outer] \ {b})
      /\ UNCHANGED <<severed, resolved, stray, held, inbox, leaf>>
  BY DEF ParkSettle, InPark
<1>2. b \in resolved
  BY <1>1, OneHome DEF JoinInv, JoinAt
<1>3. \A c \in Leaves : /\ leaf'[c] # "abandoned"
                        /\ (c \in failed[Outer] \cup Lost(b)) => leaf'[c] = "failed"
                        /\ leaf'[c] = leaf[c] \/ leaf'[c] = "bypassed"
  BY <1>1 DEF HeldInv, BranchState, Lost
<1>4. failed[Outer] \cup Lost(b) \subseteq resolved
  BY <1>2 DEF HeldInv, BranchState, Lost
<1> QED
  BY <1>1, <1>3, <1>4, HeldWaits

LEMMA HeldParkTakes ==
    ASSUME OneGateway, TypeInv, HeldInv, AliveOK, ParkTakes(Outer)
    PROVE  HeldInv'
<1>1. /\ main = "running" /\ gpc[Outer] = "parked"
      /\ UNCHANGED <<severed, resolved, stray, held, inbox, status>>
  BY DEF ParkTakes
<1>2. PICK hit \in FailedBranchFor(Outer, Head(mail[Outer]).at) :
        \/ gpc' = [gpc EXCEPT ![Outer] = "parkRedirect"] /\ UNCHANGED <<leaf, failed, respawn>>
        \/ /\ failed' = [failed EXCEPT ![Outer] = @ \ hit]
           /\ respawn' = [respawn EXCEPT ![Outer] = @ \cup hit]
           /\ leaf' = [b \in Leaves |-> IF b \in hit THEN "starting" ELSE leaf[b]]
           /\ UNCHANGED gpc
        \/ UNCHANGED <<gpc, leaf, failed, respawn>>
  BY DEF ParkTakes
<1>3. hit \subseteq failed[Outer]
  BY FailedHit
<1>4. CASE gpc' = [gpc EXCEPT ![Outer] = "parkRedirect"] /\ UNCHANGED <<leaf, failed, respawn>>
  <2>1. gpc'[Outer] # "redirect"
    BY <1>4, OneHome DEF TypeInv, TypeOK
  <2> QED
    BY <1>1, <1>4, <2>1, HeldKept
<1>5. CASE /\ failed' = [failed EXCEPT ![Outer] = @ \ hit]
           /\ respawn' = [respawn EXCEPT ![Outer] = @ \cup hit]
           /\ leaf' = [b \in Leaves |-> IF b \in hit THEN "starting" ELSE leaf[b]]
           /\ UNCHANGED gpc
  <2>1. failed'[Outer] = failed[Outer] \ hit
    BY <1>5, OneHome DEF TypeInv, TypeOK
  <2>2. status = "DEGRADED"
    BY <1>1 DEF AliveOK, InPark
  <2>3. \A b \in hit : b \in Leaves => held[b] = None
    BY <1>3 DEF HeldInv, BranchState, HeldOK
  <2>4. BranchState'
    BY <1>1, <1>5, <2>1, <2>2 DEF HeldInv, BranchState
  <2>5. \A b \in Leaves : HeldOK(b)'
    BY <1>1, <1>5, <2>3 DEF HeldInv, HeldOK
  <2> QED
    BY <2>4, <2>5 DEF HeldInv
<1>6. CASE UNCHANGED <<gpc, leaf, failed, respawn>>
  BY <1>1, <1>6, HeldKept
<1> QED
  BY <1>2, <1>4, <1>5, <1>6

LEMMA HeldGateway ==
    ASSUME OneGateway, TypeInv, JoinInv, LiveWhileRunning, AliveOK, HeldInv, GatewayNext(Outer)
    PROVE  HeldInv'
<1>1. ASSUME NEW s, gpc' = [gpc EXCEPT ![Outer] = s] PROVE gpc'[Outer] = s
  BY <1>1, OneHome DEF TypeInv, TypeOK
<1>2. CASE TakeShared(Outer) \/ TakeOwn(Outer)
  <2>1. PICK m : TakeAdmin(Outer, m)
    BY <1>2 DEF TakeShared, TakeOwn
  <2>2. /\ gpc[Outer] = "joining"
        /\ UNCHANGED <<severed, failed, resolved, respawn, leaf, held, inbox, status>>
    BY <1>2 DEF TakeShared, TakeOwn, Joining
  <2>3. Outer \notin severed
    BY DEF HeldInv, BranchState
  <2>4. UNCHANGED stray
    BY <2>1, <2>3 DEF TakeAdmin
  <2>5. gpc'[Outer] = "redirect" => aim'[Outer] \notin resolved
    <3>1. CASE gpc' = [gpc EXCEPT ![Outer] = "cancelling"] \/ UNCHANGED gpc
      BY <1>1, <2>2, <3>1
    <3>2. CASE \E b \in BranchRunning(Outer, m.at) : aim' = [aim EXCEPT ![Outer] = b]
      <4>1. PICK b \in BranchRunning(Outer, m.at) : aim' = [aim EXCEPT ![Outer] = b]
        BY <3>2
      <4>2. aim'[Outer] = b /\ b \notin resolved
        BY <4>1, OneHome DEF BranchRunning, TypeInv, TypeOK
      <4> QED
        BY <4>2
    <3> QED
      BY <2>1, <2>3, <3>1, <3>2 DEF TakeAdmin
  <2> QED
    BY <2>2, <2>4, <2>5, HeldKept
<1>3. CASE CancelReturns(Outer) \/ ParkTerminate(Outer)
  <2>1. /\ UNCHANGED <<severed, failed, resolved, respawn, leaf, held, inbox>>
        /\ gpc' = [gpc EXCEPT ![Outer] = "done"] /\ status' = "TERMINATED"
    BY <1>3 DEF CancelReturns, ParkTerminate, ReturnsTerminated
  <2>2. stray' = (stray \/ Outer # Outer)
    BY <1>3 DEF CancelReturns, ParkTerminate, ReturnsTerminated
  <2>3. UNCHANGED stray
    BY <2>2 DEF TypeInv, TypeOK
  <2> QED
    BY <1>1, <2>1, <2>3, HeldKept
<1>4. CASE DegradedReturns(Outer) \/ ParkCancel(Outer)
  <2>1. /\ UNCHANGED <<severed, failed, resolved, respawn, leaf, held, inbox, status, stray>>
        /\ \E s \in {"parked", "cancelling"} : gpc' = [gpc EXCEPT ![Outer] = s]
    BY <1>4 DEF DegradedReturns, ParkCancel
  <2> QED
    BY <1>1, <2>1, HeldKept
<1>5. CASE ParkClosedReturns(Outer)
  <2>1. /\ UNCHANGED <<severed, failed, resolved, respawn, leaf, held, inbox, stray>>
        /\ gpc' = [gpc EXCEPT ![Outer] = "done"] /\ status' = "COMPLETED"
    BY <1>5 DEF ParkClosedReturns, Returns, Completes
  <2> QED
    BY <1>1, <2>1, HeldKept
<1>6. CASE RunningReturns(Outer)
  <2>1. /\ UNCHANGED <<severed, failed, resolved, respawn, leaf, held, inbox, stray>>
        /\ \E s \in {"done", "leavePaused"} : gpc' = [gpc EXCEPT ![Outer] = s]
        /\ status' \in {"COMPLETED", "PAUSED"}
    BY <1>6 DEF RunningReturns, Returns, Completes
  <2>2. respawn[Outer] = {}
    BY <1>6, OneHome DEF RunningReturns, JoinInv, JoinAt, Leaving, Clean
  <2> QED
    BY <1>1, <2>1, <2>2, HeldKept
<1>7. CASE SeveredReturns(Outer)
  BY <1>7 DEF SeveredReturns, HeldInv, BranchState
<1> QED
  BY <1>2, <1>3, <1>4, <1>5, <1>6, <1>7, HeldSettle, HeldRedirected, HeldParkRedirected, HeldParkSettle,
     HeldParkTakes DEF GatewayNext

LEMMA HeldNext ==
    ASSUME OneGateway, TypeInv, JoinInv, LiveWhileRunning, AliveOK, HeldInv, [Next]_vars
    PROVE  HeldInv'
<1>1. ASSUME NEW i \in Initiators, InstancePause(i) \/ InstanceResume(i) PROVE HeldInv'
  <2>1. /\ UNCHANGED <<severed, failed, resolved, respawn, leaf, held, inbox, stray, gpc, aim>>
        /\ status \in {"RUNNING", "PAUSED"} /\ status' \in {"RUNNING", "PAUSED"}
    BY <1>1 DEF InstancePause, InstanceResume
  <2>2. respawn[Outer] = {} /\ (gpc[Outer] = "redirect" => aim[Outer] \notin resolved)
    BY <2>1 DEF HeldInv, BranchState
  <2> QED
    BY <2>1, <2>2, HeldKept
<1>2. ASSUME \/ \E i \in Initiators : HoldPause(i) \/ HoldResume(i)
             \/ \E t \in Leaves : ForceForward(t)
             \/ \E t \in Leaves \cup {None} : ForceBack(t)
             \/ Cancel
             \/ PauseReturns \/ Closes
             \/ \E p \in Processes : CommitWrite(p)
             \/ UNCHANGED vars
      PROVE  HeldInv'
  <2>1. UNCHANGED <<severed, failed, resolved, respawn, leaf, held, inbox, stray, gpc, aim, status>>
    BY <1>2 DEF HoldPause, HoldResume, ForceForward, ForceBack, Cancel, PauseReturns, Closes,
                CommitWrite, vars
  <2>2. gpc[Outer] = "redirect" => aim[Outer] \notin resolved
    BY DEF HeldInv, BranchState
  <2> QED
    BY <2>1, <2>2, HeldKept
<1>3. CASE ResumeReturns
  <2>1. UNCHANGED <<severed, failed, resolved, respawn, leaf, stray, gpc, aim, status>>
        /\ ReleaseHeldResults
    BY <1>3 DEF ResumeReturns
  <2>2. BranchState'
    BY <2>1 DEF HeldInv, BranchState
  <2>3. ASSUME NEW b \in Leaves PROVE HeldOK(b)'
    <3>1. CASE status = "PAUSED"
      <4>1. held'[b] = held[b] /\ inbox'[b] = inbox[b]
        BY <2>1, <2>3, <3>1 DEF ReleaseHeldResults
      <4> QED
        BY <2>1, <2>3, <4>1 DEF HeldInv, HeldOK
    <3>2. CASE status # "PAUSED"
      BY <2>1, <2>3, <3>2 DEF ReleaseHeldResults, HeldOK
    <3> QED
      BY <3>1, <3>2
  <2> QED
    BY <2>2, <2>3 DEF HeldInv
<1>4. ASSUME NEW b \in Leaves, NEW r \in Results, StageResult(b, r) PROVE HeldInv'
  <2>1. /\ UNCHANGED <<severed, failed, resolved, respawn, leaf, stray, gpc, aim, status>>
        /\ leaf[b] = "waiting" /\ inbox[b] = None /\ held[b] = None
    BY <1>4 DEF StageResult
  <2>2. BranchState'
    BY <2>1 DEF HeldInv, BranchState
  <2>3. ASSUME NEW c \in Leaves PROVE HeldOK(c)'
    <3>1. CASE status = "PAUSED" /\ held' = [held EXCEPT ![b] = r] /\ UNCHANGED inbox
      <4>1. CASE c = b
        <5>1. respawn[Outer] = {} /\ b \notin failed[Outer] /\ ~stray
          BY <2>1, <3>1 DEF HeldInv, BranchState
        <5>2. b \notin resolved
          BY <2>1, <5>1, OneHome DEF JoinInv, Joined, LeafJoined
        <5> QED
          BY <2>1, <3>1, <4>1, <5>2 DEF HeldOK
      <4>2. CASE c # b
        <5>1. held'[c] = held[c]
          BY <3>1, <4>2 DEF TypeInv, TypeOK
        <5> QED
          BY <2>1, <2>3, <3>1, <5>1 DEF HeldInv, HeldOK
      <4> QED
        BY <4>1, <4>2
    <3>2. CASE inbox' = [inbox EXCEPT ![b] = r] /\ UNCHANGED held
      <4>1. c # b => inbox'[c] = inbox[c]
        BY <3>2 DEF TypeInv, TypeOK
      <4> QED
        BY <2>1, <2>3, <3>2, <4>1 DEF HeldInv, HeldOK
    <3> QED
      BY <1>4, <3>1, <3>2 DEF StageResult
  <2> QED
    BY <2>2, <2>3 DEF HeldInv
<1>5. ASSUME NEW b \in Leaves, CreateTask(b) \/ ResolveStage(b) PROVE HeldInv'
  <2>1. UNCHANGED <<severed, failed, resolved, respawn, held, stray, gpc, aim, status>>
    BY <1>5 DEF CreateTask, ResolveStage
  <2>2. held[b] = None /\ b \notin failed[Outer]
    BY <1>5 DEF CreateTask, ResolveStage, HeldInv, BranchState, HeldOK
  <2>3. /\ leaf'[b] # "abandoned"
        /\ \A c \in Leaves \ {b} : leaf'[c] = leaf[c] /\ inbox'[c] = inbox[c]
    BY <1>5 DEF CreateTask, ResolveStage, TypeInv, TypeOK
  <2>4. BranchState'
    BY <2>1, <2>2, <2>3 DEF HeldInv, BranchState
  <2>5. \A c \in Leaves : HeldOK(c)'
    BY <2>1, <2>2, <2>3 DEF HeldInv, HeldOK
  <2> QED
    BY <2>4, <2>5 DEF HeldInv
<1> QED
  BY <1>1, <1>2, <1>3, <1>4, <1>5, HeldGateway DEF Next, Signals, OneGateway

LEMMA HeldPauseNext ==
    ASSUME OneGateway, TypeInv, PauseFollowsStatus, AliveOK, HeldInv, HeldResultsHaveAPause, [Next]_vars
    PROVE  HeldResultsHaveAPause'
<1> DEFINE waits(b) == held[b] # None /\ leaf[b] = "waiting"
<1>0. Router \in Processes /\ Router # Outer /\ Router # Main /\ "RUNNING" # None /\ Outer \in Gateways
  BY GatewayAssumption, ProcessAssumption, NoneAssumption DEF Processes
<1>1. ASSUME main' = "running" => main = "running",
             \A b \in Leaves : waits(b)' => waits(b), UNCHANGED pauseHeld,
             act[Router] = "RUNNING" => act'[Router] = "RUNNING"
      PROVE  HeldResultsHaveAPause'
  BY <1>1 DEF HeldResultsHaveAPause
<1>2. ASSUME NEW i \in Initiators, HoldPause(i) \/ InstancePause(i) PROVE HeldResultsHaveAPause'
  BY <1>2 DEF HoldPause, InstancePause, HeldResultsHaveAPause
<1>3. ASSUME NEW i \in Initiators, InstanceResume(i) PROVE HeldResultsHaveAPause'
  <2>1. act'[Router] = "RUNNING"
    BY <1>0, <1>3 DEF InstanceResume, Schedule, TypeInv, TypeOK
  <2> QED
    BY <2>1 DEF HeldResultsHaveAPause
<1>4. ASSUME NEW i \in Initiators, HoldResume(i) PROVE HeldResultsHaveAPause'
  <2>1. UNCHANGED <<held, leaf>> /\ Leaves \subseteq resolved
    BY <1>4 DEF HoldResume, HoldsPauseDuringPark, HeldInv, BranchState
  <2>2. \A b \in Leaves : ~(held'[b] # None /\ leaf'[b] = "waiting")
    BY <2>1 DEF HeldInv, HeldOK
  <2> QED
    BY <2>2 DEF HeldResultsHaveAPause
<1>5. ASSUME NEW b \in Leaves, NEW r \in Results, StageResult(b, r) PROVE HeldResultsHaveAPause'
  <2>1. CASE status = "PAUSED"
    BY <1>5, <2>1 DEF StageResult, PauseFollowsStatus, HeldResultsHaveAPause
  <2>2. CASE UNCHANGED held
    BY <1>1, <1>5, <2>2 DEF StageResult
  <2> QED
    BY <1>5, <2>1, <2>2 DEF StageResult
<1>6. CASE PauseReturns
  <2>1. act[Router] # "RUNNING" /\ UNCHANGED <<held, leaf, pauseHeld, main>>
    BY <1>6 DEF PauseReturns
  <2> QED
    BY <1>1, <2>1
<1>7. CASE ResumeReturns
  <2>1. ReleaseHeldResults /\ UNCHANGED <<status, pauseHeld>>
    BY <1>7 DEF ResumeReturns
  <2>2. CASE status = "PAUSED"
    BY <2>1, <2>2 DEF PauseFollowsStatus, HeldResultsHaveAPause
  <2>3. CASE status # "PAUSED"
    BY <2>1, <2>3 DEF ReleaseHeldResults, HeldResultsHaveAPause
  <2> QED
    BY <2>2, <2>3
<1>8. ASSUME NEW b \in Leaves, CreateTask(b) \/ ResolveStage(b) PROVE HeldResultsHaveAPause'
  <2>1. UNCHANGED <<held, pauseHeld, main, act>>
    BY <1>8 DEF CreateTask, ResolveStage
  <2>2. held[b] = None
    BY <1>8 DEF CreateTask, ResolveStage, HeldInv, HeldOK
  <2>3. \A c \in Leaves \ {b} : leaf'[c] = leaf[c]
    BY <1>8 DEF CreateTask, ResolveStage, TypeInv, TypeOK
  <2> QED
    BY <1>1, <2>1, <2>2, <2>3
<1>9. ASSUME \/ \E t \in Leaves : ForceForward(t)
             \/ \E t \in Leaves \cup {None} : ForceBack(t)
             \/ Cancel
             \/ \E p \in Processes : CommitWrite(p)
             \/ UNCHANGED vars
      PROVE  HeldResultsHaveAPause'
  <2>1. UNCHANGED <<held, leaf, pauseHeld, main, act>>
    BY <1>9 DEF ForceForward, ForceBack, Cancel, CommitWrite, vars
  <2> QED
    BY <1>1, <2>1
<1>10. CASE Closes
  BY <1>10 DEF Closes, HeldResultsHaveAPause
<1>11. CASE GatewayNext(Outer)
  <2>1. ASSUME main' = "running", UNCHANGED main,
               \A b \in Leaves : leaf'[b] = "waiting" => leaf[b] = "waiting",
               UNCHANGED <<held, pauseHeld>>, act'[Router] = act[Router]
        PROVE  HeldResultsHaveAPause'
    BY <1>1, <2>1
  <2>2. ASSUME main' # "running" PROVE HeldResultsHaveAPause'
    BY <2>2 DEF HeldResultsHaveAPause
  <2>3. ASSUME NEW s, Schedule(Outer, s) PROVE act'[Router] = act[Router]
    BY <1>0, <2>3 DEF Schedule, TypeInv, TypeOK
  <2>4. ASSUME NEW res, NEW lost, Joins(Outer, res, lost), main = "running", UNCHANGED <<held, pauseHeld>>,
               \A b \in Leaves : leaf'[b] = "waiting" => leaf[b] = "waiting"
        PROVE  HeldResultsHaveAPause'
    <3>1. CASE UNCHANGED <<act, main>>
      BY <2>1, <2>4, <3>1
    <3>2. CASE Returns(Outer, status)
      BY <2>2, <3>2 DEF Returns, Completes
    <3>3. CASE OpenPark(Outer, lost)
      BY <2>1, <2>3, <2>4, <3>3 DEF OpenPark
    <3> QED
      BY <2>4, <3>1, <3>2, <3>3 DEF Joins
  <2>5. ASSUME NEW lost, NEW again, Waits(Outer, lost, again), main = "running", UNCHANGED main
        PROVE  act'[Router] = act[Router]
    BY <2>3, <2>5 DEF Waits
  <2>6. ASSUME NEW b \in Leaves \cup Inner, Settle(Outer, b) PROVE HeldResultsHaveAPause'
    BY <2>4, <2>6 DEF Settle, Joining
  <2>7. CASE Redirected(Outer)
    <3>1. \A b \in Leaves : leaf'[b] = "waiting" => leaf[b] = "waiting"
      BY <2>7 DEF Redirected, Sever
    <3> QED
      BY <2>4, <2>7, <3>1 DEF Redirected
  <2>8. CASE CancelReturns(Outer) \/ ParkTerminate(Outer)
    BY <2>2, <2>8 DEF CancelReturns, ParkTerminate, ReturnsTerminated
  <2>9. CASE ParkRedirected(Outer)
    <3>1. \A b \in Leaves : leaf'[b] = "waiting" => leaf[b] = "waiting"
      BY <2>9 DEF ParkRedirected, TypeInv, TypeOK
    <3> QED
      BY <2>1, <2>5, <2>9, <3>1 DEF ParkRedirected
  <2>10. ASSUME NEW b \in Leaves, ParkSettle(Outer, b) PROVE HeldResultsHaveAPause'
    BY <2>1, <2>5, <2>10 DEF ParkSettle
  <2>11. CASE ParkTakes(Outer)
    <3>1. \A b \in Leaves : leaf'[b] = "waiting" => leaf[b] = "waiting"
      BY <2>11 DEF ParkTakes
    <3> QED
      BY <2>1, <2>11, <3>1 DEF ParkTakes
  <2>12. CASE ParkCancel(Outer)
    BY <2>1, <2>3, <2>12 DEF ParkCancel
  <2>13. CASE DegradedReturns(Outer)
    <3>1. act'[Router] = act[Router]
      BY <1>0, <2>13 DEF DegradedReturns, Finished, TypeInv, TypeOK
    <3> QED
      BY <2>1, <2>13, <3>1 DEF DegradedReturns
  <2>14. CASE ParkClosedReturns(Outer)
    BY <2>2, <2>14 DEF ParkClosedReturns, Returns, Completes
  <2>15. CASE RunningReturns(Outer)
    <3>1. CASE FinishedThen(Outer, "PAUSED") /\ UNCHANGED <<pauseHeld, main>>
      BY <2>1, <2>3, <2>15, <3>1 DEF RunningReturns, FinishedThen
    <3>2. CASE Returns(Outer, "RUNNING")
      BY <2>2, <3>2 DEF Returns, Completes
    <3> QED
      BY <2>15, <3>1, <3>2 DEF RunningReturns
  <2>16. CASE SeveredReturns(Outer)
    BY <2>16 DEF SeveredReturns, HeldInv, BranchState
  <2>17. CASE TakeShared(Outer) \/ TakeOwn(Outer)
    <3>1. act'[Router] = act[Router]
      BY <2>3, <2>17 DEF TakeShared, TakeOwn, TakeAdmin
    <3> QED
      BY <2>1, <2>17, <3>1 DEF TakeShared, TakeOwn, Joining
  <2> QED
    BY <1>11, <2>6, <2>7, <2>8, <2>9, <2>10, <2>11, <2>12, <2>13, <2>14, <2>15, <2>16, <2>17
       DEF GatewayNext
<1> QED
  BY <1>2, <1>3, <1>4, <1>5, <1>6, <1>7, <1>8, <1>9, <1>10, <1>11 DEF Next, Signals, OneGateway

\* With one gateway, a result that a task still waits for is held only while
\* the pause stands or is being lifted.
THEOREM HeldResultsHaveAPauseHolds == ASSUME OneGateway PROVE Spec => []HeldResultsHaveAPause
<1> DEFINE Inv == /\ TypeInv /\ PauseFollowsStatus /\ LiveWhileRunning /\ JoinInv
                  /\ AliveOK /\ HeldInv /\ HeldResultsHaveAPause
<1>1. Init => AliveOK /\ HeldInv /\ HeldResultsHaveAPause
  BY OneHome DEF Init, AliveOK, Live, InPark, HeldInv, BranchState, HeldOK, HeldResultsHaveAPause
<1>2. Init => PauseFollowsStatus
  BY DEF Init, PauseFollowsStatus
<1>3. Init => Inv
  BY <1>1, <1>2, TypeInit, JoinInit
<1>4. Inv /\ [Next]_vars => Inv'
  BY TypeNext, PauseNext, LiveNext, JoinNext, AliveNext, HeldNext, HeldPauseNext
<1> QED
  BY <1>3, <1>4, PTL DEF Spec
============================================================================
