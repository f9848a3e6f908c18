-------------------------- MODULE DelegationProofs --------------------------
(***************************************************************************)
(* Proofs about the events on a user's work, for any deliveries, tasks,    *)
(* scenarios and faults.  First, what a step does to the rows of a task    *)
(* (TableStep) and to a delivery (Sets); then, that the lock excludes      *)
(* (LockKeeps).  From these: no task loses its holder or its lead; while a *)
(* reversal settles, what it has settled agrees with the absence on record *)
(* (Reversing); once the newest availability is applied, every instance of *)
(* the delegator agrees with it and stays so (InForceStays); and what the  *)
(* end of a delegation has not read by then came late (EndedKept).         *)
(***************************************************************************)
EXTENDS Delegation, SequenceTheorems, TLAPS

(***************************************************************************)
(* Tables of assignments.                                                  *)
(***************************************************************************)
\* The rows in gone are vacated and those in new, one at most, are added.
Table(r, q, gone, new) ==
    /\ q \in Seq(Row) /\ DOMAIN r \subseteq DOMAIN q
    /\ \A l \in DOMAIN r : /\ q[l].user = r[l].user /\ q[l].tag = r[l].tag
                           /\ q[l].active <=> r[l].active /\ l \notin gone
    /\ \A l \in DOMAIN q \ DOMAIN r : q[l] \in new
    /\ \A l, m \in DOMAIN q \ DOMAIN r : l = m
    /\ new # {} => DOMAIN q \ DOMAIN r # {}

\* A table that is not written.
LEMMA SameTable == \A r \in Seq(Row) : Table(r, r, {}, {})
    BY DEF Table

\* Vacating a row changes its flag and nothing else.
LEMMA VacateTable ==
    ASSUME NEW r \in Seq(Row), NEW k \in DOMAIN r
    PROVE  Table(r, [r EXCEPT ![k].active = FALSE], {k}, {}) /\ DOMAIN [r EXCEPT ![k].active = FALSE] = DOMAIN r
 <1> DEFINE q == [r EXCEPT ![k].active = FALSE]
 <1>1. \A l \in DOMAIN r : r[l] \in Row
    OBVIOUS
 <1>2. Len(r) \in Nat /\ DOMAIN r = 1 .. Len(r) /\ DOMAIN q = DOMAIN r
    OBVIOUS
 <1>3. \A l \in DOMAIN r : q[l] = IF l = k THEN [r[l] EXCEPT !.active = FALSE] ELSE r[l]
    OBVIOUS
 <1> HIDE DEF q
 <1>4. \A l \in DOMAIN r : /\ q[l] \in Row
                           /\ q[l].user = r[l].user /\ q[l].tag = r[l].tag
                           /\ q[l].active <=> r[l].active /\ l # k
    BY <1>1, <1>3 DEF Row
 <1>5. q \in Seq(Row)
   <2>1. q = [l \in 1 .. Len(r) |-> q[l]]
      BY <1>2, <1>3 DEF q
   <2> QED
      BY <1>2, <1>4, <2>1
 <1>6. Table(r, q, {k}, {}) /\ DOMAIN q = DOMAIN r
    BY <1>2, <1>4, <1>5 DEF Table
 <1> QED
    BY <1>6 DEF q

\* Adding a row behind it leaves the others.
LEMMA AppendTable ==
    ASSUME NEW r \in Seq(Row), NEW q \in Seq(Row), NEW gone, Table(r, q, gone, {}), DOMAIN q = DOMAIN r, NEW n \in Row
    PROVE  Table(r, Append(q, n), gone, {n})
 <1> DEFINE a == Append(q, n)
            m == Len(q) + 1
 <1>1. Len(q) \in Nat /\ DOMAIN q = 1 .. Len(q)
    OBVIOUS
 <1>2. a \in Seq(Row) /\ DOMAIN a = 1 .. m /\ a[m] = n /\ \A l \in 1 .. Len(q) : a[l] = q[l]
    BY <1>1
 <1>3. \A l \in DOMAIN a \ DOMAIN r : l = m
    BY <1>1, <1>2
 <1>4. m \in DOMAIN a \ DOMAIN r /\ DOMAIN r \subseteq DOMAIN a
    BY <1>1, <1>2
 <1> HIDE DEF a, m
 <1>5. Table(r, a, gone, {n})
    BY <1>1, <1>2, <1>3, <1>4 DEF Table
 <1> QED
    BY <1>5 DEF a

\* A user holds one active row at most, also of the next table.
LEMMA OneRowTable ==
    ASSUME NEW r, NEW q, NEW gone, NEW new, Table(r, q, gone, new),
           \A k, l \in DOMAIN r : r[k].active /\ r[l].active /\ r[k].user = r[l].user => k = l,
           \A n \in new : \A l \in DOMAIN r : r[l].active => r[l].user # n.user
    PROVE  \A k, l \in DOMAIN q : q[k].active /\ q[l].active /\ q[k].user = q[l].user => k = l
 <1> SUFFICES ASSUME NEW k \in DOMAIN q, NEW l \in DOMAIN q, q[k].active, q[l].active, q[k].user = q[l].user PROVE k = l
    OBVIOUS
 <1>1. CASE k \in DOMAIN r /\ l \in DOMAIN r
    BY <1>1 DEF Table
 <1>2. CASE k \notin DOMAIN r /\ l \notin DOMAIN r
    BY <1>2 DEF Table
 <1>3. CASE k \in DOMAIN r /\ l \notin DOMAIN r
    BY <1>3 DEF Table
 <1>4. CASE k \notin DOMAIN r /\ l \in DOMAIN r
    BY <1>4 DEF Table
 <1> QED
    BY <1>1, <1>2, <1>3, <1>4

(***************************************************************************)
(* What a step does to the table of a task.                                *)
(***************************************************************************)
Read(x) == x.row \in DOMAIN rows[x.task]
OnePerTask(list) == \A x, y \in list : x.task = y.task => x = y
ListsRead ==
    /\ \A d \in Delivery : (\A x \in delivery[d].list : Read(x)) /\ OnePerTask(delivery[d].list)
    /\ \A x \in call.list : Read(x)
    /\ call.cur # None => Read(call.cur)

NewRow(d, x) == [user |-> NewAssignee(d), tag |-> about[d].kind = "started", active |-> TRUE]
Replacement(x) == [user |-> "other", tag |-> RowOf(x).tag, active |-> TRUE]

MovedBy(d, t) ==
    \E x \in delivery[d].list :
      /\ Commit(d) /\ x.task = t /\ ~Holds(NewAssignee(d), t)
      /\ Table(rows[t], rows'[t], {x.row}, {NewRow(d, x)})
Moved(t) == UNCHANGED call /\ \E d \in Delivery : MovedBy(d, t)
Emptied(t) ==
    /\ UNCHANGED call
    /\ \E u \in User :
         /\ Table(rows[t], rows'[t], {l \in DOMAIN rows[t] : rows[t][l].user = u}, {})
         /\ (\E l \in DOMAIN rows[t] : rows[t][l].active /\ rows[t][l].user = u) => t \in unheld'
Dropped(t) ==
    \E x \in call.list :
      /\ x.task = t /\ Table(rows[t], rows'[t], {x.row}, {})
      /\ t \in unheld' \/ (call.cur = None /\ call'.cur = x)
Added(t) ==
    /\ CallCreate /\ call.cur # None /\ call.cur.task = t /\ ~Holds("other", t)
    /\ Table(rows[t], rows'[t], {}, {Replacement(call.cur)})
Left(t) == rows'[t] = rows[t] /\ (call.cur # None /\ call.cur.task = t => call'.cur = call.cur \/ t \in unheld')
TableStep(t) == Moved(t) \/ Emptied(t) \/ Dropped(t) \/ Added(t) \/ Left(t)

\* The transaction of a reroute or a reversal (commitReassignments).
LEMMA CommitTables ==
    ASSUME TypeOK, ListsRead, NEW d \in Delivery, Commit(d)
    PROVE  /\ rows' \in [Task -> Seq(Row)] /\ UNCHANGED call
           /\ \A t \in Task : MovedBy(d, t) \/ rows'[t] = rows[t]
 <1>t. rows \in [Task -> Seq(Row)] /\ delivery[d].list \subseteq Entry
    BY DEF TypeOK, RowsOK, EventsOK, Deliveries
 <1>0. UNCHANGED call /\ rows' = Committed(d)
    BY DEF Commit
 <1>1. ASSUME NEW t \in Task, \E x \in delivery[d].list : x.task = t
       PROVE  rows'[t] \in Seq(Row) /\ MovedBy(d, t)
   <2> DEFINE x == CHOOSE y \in delivery[d].list : y.task = t
   <2>1. x \in delivery[d].list /\ x.task = t
      BY <1>1
   <2>2. rows'[t] = Append(Vacated(x), NewRow(d, x))
      BY <1>0, <1>1 DEF Committed, NewRow
   <2> HIDE DEF x
   <2>3. x \in Entry /\ x.row \in DOMAIN rows[t] /\ Vacated(x) = [rows[t] EXCEPT ![x.row].active = FALSE]
      BY <1>t, <2>1 DEF ListsRead, Read, Vacated
   <2>4. rows[t] \in Seq(Row)
      BY <1>t
   <2>5. Table(rows[t], Vacated(x), {x.row}, {}) /\ DOMAIN Vacated(x) = DOMAIN rows[t]
      BY <2>3, <2>4, VacateTable
   <2>6. NewRow(d, x) \in Row
      BY <2>3 DEF NewRow, Row, Entry, NewAssignee, User, Delegate, Delegator
   <2>7. Vacated(x) \in Seq(Row)
      BY <2>5 DEF Table
   <2>8. Table(rows[t], rows'[t], {x.row}, {NewRow(d, x)})
      BY <2>2, <2>4, <2>5, <2>6, <2>7, AppendTable
   <2>9. ~Holds(NewAssignee(d), t)
      BY <2>1 DEF Commit
   <2> QED
      BY <2>1, <2>8, <2>9 DEF MovedBy, Table
 <1>2. ASSUME NEW t \in Task, ~(\E x \in delivery[d].list : x.task = t)
       PROVE  rows'[t] = rows[t]
    BY <1>0, <1>2 DEF Committed
 <1>3. \A t \in Task : rows'[t] \in Seq(Row)
    BY <1>1, <1>2, <1>t
 <1>4. rows' = [t \in Task |-> rows'[t]]
    BY <1>0 DEF Committed
 <1> QED
    BY <1>0, <1>1, <1>2, <1>3, <1>4

\* Vacating all rows of a user.
LEMMA VacateTables ==
    ASSUME TypeOK, NEW d \in Delivery, VacateAssignments(d)
    PROVE  rows' \in [Task -> Seq(Row)] /\ \A t \in Task : Emptied(t)
 <1>t. rows \in [Task -> Seq(Row)] /\ about[d].user \in User
    BY DEF TypeOK, RowsOK, EventsOK, Content
 <1>0. /\ UNCHANGED call
       /\ unheld' = unheld \cup {x.task : x \in ActiveRows(about[d].user)}
       /\ rows' = [t \in Task |-> [k \in DOMAIN rows[t] |->
                     IF rows[t][k].user = about[d].user THEN [rows[t][k] EXCEPT !.active = FALSE]
                                                         ELSE rows[t][k]]]
    BY DEF VacateAssignments
 <1>1. ASSUME NEW t \in Task
       PROVE  rows'[t] \in Seq(Row) /\ Emptied(t)
   <2> DEFINE r == rows[t]
              u == about[d].user
              q == rows'[t]
   <2>1. r \in Seq(Row) /\ Len(r) \in Nat /\ DOMAIN r = 1 .. Len(r) /\ \A l \in DOMAIN r : r[l] \in Row
      BY <1>t
   <2>2. q = [k \in DOMAIN r |-> IF r[k].user = u THEN [r[k] EXCEPT !.active = FALSE] ELSE r[k]]
      BY <1>0
   <2> HIDE DEF r, q
   <2>3. \A l \in DOMAIN r : /\ q[l] \in Row
                             /\ q[l].user = r[l].user /\ q[l].tag = r[l].tag
                             /\ q[l].active <=> r[l].active /\ r[l].user # u
      BY <2>1, <2>2 DEF Row
   <2>4. q \in Seq(Row) /\ DOMAIN q = DOMAIN r
     <3>1. q = [l \in 1 .. Len(r) |-> q[l]]
        BY <2>1, <2>2
     <3> QED
        BY <2>1, <2>3, <3>1
   <2>5. Table(r, q, {l \in DOMAIN r : r[l].user = u}, {})
      BY <2>3, <2>4 DEF Table
   <2>6. ASSUME NEW l \in DOMAIN rows[t], rows[t][l].active, rows[t][l].user = u PROVE t \in unheld'
     <3> DEFINE x == [task |-> t, row |-> l]
     <3>1. x \in ActiveRows(u) /\ x.task = t
        BY <2>6 DEF ActiveRows
     <3> QED
        BY <1>0, <3>1
   <2> QED
      BY <1>0, <1>t, <2>4, <2>5, <2>6 DEF Emptied, r, q
 <1>2. rows' = [t \in Task |-> rows'[t]]
    BY <1>0
 <1> QED
    BY <1>1, <1>2

\* A row of a synchronous call is vacated, replaced or left.
LEMMA CallTables ==
    ASSUME TypeOK, ListsRead, CallReassign \/ CallCancel \/ CallCreate
    PROVE  rows' \in [Task -> Seq(Row)] /\ \A t \in Task : Dropped(t) \/ Added(t) \/ Left(t)
 <1>t. rows \in [Task -> Seq(Row)] /\ call.list \subseteq Entry /\ call.cur \in Entry \cup {None}
    BY DEF TypeOK, RowsOK, CallOK
 <1>k. call \in [kind : {"none", "reassign", "cancel", "pause"}, pc : {"idle", "rows", "done"},
              list : SUBSET Entry, cur : Entry \cup {None}]
    BY DEF TypeOK, CallOK
 <1>a. ASSUME UNCHANGED rows, call.cur # None => call'.cur = call.cur \/ call.cur.task \in unheld'
       PROVE  rows' \in [Task -> Seq(Row)] /\ \A t \in Task : Left(t)
    BY <1>a, <1>t DEF Left
 <1>b. ASSUME NEW x \in call.list, rows' = [rows EXCEPT ![x.task] = Vacated(x)],
              x.task \in unheld' \/ (call.cur = None /\ call'.cur = x), call.cur = None \/ call'.cur = call.cur
       PROVE  rows' \in [Task -> Seq(Row)] /\ \A t \in Task : Dropped(t) \/ Left(t)
   <2>1. x \in Entry /\ x.task \in Task /\ x.row \in DOMAIN rows[x.task]
      BY <1>b, <1>t DEF Entry, ListsRead, Read
   <2>2. rows[x.task] \in Seq(Row)
      BY <1>t, <2>1
   <2>3. Table(rows[x.task], Vacated(x), {x.row}, {})
      BY <2>1, <2>2, VacateTable DEF Vacated
   <2>4. Vacated(x) \in Seq(Row)
      BY <2>3 DEF Table
   <2>5. Dropped(x.task)
     <3>1. rows'[x.task] = Vacated(x)
        BY <1>b, <1>t, <2>1
     <3> QED
        BY <1>b, <2>3, <3>1 DEF Dropped
   <2>6. \A t \in Task \ {x.task} : Left(t)
      BY <1>b, <1>t, <2>1 DEF Left
   <2>7. rows' \in [Task -> Seq(Row)]
      BY <1>b, <1>t, <2>4
   <2> QED
      BY <2>5, <2>6, <2>7
 <1>1. CASE CallReassign
   <2>1. PICK x \in call.list :
            \/ /\ rows' = [rows EXCEPT ![x.task] = Vacated(x)]
               /\ call' = [call EXCEPT !.list = @ \ {x}, !.cur = x]
            \/ Passed(x)
      BY <1>1 DEF CallReassign
   <2>2. call.cur = None
      BY <1>1 DEF CallReassign
   <2>3. CASE Passed(x)
      BY <1>a, <1>k, <2>2, <2>3 DEF Passed
   <2>4. CASE rows' = [rows EXCEPT ![x.task] = Vacated(x)] /\ call' = [call EXCEPT !.list = @ \ {x}, !.cur = x]
     <3>1. call'.cur = x
        BY <1>k, <2>4
     <3> QED
        BY <1>b, <2>2, <2>4, <3>1
   <2> QED
      BY <2>1, <2>3, <2>4
 <1>2. CASE CallCancel
   <2>1. PICK x \in call.list :
            \/ /\ rows' = [rows EXCEPT ![x.task] = Vacated(x)]
               /\ call' = [call EXCEPT !.list = @ \ {x}]
               /\ unheld' = unheld \cup {x.task}
            \/ Passed(x)
      BY <1>2 DEF CallCancel
   <2>2. call'.cur = call.cur
      BY <1>k, <2>1 DEF Passed
   <2>3. CASE Passed(x)
      BY <1>a, <2>2, <2>3 DEF Passed
   <2>4. CASE rows' = [rows EXCEPT ![x.task] = Vacated(x)] /\ unheld' = unheld \cup {x.task}
      BY <1>b, <2>2, <2>4
   <2> QED
      BY <2>1, <2>3, <2>4
 <1>3. CASE CallCreate
   <2> DEFINE x == call.cur
   <2>1. x # None /\ x \in Entry /\ x.task \in Task /\ Read(x)
      BY <1>3, <1>t DEF CallCreate, ListsRead, Entry
   <2>2. CASE UNCHANGED rows /\ x.task \in unheld'
      BY <1>a, <2>2
   <2>3. CASE ~Holds("other", x.task) /\ rows' = [rows EXCEPT ![x.task] = Append(@, Replacement(x))]
     <3>1. rows[x.task] \in Seq(Row)
        BY <1>t, <2>1
     <3>2. Replacement(x) \in Row
       <4>1. RowOf(x) \in Row
          BY <2>1, <3>1 DEF Read, RowOf
       <4> QED
          BY <2>1, <4>1 DEF Replacement, Row, User, Entry
     <3>3. Table(rows[x.task], rows[x.task], {}, {})
        BY <3>1, SameTable
     <3>4. Table(rows[x.task], Append(rows[x.task], Replacement(x)), {}, {Replacement(x)})
        BY <3>1, <3>2, <3>3, AppendTable
     <3>5. rows'[x.task] = Append(rows[x.task], Replacement(x))
        BY <1>t, <2>1, <2>3
     <3>6. Added(x.task)
        BY <1>3, <2>1, <2>3, <3>4, <3>5 DEF Added
     <3>7. \A t \in Task \ {x.task} : Left(t)
        BY <1>t, <2>1, <2>3 DEF Left
     <3>8. rows' \in [Task -> Seq(Row)]
        BY <1>t, <2>1, <2>3, <3>4 DEF Table
     <3> QED
        BY <3>6, <3>7, <3>8
   <2> QED
      BY <1>3, <2>2, <2>3 DEF CallCreate, Replacement
 <1> QED
    BY <1>1, <1>2, <1>3

\* Every step does one of these to the table of every task.
LEMMA TablesStep ==
    ASSUME TypeOK, ListsRead, [Next]_vars
    PROVE  rows' \in [Task -> Seq(Row)] /\ \A t \in Task : TableStep(t)
 <1> DEFINE Goal == rows' \in [Task -> Seq(Row)] /\ \A t \in Task : TableStep(t)
 <1>t. rows \in [Task -> Seq(Row)]
    BY DEF TypeOK, RowsOK
 <1>a. ASSUME UNCHANGED rows, call'.cur = call.cur PROVE Goal
    BY <1>a, <1>t DEF TableStep, Left
 <1>1. ASSUME NEW d \in Delivery, Commit(d) PROVE Goal
   <2>1. UNCHANGED call
      BY <1>1 DEF Commit
   <2> QED
      BY <1>1, <2>1, CommitTables DEF TableStep, Moved, Left
 <1>2. ASSUME NEW d \in Delivery, VacateAssignments(d) PROVE Goal
    BY <1>2, VacateTables DEF TableStep
 <1>3. CASE CallReassign \/ CallCancel \/ CallCreate
    BY <1>3, CallTables DEF TableStep
 <1>4. CASE CallRead \/ CallPause \/ CallEnd \/ \E t \in Joint : ReadClaim(t) \/ SetLead(t)
   <2>1. UNCHANGED rows
      BY <1>4 DEF CallRead, CallPause, CallEnd, ReadClaim, SetLead
   <2>2. call'.cur = call.cur
      BY <1>4 DEF CallRead, CallPause, CallEnd, ReadClaim, SetLead, TypeOK, CallOK
   <2> QED
      BY <1>a, <2>1, <2>2
 <1>5. ASSUME NEW d \in Delivery, Handle(d) \/ Fail(d), ~Commit(d), ~VacateAssignments(d) PROVE Goal
   <2>1. UNCHANGED <<rows, call>>
      BY <1>5 DEF Handle, Fail, HandleDelegationStarted, HandleDelegationEnded,
         HandleUserAvailabilityChanged,
         HandleUserDeleted, HandleMembershipRevoked, Received, Reroute, Reverse, Candidates, LockAvailability, Record,
         ListInstances, SignalActive, CommitRecency, LockReversal, SettleOne, RollBack, MarkProcessed
   <2> QED
      BY <1>a, <2>1
 <1>6. ASSUME NEW i \in Inst, WriteStatus(i) PROVE Goal
    BY <1>6, <1>a DEF WriteStatus
 <1>7. CASE UNCHANGED vars
    BY <1>7, <1>a DEF vars
 <1> QED
    BY <1>1, <1>2, <1>3, <1>4, <1>5, <1>6, <1>7 DEF Next, CallStep

\* Rows keep who they name and their flags, and a row that is over stays over.
Keeps(r, q) ==
    /\ q \in Seq(Row) /\ DOMAIN r \subseteq DOMAIN q
    /\ \A l \in DOMAIN r : /\ q[l].user = r[l].user /\ q[l].tag = r[l].tag
                           /\ q[l].active => r[l].active

\* Every step keeps the rows there are.
LEMMA RowsKept ==
    ASSUME TypeOK, ListsRead, [Next]_vars
    PROVE  \A t \in Task : Keeps(rows[t], rows'[t])
 <1>1. \A t \in Task : TableStep(t) /\ rows[t] \in Seq(Row)
    BY TablesStep DEF TypeOK, RowsOK
 <1>2. \A r, q, gone, new : Table(r, q, gone, new) => Keeps(r, q)
    BY DEF Table, Keeps
 <1>3. \A r \in Seq(Row) : Keeps(r, r)
    BY DEF Keeps
 <1> QED
    BY <1>1, <1>2, <1>3 DEF TableStep, Moved, MovedBy, Emptied, Dropped, Added, Left

\* Nobody gets a second active row of a task.
LEMMA OneRowStep ==
    ASSUME TypeOK, ListsRead, [Next]_vars
    PROVE  OneRowEach'
 <1> SUFFICES ASSUME NEW t \in Task
              PROVE  \A k, l \in DOMAIN rows'[t] :
                       rows'[t][k].active /\ rows'[t][l].active /\ rows'[t][k].user = rows'[t][l].user => k = l
    BY DEF OneRowEach
 <1> DEFINE r == rows[t]
 <1>1. TableStep(t)
    BY TablesStep
 <1>2. \A k, l \in DOMAIN r : r[k].active /\ r[l].active /\ r[k].user = r[l].user => k = l
    BY DEF TypeOK, OneRowEach
 <1>3. CASE Left(t)
    BY <1>2, <1>3 DEF Left
 <1>4. ASSUME NEW gone, Table(r, rows'[t], gone, {})
       PROVE  \A k, l \in DOMAIN rows'[t] :
                rows'[t][k].active /\ rows'[t][l].active /\ rows'[t][k].user = rows'[t][l].user => k = l
    BY <1>2, <1>4, OneRowTable
 <1>5. ASSUME NEW gone, NEW n, Table(r, rows'[t], gone, {n}), ~Holds(n.user, t)
       PROVE  \A k, l \in DOMAIN rows'[t] :
                rows'[t][k].active /\ rows'[t][l].active /\ rows'[t][k].user = rows'[t][l].user => k = l
   <2>1. \A m \in {n} : \A l \in DOMAIN r : r[l].active => r[l].user # m.user
      BY <1>5 DEF Holds
   <2> HIDE DEF r
   <2> QED
      BY <1>2, <1>5, <2>1, OneRowTable
 <1>6. CASE Moved(t)
   <2>1. PICK d \in Delivery : MovedBy(d, t)
      BY <1>6 DEF Moved
   <2>x. PICK x \in delivery[d].list : ~Holds(NewAssignee(d), t) /\ Table(rows[t], rows'[t], {x.row}, {NewRow(d, x)})
      BY <2>1 DEF MovedBy
   <2>2. NewRow(d, x).user = NewAssignee(d)
      BY DEF NewRow
   <2> QED
      BY <1>5, <2>x, <2>2
 <1>7. CASE Added(t)
   <2>1. Replacement(call.cur).user = "other"
      BY DEF Replacement
   <2> QED
      BY <1>5, <1>7, <2>1 DEF Added
 <1>8. CASE Emptied(t) \/ Dropped(t)
    BY <1>4, <1>8 DEF Emptied, Dropped
 <1> QED
    BY <1>1, <1>3, <1>6, <1>7, <1>8 DEF TableStep

\* Nothing held for good is forgotten.
LEMMA UnheldGrows ==
    ASSUME [Next]_vars
    PROVE  unheld \subseteq unheld'
 <1>1. ASSUME NEW d \in Delivery, Handle(d) \/ Fail(d) PROVE unheld \subseteq unheld'
    BY <1>1 DEF Handle, Fail, HandleDelegationStarted, HandleDelegationEnded, HandleUserAvailabilityChanged,
       HandleUserDeleted, HandleMembershipRevoked, Received, Reroute, Reverse, Candidates, LockAvailability,
       Record, ListInstances, SignalActive, CommitRecency, LockReversal, SettleOne, Commit, RollBack,
       VacateAssignments, MarkProcessed, history
 <1>2. CASE CallStep \/ \E i \in Inst : WriteStatus(i)
    BY <1>2 DEF CallStep, WriteStatus, CallRead, CallReassign, Passed, CallCancel, CallCreate, CallPause,
       CallEnd, ReadClaim, SetLead, history
 <1>3. CASE UNCHANGED vars
    BY <1>3 DEF vars, history
 <1> QED
    BY <1>1, <1>2, <1>3 DEF Next

\* No step takes the last holder of a task without saying so.
LEMMA HeldStep ==
    ASSUME TypeOK, ListsRead, WorkStaysHeld, [Next]_vars
    PROVE  WorkStaysHeld'
 <1> SUFFICES ASSUME NEW t \in Task, t \notin unheld', t \notin BetweenRows'
              PROVE  \E k \in DOMAIN rows'[t] : rows'[t][k].active
    BY DEF WorkStaysHeld
 <1>1. TableStep(t)
    BY TablesStep
 <1>2. t \notin unheld
    BY UnheldGrows
 <1>b. call'.cur # None => t # call'.cur.task
    BY DEF BetweenRows
 <1>3. CASE Moved(t)
   <2>1. PICK d \in Delivery : MovedBy(d, t)
      BY <1>3 DEF Moved
   <2>x. PICK x \in delivery[d].list : Table(rows[t], rows'[t], {x.row}, {NewRow(d, x)})
      BY <2>1 DEF MovedBy
   <2>2. NewRow(d, x).active
      BY DEF NewRow
   <2> QED
      BY <2>x, <2>2 DEF Table
 <1>4. CASE Added(t)
   <2>1. Replacement(call.cur).active
      BY DEF Replacement
   <2> QED
      BY <1>4, <2>1 DEF Added, Table
 <1>5. CASE Emptied(t)
   <2>1. t \notin BetweenRows
      BY <1>5, <1>b DEF Emptied, BetweenRows
   <2>2. PICK k \in DOMAIN rows[t] : rows[t][k].active
      BY <1>2, <2>1 DEF WorkStaysHeld
   <2> QED
      BY <1>5, <2>2 DEF Emptied, Table
 <1>6. CASE Dropped(t)
   <2>1. PICK x \in call.list : x.task = t /\ call'.cur = x
      BY <1>6 DEF Dropped
   <2>2. x # None
      BY NoneAssumption DEF TypeOK, CallOK
   <2> QED
      BY <1>b, <2>1, <2>2
 <1>7. CASE Left(t)
   <2>1. t \notin BetweenRows
      BY <1>7, <1>b DEF Left, BetweenRows
   <2> QED
      BY <1>2, <1>7, <2>1 DEF WorkStaysHeld, Left
 <1> QED
    BY <1>1, <1>3, <1>4, <1>5, <1>6, <1>7 DEF TableStep

(***************************************************************************)
(* What a step does to a delivery.                                         *)
(***************************************************************************)
Sets(d, p, l, todo, verb) ==
    /\ delivery' \in [Delivery -> Deliveries]
    /\ \A e \in Delivery \ {d} : delivery'[e] = delivery[e]
    /\ delivery'[d].pc = p /\ delivery'[d].list = l /\ delivery'[d].todo = todo /\ delivery'[d].verb = verb
MovesTo(d, p) == Sets(d, p, delivery[d].list, delivery[d].todo, delivery[d].verb)
Fresh(d, p) == Sets(d, p, {}, {}, None)

\* A delivery that is replaced by another record.
LEMMA SetsAre ==
    ASSUME EventsOK, NEW d \in Delivery, NEW q \in Deliveries, delivery' = [delivery EXCEPT ![d] = q]
    PROVE  Sets(d, q.pc, q.list, q.todo, q.verb)
    BY DEF EventsOK, Sets

\* A delivery that moves on.
LEMMA AtMoves ==
    ASSUME EventsOK, NEW d \in Delivery
    PROVE  \A p \in Places : At(d, p) => MovesTo(d, p)
 <1> SUFFICES ASSUME NEW p \in Places, At(d, p) PROVE MovesTo(d, p)
    OBVIOUS
 <1> DEFINE q == [delivery[d] EXCEPT !.pc = p]
 <1>1. delivery[d] \in Deliveries
    BY DEF EventsOK
 <1>2. q \in Deliveries /\ q.pc = p /\ q.list = delivery[d].list /\ q.todo = delivery[d].todo /\ q.verb = delivery[d].verb
    BY <1>1 DEF Deliveries
 <1>3. delivery' = [delivery EXCEPT ![d] = q]
    BY DEF At
 <1> HIDE DEF q
 <1> QED
    BY <1>2, <1>3, SetsAre DEF MovesTo

\* A delivery that forgets what it read.
LEMMA FreshMoves ==
    ASSUME EventsOK, NEW d \in Delivery
    PROVE  \A p \in Places : AtFresh(d, p) => Fresh(d, p)
 <1> SUFFICES ASSUME NEW p \in Places, AtFresh(d, p) PROVE Fresh(d, p)
    OBVIOUS
 <1> DEFINE q == [Queued EXCEPT !.pc = p]
 <1>2. q \in Deliveries /\ q.pc = p /\ q.list = {} /\ q.todo = {} /\ q.verb = None
    BY DEF Deliveries, Queued
 <1>3. delivery' = [delivery EXCEPT ![d] = q]
    BY DEF AtFresh
 <1> HIDE DEF q
 <1> QED
    BY <1>2, <1>3, SetsAre DEF Fresh

\* The rows a reroute or a reversal looks for.
Sought(d) ==
    IF about[d].kind = "started" THEN Eligible(d, ScopeMatches(d, ActiveRows(Delegator)))
                                 ELSE Eligible(d, Tagged(ActiveRows(Delegate)))
AfterRead(d, l) == IF l = {} THEN "mark" ELSE IF about[d].kind = "started" THEN "commit" ELSE "locking"
Reads(d) ==
    /\ delivery[d].pc = "read" /\ about[d].kind \in {"started", "ended"}
    /\ \E l \in SUBSET Sought(d) :
         /\ Sets(d, AfterRead(d, l), l, delivery[d].todo, delivery[d].verb)
         /\ \A x \in Sought(d) \ l : x.task \in skipped'
    /\ skipped \subseteq skipped' /\ skipped' \subseteq Task /\ faults' \in {faults, faults + 1} /\ (faults' # faults => faults < MaxFaults)
    /\ led' = [led EXCEPT ![d] = Leads(delivery'[d].list)]
    /\ UNCHANGED <<about, processed, lock, guard, avail, rows, inst, call, unsignalled, unseen, late, unheld, lead, claim, crossed>>

\* The active rows of a user, as they are read (ListActiveByUser).
LEMMA ActiveAreEntries ==
    ASSUME TypeOK, NEW u
    PROVE  /\ ActiveRows(u) \subseteq Entry
           /\ \A x \in ActiveRows(u) : /\ x.row \in DOMAIN rows[x.task] /\ rows[x.task][x.row].active
                                       /\ rows[x.task][x.row].user = u
           /\ \A t \in Task : \A k \in DOMAIN rows[t] : rows[t][k].active /\ rows[t][k].user = u =>
                 [task |-> t, row |-> k] \in ActiveRows(u)
 <1>1. ASSUME NEW x \in ActiveRows(u)
       PROVE  /\ x \in Entry /\ x.row \in DOMAIN rows[x.task] /\ rows[x.task][x.row].active
              /\ rows[x.task][x.row].user = u
   <2>1. PICK t \in Task : x \in {[task |-> t, row |-> k] :
              k \in {k \in DOMAIN rows[t] : rows[t][k].active /\ rows[t][k].user = u}}
      BY <1>1 DEF ActiveRows
   <2>2. PICK k \in DOMAIN rows[t] : rows[t][k].active /\ rows[t][k].user = u /\ x = [task |-> t, row |-> k]
      BY <2>1
   <2>3. rows[t] \in Seq(Row) /\ k \in Nat /\ rows[t][k] \in Row
      BY DEF TypeOK, RowsOK
   <2> QED
      BY <2>2, <2>3 DEF Entry, Row
 <1>2. ASSUME NEW t \in Task, NEW k \in DOMAIN rows[t], rows[t][k].active, rows[t][k].user = u
       PROVE  [task |-> t, row |-> k] \in ActiveRows(u)
    BY <1>2 DEF ActiveRows
 <1> QED
    BY <1>1, <1>2

\* The instances of assignments that were read.
LEMMA InstancesAre ==
    ASSUME NEW l \in SUBSET Entry
    PROVE  InstancesOf(l) \subseteq Inst
    BY ScenarioAssumption DEF InstancesOf, Entry

\* A reroute looks at the rows of the delegator, a reversal at those of the delegate.
LEMMA SoughtAre ==
    ASSUME TypeOK, NEW d \in Delivery
    PROVE  Sought(d) \subseteq Entry /\ \E u \in User : Sought(d) \subseteq ActiveRows(u)
 <1>1. Sought(d) \subseteq ActiveRows(Delegator) \/ Sought(d) \subseteq ActiveRows(Delegate)
    BY DEF Sought, Eligible, ScopeMatches, Tagged
 <1>2. ActiveRows(Delegator) \subseteq Entry /\ ActiveRows(Delegate) \subseteq Entry
    BY ActiveAreEntries
 <1> QED
    BY <1>1, <1>2 DEF User

\* Reading takes the rows that were sought, but those that could not be read.
LEMMA ReadMoves ==
    ASSUME TypeOK, NEW d \in Delivery, Reroute(d) \/ Reverse(d)
    PROVE  Reads(d)
 <1>t. EventsOK /\ InstOK /\ RestOK
    BY DEF TypeOK
 <1>k. delivery[d].pc = "read" /\ about[d].kind \in {"started", "ended"}
    BY DEF Reroute, Reverse
 <1> DEFINE next == IF about[d].kind = "started" THEN "commit" ELSE "locking"
 <1>c. Candidates(d, Sought(d), next)
    BY DEF Reroute, Reverse, Sought
 <1>s. Sought(d) \subseteq Entry
    BY SoughtAre
 <1>a. ASSUME NEW l \in SUBSET Sought(d), NEW p,
              delivery' = [delivery EXCEPT ![d].list = l, ![d].seen = [i \in Inst |-> inst[i].status], ![d].pc = p],
              p = AfterRead(d, l)
       PROVE  Sets(d, AfterRead(d, l), l, delivery[d].todo, delivery[d].verb)
   <2> DEFINE q == [delivery[d] EXCEPT !.list = l, !.seen = [i \in Inst |-> inst[i].status], !.pc = p]
   <2>1. delivery[d] \in Deliveries /\ p \in Places /\ [i \in Inst |-> inst[i].status] \in [Inst -> {"RUNNING", "PAUSED"}]
      BY <1>a, <1>t DEF EventsOK, AfterRead, Places, InstOK
   <2>2. q \in Deliveries /\ q.pc = p /\ q.list = l /\ q.todo = delivery[d].todo /\ q.verb = delivery[d].verb
      BY <1>s, <2>1 DEF Deliveries
   <2>3. delivery' = [delivery EXCEPT ![d] = q]
      BY <1>a
   <2> HIDE DEF q
   <2>4. Sets(d, q.pc, q.list, q.todo, q.verb)
      BY <1>t, <2>2, <2>3, SetsAre
   <2> QED
      BY <1>a, <2>2, <2>4
 <1>u. UNCHANGED <<about, processed, lock, guard, avail, rows, inst, call, unsignalled, unseen, late, unheld, lead, claim, crossed>>
    BY <1>c DEF Candidates
 <1> HIDE DEF next
 <1>1. CASE /\ delivery' = [delivery EXCEPT ![d].list = Sought(d), ![d].seen = [i \in Inst |-> inst[i].status],
                                          ![d].pc = IF Sought(d) = {} THEN "mark" ELSE next]
            /\ led' = [led EXCEPT ![d] = Leads(Sought(d))]
            /\ UNCHANGED skipped /\ NoFault
   <2>1. Sets(d, AfterRead(d, Sought(d)), Sought(d), delivery[d].todo, delivery[d].verb)
      BY <1>1, <1>a DEF AfterRead, next
   <2>2. delivery'[d].list = Sought(d)
      BY <2>1 DEF Sets
   <2> QED
      BY <1>1, <1>k, <1>t, <1>u, <2>1, <2>2 DEF Reads, NoFault, RestOK
 <1>2. ASSUME NEW x \in Sought(d), skipped' = skipped \cup {x.task}, Fault,
              delivery' = [delivery EXCEPT ![d].list = Sought(d) \ {x}, ![d].seen = [i \in Inst |-> inst[i].status],
                                           ![d].pc = IF Sought(d) = {x} THEN "mark" ELSE next],
              led' = [led EXCEPT ![d] = Leads(Sought(d) \ {x})]
       PROVE  Reads(d)
   <2> DEFINE l == Sought(d) \ {x}
   <2>0. l \in SUBSET Sought(d) /\ (l = {} <=> Sought(d) = {x})
      OBVIOUS
   <2>1. Sets(d, AfterRead(d, l), l, delivery[d].todo, delivery[d].verb)
      BY <1>2, <1>a, <2>0 DEF AfterRead, next
   <2>2. x.task \in Task /\ \A y \in Sought(d) \ l : y.task \in skipped'
      BY <1>2, <1>s DEF Entry
   <2>3. faults' = faults + 1 /\ faults < MaxFaults /\ skipped' \subseteq Task
      BY <1>2, <1>t, <2>2 DEF Fault, RestOK
   <2>4. led' = [led EXCEPT ![d] = Leads(delivery'[d].list)]
      BY <1>2, <2>1 DEF Sets
   <2> HIDE DEF l
   <2> QED
      BY <1>2, <1>k, <1>u, <2>0, <2>1, <2>2, <2>3, <2>4 DEF Reads
 <1> QED
    BY <1>1, <1>2, <1>c DEF Candidates

\* Listing the instances to pause or resume (signalActiveInstances).
LEMMA ListMoves ==
    ASSUME TypeOK, NEW d \in Delivery, ListInstances(d)
    PROVE  Sets(d, "signal", delivery[d].list, InstancesOf(ActiveRows(Delegator)),
                IF about[d].status = "ooo" THEN "pause" ELSE "resume")
 <1> DEFINE td == InstancesOf(ActiveRows(Delegator))
            v == IF about[d].status = "ooo" THEN "pause" ELSE "resume"
            q == [delivery[d] EXCEPT !.pc = "signal", !.todo = td, !.verb = v]
 <1>1. delivery[d] \in Deliveries /\ td \subseteq Inst
    BY ActiveAreEntries, InstancesAre DEF TypeOK, EventsOK
 <1>2. delivery' = [delivery EXCEPT ![d] = q]
    BY DEF ListInstances
 <1>3. v \in {None, "pause", "resume"}
    OBVIOUS
 <1> HIDE DEF td, v
 <1>4. q \in Deliveries /\ q.pc = "signal" /\ q.list = delivery[d].list /\ q.todo = td /\ q.verb = v
    BY <1>1, <1>3 DEF Deliveries, Places
 <1> HIDE DEF q
 <1>5. Sets(d, "signal", delivery[d].list, td, v)
    BY <1>2, <1>4, SetsAre DEF TypeOK
 <1> QED
    BY <1>5 DEF td, v

\* One instance less is to be signalled.
LEMMA LessMoves ==
    ASSUME TypeOK, NEW d \in Delivery, NEW i, delivery' = [delivery EXCEPT ![d].todo = @ \ {i}]
    PROVE  Sets(d, delivery[d].pc, delivery[d].list, delivery[d].todo \ {i}, delivery[d].verb)
 <1> DEFINE q == [delivery[d] EXCEPT !.todo = @ \ {i}]
 <1>1. delivery[d] \in Deliveries
    BY DEF TypeOK, EventsOK
 <1>2. delivery' = [delivery EXCEPT ![d] = q]
    OBVIOUS
 <1>4. q \in Deliveries /\ q.pc = delivery[d].pc /\ q.list = delivery[d].list /\ q.todo = delivery[d].todo \ {i}
       /\ q.verb = delivery[d].verb
    BY <1>1 DEF Deliveries
 <1> HIDE DEF q
 <1> QED
    BY <1>2, <1>4, SetsAre DEF TypeOK

\* What settleOutOfOfficePauses does by the record of now.
LEMMA SettlementIs ==
    ASSUME TypeOK, NEW d \in Delivery
    PROVE  /\ Settlement(d).verb \in {None, "pause", "resume"}
           /\ Settlement(d).todo \subseteq InstancesOf(delivery[d].list)
           /\ Settlement(d).todo \subseteq Inst
           /\ avail.status = "ooo" /\ ~about[d].reassigned =>
                Settlement(d).verb = "pause" /\ Settlement(d).todo = InstancesOf(delivery[d].list)
           /\ avail.status = "ooo" /\ about[d].reassigned => Settlement(d).todo = {}
           /\ avail.status # "ooo" => Settlement(d).verb = "resume"
 <1>1. InstancesOf(delivery[d].list) \subseteq Inst
    BY InstancesAre DEF TypeOK, EventsOK, Deliveries
 <1>2. CASE avail.status # "ooo"
    BY <1>1, <1>2 DEF Settlement, IsOutOfOffice
 <1>3. CASE avail.status = "ooo" /\ about[d].reassigned
    BY <1>1, <1>3 DEF Settlement, IsOutOfOffice
 <1>4. CASE avail.status = "ooo" /\ ~about[d].reassigned
    BY <1>1, <1>4 DEF Settlement, IsOutOfOffice
 <1> QED
    BY <1>2, <1>3, <1>4

\* A reversal that has taken the lock is to settle.
LEMMA ReversalMoves ==
    ASSUME TypeOK, NEW d \in Delivery, LockReversal(d)
    PROVE  Sets(d, "settle", delivery[d].list, Settlement(d).todo, Settlement(d).verb)
 <1> DEFINE s == Settlement(d)
            q == [delivery[d] EXCEPT !.pc = "settle", !.verb = s.verb, !.todo = s.todo]
 <1>1. delivery[d] \in Deliveries /\ s.todo \subseteq Inst /\ s.verb \in {None, "pause", "resume"}
    BY SettlementIs DEF TypeOK, EventsOK
 <1>2. delivery' = [delivery EXCEPT ![d] = q]
    BY DEF LockReversal
 <1> HIDE DEF s
 <1>4. q \in Deliveries /\ q.pc = "settle" /\ q.list = delivery[d].list /\ q.todo = s.todo /\ q.verb = s.verb
    BY <1>1 DEF Deliveries, Places
 <1> HIDE DEF q
 <1>5. Sets(d, "settle", delivery[d].list, s.todo, s.verb)
    BY <1>2, <1>4, SetsAre DEF TypeOK
 <1> QED
    BY <1>5 DEF s

(***************************************************************************)
(* The lock.                                                               *)
(***************************************************************************)
\* Where the lock of the delegator's availability is held.
Critical == {"record", "list", "signal", "recency", "settle"}
KindAt(d, p) ==
    /\ p \in {"record", "list", "signal", "recency"} => about[d].kind = "availability"
    /\ p = "settle" => about[d].kind = "ended"
    /\ p = "commit" => about[d].kind = "started"
Locked == \A d \in Delivery : (lock = d <=> delivery[d].pc \in Critical) /\ KindAt(d, delivery[d].pc)

\* The lock is held exactly where the code holds it.
LEMMA LockedStep ==
    ASSUME TypeOK, Locked, [Next]_vars
    PROVE  Locked'
 <1>t. EventsOK /\ None \notin Delivery
    BY NoneAssumption DEF TypeOK
 <1>l. \A d \in Delivery : (lock = d <=> delivery[d].pc \in Critical) /\ KindAt(d, delivery[d].pc)
    BY DEF Locked
 <1>a. ASSUME UNCHANGED <<about, delivery, lock>> PROVE Locked'
    BY <1>a, <1>l DEF Locked, KindAt
 <1>m. ASSUME NEW d \in Delivery, NEW p, NEW l, NEW td, NEW v, Sets(d, p, l, td, v), UNCHANGED about, KindAt(d, p),
              \/ lock' = lock /\ (p \in Critical <=> delivery[d].pc \in Critical)
              \/ lock = None /\ lock' = d /\ p \in Critical
              \/ Release(d) /\ p \notin Critical
       PROVE  Locked'
   <2>1. (lock' = d <=> p \in Critical) /\ KindAt(d, p)'
      BY <1>l, <1>m, <1>t DEF Release, KindAt
   <2>2. ASSUME NEW e \in Delivery \ {d} PROVE (lock' = e <=> lock = e)
      BY <1>l, <1>m, <1>t, <2>2 DEF Release
   <2>3. \A e \in Delivery \ {d} : delivery'[e] = delivery[e] /\ about'[e] = about[e]
      BY <1>m DEF Sets
   <2>4. delivery'[d].pc = p
      BY <1>m DEF Sets
   <2> QED
      BY <1>l, <2>1, <2>2, <2>3, <2>4 DEF Locked, KindAt
 <1>n. ASSUME NEW d \in Delivery, NEW p \in Places \ (Critical \cup {"commit"}), MovesTo(d, p), UNCHANGED <<about, lock>>,
              delivery[d].pc \notin Critical
       PROVE  Locked'
   <2>1. KindAt(d, p)
      BY DEF KindAt, Critical
   <2> QED
      BY <1>m, <1>n, <2>1 DEF MovesTo
 <1>f. ASSUME NEW d \in Delivery, NEW p \in Places \ (Critical \cup {"commit"}), Fresh(d, p), UNCHANGED about, Release(d)
       PROVE  Locked'
   <2>1. KindAt(d, p)
      BY DEF KindAt, Critical
   <2> QED
      BY <1>m, <1>f, <2>1 DEF Fresh
 <1>p. /\ {"queued", "read", "locking", "vacate", "mark", "done"} \subseteq Places \ (Critical \cup {"commit"})
       /\ Critical \subseteq Places /\ "commit" \notin Critical
    BY DEF Places, Critical
 <1>1. ASSUME NEW d \in Delivery, \/ HandleDelegationStarted(d) \/ HandleDelegationEnded(d)
                                  \/ HandleUserAvailabilityChanged(d) \/ HandleUserDeleted(d) \/ HandleMembershipRevoked(d)
       PROVE  Locked'
   <2>1. PICK p \in {"done", "read", "locking", "vacate"} : At(d, p)
      BY <1>1 DEF HandleDelegationStarted, HandleDelegationEnded, HandleUserAvailabilityChanged,
         HandleUserDeleted,
         HandleMembershipRevoked, Received
   <2>2. delivery[d].pc = "queued" /\ UNCHANGED <<about, lock>>
      BY <1>1 DEF HandleDelegationStarted, HandleDelegationEnded, HandleUserAvailabilityChanged,
         HandleUserDeleted,
         HandleMembershipRevoked, Received
   <2>3. MovesTo(d, p)
      BY <1>p, <1>t, <2>1, AtMoves
   <2>4. delivery[d].pc \notin Critical /\ p \in Places \ (Critical \cup {"commit"})
      BY <1>p, <2>1, <2>2 DEF Critical
   <2> QED
      BY <1>n, <2>2, <2>3, <2>4
 <1>2. ASSUME NEW d \in Delivery, Reroute(d) \/ Reverse(d) PROVE Locked'
   <2>1. Reads(d)
      BY <1>2, ReadMoves
   <2>2. PICK l : Sets(d, AfterRead(d, l), l, delivery[d].todo, delivery[d].verb)
      BY <2>1 DEF Reads
   <2>3. KindAt(d, AfterRead(d, l)) /\ AfterRead(d, l) \notin Critical
      BY DEF KindAt, AfterRead, Critical
   <2>4. delivery[d].pc \notin Critical /\ UNCHANGED <<about, lock>>
      BY <2>1 DEF Reads, Critical
   <2> QED
      BY <1>m, <2>2, <2>3, <2>4
 <1>3. ASSUME NEW d \in Delivery, LockAvailability(d) PROVE Locked'
   <2>1. CASE At(d, "mark") /\ UNCHANGED lock
     <3>1. MovesTo(d, "mark") /\ delivery[d].pc \notin Critical /\ UNCHANGED about
        BY <1>3, <1>p, <1>t, <2>1, AtMoves DEF LockAvailability, Critical
     <3> QED
        BY <1>n, <1>p, <2>1, <3>1
   <2>2. CASE At(d, "record") /\ lock' = d
     <3>1. MovesTo(d, "record") /\ "record" \in Critical /\ KindAt(d, "record") /\ lock = None /\ UNCHANGED about
        BY <1>3, <1>p, <1>t, <2>2, AtMoves DEF LockAvailability, Critical, KindAt
     <3> QED
        BY <1>m, <2>2, <3>1 DEF MovesTo
   <2> QED
      BY <1>3, <2>1, <2>2 DEF LockAvailability
 <1>4. ASSUME NEW d \in Delivery, Record(d) PROVE Locked'
   <2>1. PICK p \in {"recency", "list"} : At(d, p)
      BY <1>4 DEF Record
   <2>2. delivery[d].pc = "record" /\ UNCHANGED <<about, lock>>
      BY <1>4 DEF Record
   <2>3. MovesTo(d, p) /\ p \in Critical /\ delivery[d].pc \in Critical
      BY <1>p, <1>t, <2>1, <2>2, AtMoves DEF Critical
   <2>4. KindAt(d, p)
      BY <1>l, <2>1, <2>2 DEF KindAt
   <2> QED
      BY <1>m, <2>2, <2>3, <2>4 DEF MovesTo
 <1>5. ASSUME NEW d \in Delivery, ListInstances(d) PROVE Locked'
   <2>1. Sets(d, "signal", delivery[d].list, InstancesOf(ActiveRows(Delegator)),
                IF about[d].status = "ooo" THEN "pause" ELSE "resume")
      BY <1>5, ListMoves
   <2>2. delivery[d].pc = "list" /\ UNCHANGED <<about, lock>>
      BY <1>5 DEF ListInstances
   <2>3. KindAt(d, "signal") /\ "signal" \in Critical /\ delivery[d].pc \in Critical
      BY <1>l, <2>2 DEF KindAt, Critical
   <2> QED
      BY <1>m, <2>1, <2>2, <2>3
 <1>6. ASSUME NEW d \in Delivery, SignalActive(d) \/ SettleOne(d) PROVE Locked'
   <2>1. PICK i : delivery' = [delivery EXCEPT ![d].todo = @ \ {i}]
      BY <1>6 DEF SignalActive, SettleOne
   <2>2. UNCHANGED <<about, lock>>
      BY <1>6 DEF SignalActive, SettleOne
   <2>3. Sets(d, delivery[d].pc, delivery[d].list, delivery[d].todo \ {i}, delivery[d].verb)
      BY <2>1, LessMoves
   <2> QED
      BY <1>l, <1>m, <2>2, <2>3
 <1>7. ASSUME NEW d \in Delivery, CommitRecency(d) PROVE Locked'
   <2>1. MovesTo(d, "mark") /\ delivery[d].pc \in Critical /\ lock' = None /\ UNCHANGED about
      BY <1>7, <1>p, <1>t, AtMoves DEF CommitRecency, Critical
   <2>2. Release(d) /\ "mark" \notin Critical /\ KindAt(d, "mark")
      BY <1>l, <2>1 DEF Release, Critical, KindAt
   <2> QED
      BY <1>m, <2>1, <2>2 DEF MovesTo
 <1>8. ASSUME NEW d \in Delivery, LockReversal(d) PROVE Locked'
   <2>1. Sets(d, "settle", delivery[d].list, Settlement(d).todo, Settlement(d).verb)
      BY <1>8, ReversalMoves
   <2>2. "settle" \in Critical /\ KindAt(d, "settle") /\ lock = None /\ lock' = d /\ UNCHANGED about
      BY <1>8 DEF LockReversal, Critical, KindAt
   <2> QED
      BY <1>m, <2>1, <2>2
 <1>9. ASSUME NEW d \in Delivery, Commit(d) \/ RollBack(d) \/ Fail(d) PROVE Locked'
   <2>1. PICK p \in {"mark", "queued"} : AtFresh(d, p)
      BY <1>9 DEF Commit, RollBack, Fail
   <2>2. Release(d) /\ UNCHANGED about
      BY <1>9 DEF Commit, RollBack, Fail
   <2> QED
      BY <1>f, <1>p, <1>t, <2>1, <2>2, FreshMoves
 <1>10. ASSUME NEW d \in Delivery, VacateAssignments(d) \/ MarkProcessed(d) PROVE Locked'
   <2>1. PICK p \in {"mark", "done"} : AtFresh(d, p)
      BY <1>10 DEF VacateAssignments, MarkProcessed
   <2>2. delivery[d].pc \in {"vacate", "mark"} /\ UNCHANGED <<about, lock>>
      BY <1>10 DEF VacateAssignments, MarkProcessed
   <2>3. Release(d)
      BY <1>l, <2>2 DEF Release, Critical
   <2> QED
      BY <1>f, <1>p, <1>t, <2>1, <2>2, <2>3, FreshMoves
 <1>11. CASE CallStep \/ \E i \in Inst : WriteStatus(i)
    BY <1>11, <1>a DEF CallStep, CallRead, CallReassign, CallCancel, CallCreate, CallPause, CallEnd, ReadClaim, SetLead,
       WriteStatus, eventvars
 <1>12. CASE UNCHANGED vars
    BY <1>12, <1>a DEF vars, eventvars
 <1> QED
    BY <1>1, <1>2, <1>3, <1>4, <1>5, <1>6, <1>7, <1>8, <1>9, <1>10, <1>11, <1>12 DEF Next, Handle

(***************************************************************************)
(* Types.                                                                  *)
(***************************************************************************)
\* A delivery keeps its list, drops it, or reads the active rows of somebody.
ListMove(d) ==
    \/ delivery'[d].list = delivery[d].list /\ led'[d] = led[d]
    \/ delivery'[d].list = {} /\ led'[d] = {}
    \/ /\ UNCHANGED <<rows, lead, crossed>> /\ led'[d] = Leads(delivery'[d].list)
       /\ \E u \in User : delivery'[d].list \subseteq ActiveRows(u)

\* Deliveries keep their type, and what they list was read.
LEMMA DeliveriesStep ==
    ASSUME TypeOK, [Next]_vars
    PROVE  delivery' \in [Delivery -> Deliveries] /\ \A d \in Delivery : ListMove(d)
 <1> DEFINE Goal == delivery' \in [Delivery -> Deliveries] /\ \A d \in Delivery : ListMove(d)
 <1>t. EventsOK /\ ClaimOK
    BY DEF TypeOK
 <1>a. ASSUME UNCHANGED delivery, \A d \in Delivery : led'[d] = led[d] PROVE Goal
    BY <1>a, <1>t DEF EventsOK, ListMove
 <1>m. ASSUME NEW d \in Delivery, NEW p, NEW td, NEW v, Sets(d, p, delivery[d].list, td, v), UNCHANGED led PROVE Goal
   <2>1. delivery' \in [Delivery -> Deliveries] /\ delivery'[d].list = delivery[d].list
         /\ \A e \in Delivery \ {d} : delivery'[e] = delivery[e]
      BY <1>m DEF Sets
   <2> QED
      BY <1>m, <2>1 DEF ListMove
 <1>p. {"queued", "read", "locking", "vacate", "mark", "done", "record", "recency", "list"} \subseteq Places
    BY DEF Places
 <1>1. ASSUME NEW d \in Delivery, \/ HandleDelegationStarted(d) \/ HandleDelegationEnded(d)
                                  \/ HandleUserAvailabilityChanged(d) \/ HandleUserDeleted(d) \/ HandleMembershipRevoked(d)
                                  \/ LockAvailability(d) \/ Record(d) \/ CommitRecency(d)
       PROVE  Goal
   <2>1. PICK p \in {"done", "read", "locking", "vacate", "record", "mark", "recency", "list"} : At(d, p)
      BY <1>1 DEF HandleDelegationStarted, HandleDelegationEnded, HandleUserAvailabilityChanged,
         HandleUserDeleted,
         HandleMembershipRevoked, Received, LockAvailability, Record, CommitRecency
   <2>2. MovesTo(d, p)
      BY <1>p, <1>t, <2>1, AtMoves
   <2>3. UNCHANGED led
      BY <1>1 DEF HandleDelegationStarted, HandleDelegationEnded, HandleUserAvailabilityChanged,
         HandleUserDeleted,
         HandleMembershipRevoked, Received, LockAvailability, Record, CommitRecency, claims
   <2> QED
      BY <1>m, <2>2, <2>3 DEF MovesTo
 <1>2. ASSUME NEW d \in Delivery, Reroute(d) \/ Reverse(d) PROVE Goal
   <2>1. Reads(d)
      BY <1>2, ReadMoves
   <2>2. PICK l \in SUBSET Sought(d) : Sets(d, AfterRead(d, l), l, delivery[d].todo, delivery[d].verb)
      BY <2>1 DEF Reads
   <2>3. PICK u \in User : Sought(d) \subseteq ActiveRows(u)
      BY SoughtAre
   <2>4. delivery' \in [Delivery -> Deliveries] /\ delivery'[d].list = l
         /\ \A e \in Delivery \ {d} : delivery'[e] = delivery[e]
      BY <2>2 DEF Sets
   <2>5. UNCHANGED <<rows, lead, crossed>> /\ led' = [led EXCEPT ![d] = Leads(delivery'[d].list)]
      BY <2>1 DEF Reads
   <2>6. led'[d] = Leads(delivery'[d].list) /\ \A e \in Delivery \ {d} : led'[e] = led[e]
      BY <1>t, <2>5 DEF ClaimOK
   <2> QED
      BY <2>3, <2>4, <2>5, <2>6 DEF ListMove
 <1>3. ASSUME NEW d \in Delivery, ListInstances(d) PROVE Goal
    BY <1>3, <1>m, ListMoves DEF ListInstances, claims
 <1>4. ASSUME NEW d \in Delivery, SignalActive(d) \/ SettleOne(d) PROVE Goal
   <2>1. PICK i : delivery' = [delivery EXCEPT ![d].todo = @ \ {i}]
      BY <1>4 DEF SignalActive, SettleOne
   <2>2. UNCHANGED led
      BY <1>4 DEF SignalActive, SettleOne, claims
   <2> QED
      BY <1>m, <2>1, <2>2, LessMoves
 <1>5. ASSUME NEW d \in Delivery, LockReversal(d) PROVE Goal
    BY <1>5, <1>m, ReversalMoves DEF LockReversal, claims
 <1>6. ASSUME NEW d \in Delivery, Commit(d) \/ RollBack(d) \/ Fail(d) \/ VacateAssignments(d) \/ MarkProcessed(d) PROVE Goal
   <2>1. PICK p \in {"mark", "queued", "done"} : AtFresh(d, p)
      BY <1>6 DEF Commit, RollBack, Fail, VacateAssignments, MarkProcessed
   <2>2. Fresh(d, p)
      BY <1>p, <1>t, <2>1, FreshMoves
   <2>3. led'[d] = {} /\ \A e \in Delivery \ {d} : led'[e] = led[e]
      BY <1>t, <2>1 DEF AtFresh, ClaimOK
   <2>4. delivery' \in [Delivery -> Deliveries] /\ delivery'[d].list = {}
         /\ \A e \in Delivery \ {d} : delivery'[e] = delivery[e]
      BY <2>2 DEF Fresh, Sets
   <2> QED
      BY <2>3, <2>4 DEF ListMove
 <1>7. CASE CallStep \/ \E i \in Inst : WriteStatus(i)
   <2>1. led' = led \/ \E l : led' = [led EXCEPT !["call"] = l]
      BY <1>7 DEF CallStep, CallRead, CallReassign, CallCancel, CallCreate, CallPause, CallEnd, ReadClaim, SetLead,
         WriteStatus, claims
   <2>2. \A d \in Delivery : led'[d] = led[d]
      BY <1>t, <2>1, ScenarioAssumption DEF ClaimOK
   <2>3. UNCHANGED delivery
      BY <1>7 DEF CallStep, CallRead, CallReassign, CallCancel, CallCreate, CallPause, CallEnd, ReadClaim, SetLead,
         WriteStatus, eventvars
   <2> QED
      BY <1>a, <2>2, <2>3
 <1>8. CASE UNCHANGED vars
    BY <1>8, <1>a DEF vars, eventvars, claims
 <1> QED
    BY <1>1, <1>2, <1>3, <1>4, <1>5, <1>6, <1>7, <1>8 DEF Next, Handle

\* What a call has read: rows it read before, or the active rows of a user.
CallMove ==
    /\ \/ call'.list \subseteq call.list /\ led'["call"] = led["call"]
       \/ call'.list = {} /\ call'.cur = None
       \/ /\ UNCHANGED <<rows, lead, crossed>> /\ led'["call"] = Leads(call'.list) /\ call'.cur = None
          /\ \E u \in User : call'.list \subseteq ActiveRows(u)
    /\ call'.cur \in call.list \cup {None, call.cur}

\* So does the call.
LEMMA CallStepType ==
    ASSUME TypeOK, [Next]_vars
    PROVE  CallOK' /\ CallMove
 <1> DEFINE Calls == [kind : {"none", "reassign", "cancel", "pause"}, pc : {"idle", "rows", "done"},
                      list : SUBSET Entry, cur : Entry \cup {None}]
 <1>t. call \in Calls /\ (call.cur # None => call.pc = "rows")
    BY DEF TypeOK, CallOK
 <1>l. led \in [Delivery \cup {"call"} -> SUBSET Entry]
    BY DEF TypeOK, ClaimOK
 <1>a. UNCHANGED call /\ led'["call"] = led["call"] => CallOK' /\ CallMove
    BY <1>t DEF CallOK, CallMove
 <1>1. CASE CallRead
   <2>1. PICK l \in {ActiveRows(Delegator), ActiveRows(Delegate), Tagged(ActiveRows(Delegate))} :
            call' = [call EXCEPT !.pc = "rows", !.list = l] /\ led' = [led EXCEPT !["call"] = Leads(l)]
      BY <1>1 DEF CallRead
   <2>2. l \subseteq Entry /\ \E u \in User : l \subseteq ActiveRows(u)
     <3>1. ActiveRows(Delegator) \subseteq Entry /\ ActiveRows(Delegate) \subseteq Entry
        BY ActiveAreEntries
     <3> QED
        BY <3>1 DEF Tagged, User
   <2>3. call.cur = None /\ UNCHANGED <<rows, lead, crossed>>
      BY <1>1, <1>t DEF CallRead
   <2>4. call' \in Calls /\ call'.list = l /\ call'.cur = call.cur
      BY <1>t, <2>1, <2>2
   <2>5. led'["call"] = Leads(l)
      BY <1>l, <2>1
   <2> QED
      BY <2>2, <2>3, <2>4, <2>5 DEF CallOK, CallMove
 <1>2. CASE CallReassign \/ CallCancel
   <2>1. PICK x \in call.list : call' = [call EXCEPT !.list = @ \ {x}, !.cur = x] \/ call' = [call EXCEPT !.list = @ \ {x}]
      BY <1>2 DEF CallReassign, CallCancel, Passed
   <2>2. x \in Entry
      BY <1>t
   <2>3. call' \in Calls /\ call'.list \subseteq call.list /\ call'.cur \in {x, call.cur} /\ call'.pc = call.pc
      BY <1>t, <2>1, <2>2
   <2>4. call.pc = "rows" /\ UNCHANGED led
      BY <1>2 DEF CallReassign, CallCancel, claims
   <2> QED
      BY <2>3, <2>4 DEF CallOK, CallMove
 <1>3. CASE CallCreate
   <2>1. call' \in Calls /\ call'.list = call.list /\ call'.cur = None
      BY <1>3, <1>t DEF CallCreate
   <2>2. UNCHANGED led
      BY <1>3 DEF CallCreate
   <2> QED
      BY <2>1, <2>2 DEF CallOK, CallMove
 <1>4. CASE CallPause
   <2>1. PICK i : call' = [call EXCEPT !.list = {x \in @ : InstOf[x.task] # i}]
      BY <1>4 DEF CallPause
   <2>2. call' \in Calls /\ call'.list \subseteq call.list /\ call'.cur = call.cur /\ call'.pc = call.pc
      BY <1>t, <2>1
   <2>3. UNCHANGED led
      BY <1>4 DEF CallPause, claims
   <2> QED
      BY <1>t, <2>2, <2>3 DEF CallOK, CallMove
 <1>5. CASE CallEnd
   <2>1. call' \in Calls /\ call'.list = {} /\ call'.cur = None
      BY <1>5, <1>t DEF CallEnd
   <2> QED
      BY <2>1 DEF CallOK, CallMove
 <1>6. CASE \/ UNCHANGED vars \/ (\E i \in Inst : WriteStatus(i)) \/ (\E t \in Joint : ReadClaim(t) \/ SetLead(t))
   <2>1. UNCHANGED <<call, led>>
      BY <1>6 DEF WriteStatus, ReadClaim, SetLead, vars, claims
   <2> QED
      BY <1>a, <2>1
 <1>7. ASSUME NEW d \in Delivery, Handle(d) \/ Fail(d) PROVE CallOK' /\ CallMove
   <2>1. UNCHANGED call
      BY <1>7 DEF Handle, Fail, HandleDelegationStarted, HandleDelegationEnded,
         HandleUserAvailabilityChanged,
         HandleUserDeleted, HandleMembershipRevoked, Received, Reroute, Reverse, Candidates, LockAvailability, Record,
         ListInstances, SignalActive, CommitRecency, LockReversal, SettleOne, Commit, RollBack, VacateAssignments,
         MarkProcessed
   <2>2. led' = led \/ \E l : led' = [led EXCEPT ![d] = l]
      BY <1>7 DEF Handle, Fail, HandleDelegationStarted, HandleDelegationEnded,
         HandleUserAvailabilityChanged,
         HandleUserDeleted, HandleMembershipRevoked, Received, Reroute, Reverse, Candidates, LockAvailability, Record,
         ListInstances, SignalActive, CommitRecency, LockReversal, SettleOne, Commit, RollBack, VacateAssignments,
         MarkProcessed, AtFresh, claims
   <2>3. led'["call"] = led["call"]
      BY <1>l, <2>2, ScenarioAssumption
   <2> QED
      BY <1>a, <2>1, <2>3
 <1> QED
    BY <1>1, <1>2, <1>3, <1>4, <1>5, <1>6, <1>7 DEF Next, CallStep

\* What was read keeps its row.
LEMMA ListsStep ==
    ASSUME TypeOK, ListsRead, [Next]_vars
    PROVE  ListsRead' /\ RowsOK'
 <1>t. /\ \A d \in Delivery : delivery[d].list \subseteq Entry
       /\ call.list \subseteq Entry /\ call.cur \in Entry \cup {None}
    BY DEF TypeOK, EventsOK, Deliveries, CallOK
 <1>1. delivery' \in [Delivery -> Deliveries] /\ \A d \in Delivery : ListMove(d)
    BY DeliveriesStep
 <1>2. \A t \in Task : Keeps(rows[t], rows'[t])
    BY RowsKept
 <1>3. CallMove
    BY CallStepType
 <1>4. ASSUME NEW x \in Entry, Read(x) PROVE Read(x)'
    BY <1>2, <1>4 DEF Read, RowOf, Keeps, Entry
 <1>5. ASSUME NEW u \in User, NEW x \in ActiveRows(u), UNCHANGED rows PROVE Read(x)'
    BY <1>5, ActiveAreEntries DEF Read, RowOf
 <1>6. ASSUME NEW u \in User PROVE OnePerTask(ActiveRows(u))
   <2> SUFFICES ASSUME NEW x \in ActiveRows(u), NEW y \in ActiveRows(u), x.task = y.task PROVE x = y
      BY DEF OnePerTask
   <2>1. /\ x \in Entry /\ y \in Entry
         /\ x.row \in DOMAIN rows[x.task] /\ rows[x.task][x.row].active /\ rows[x.task][x.row].user = u
         /\ y.row \in DOMAIN rows[x.task] /\ rows[x.task][y.row].active /\ rows[x.task][y.row].user = u
      BY ActiveAreEntries
   <2>2. x.task \in Task
      BY <2>1 DEF Entry
   <2>3. x.row = y.row
      BY <2>1, <2>2 DEF TypeOK, OneRowEach
   <2> QED
      BY <2>1, <2>3 DEF Entry
 <1>7. ASSUME NEW d \in Delivery PROVE (\A x \in delivery'[d].list : Read(x)') /\ OnePerTask(delivery'[d].list)
   <2>1. CASE delivery'[d].list \in {delivery[d].list, {}}
      BY <1>4, <1>t, <2>1 DEF ListsRead, OnePerTask
   <2>2. CASE UNCHANGED rows /\ \E u \in User : delivery'[d].list \subseteq ActiveRows(u)
      BY <1>5, <1>6, <2>2 DEF OnePerTask
   <2> QED
      BY <1>1, <2>1, <2>2 DEF ListMove
 <1>8. \A x \in call'.list : Read(x)'
   <2>1. CASE call'.list \subseteq call.list \/ call'.list = {}
      BY <1>4, <1>t, <2>1 DEF ListsRead
   <2>2. CASE UNCHANGED rows /\ \E u \in User : call'.list \subseteq ActiveRows(u)
      BY <1>5, <2>2
   <2> QED
      BY <1>3, <2>1, <2>2 DEF CallMove
 <1>9. call'.cur # None => Read(call.cur)'
   <2> SUFFICES ASSUME call'.cur # None PROVE Read(call.cur)'
      OBVIOUS
   <2> DEFINE x == call'.cur
   <2>1. x \in Entry /\ Read(x)
      BY <1>3, <1>t DEF CallMove, ListsRead
   <2>2. x.row \in DOMAIN rows'[x.task]
     <3> HIDE DEF x
     <3> QED
        BY <1>2, <2>1 DEF Read, RowOf, Keeps, Entry
   <2> QED
      BY <2>2 DEF Read, RowOf
 <1>10. ListsRead'
    BY <1>7, <1>8, <1>9 DEF ListsRead, OnePerTask
 <1>11. rows' \in [Task -> Seq(Row)]
    BY TablesStep
 <1>12. RowsOK'
    BY <1>7, <1>11 DEF RowsOK, Read
 <1> QED
    BY <1>10, <1>12

(***************************************************************************)
(* Claims.                                                                 *)
(***************************************************************************)
\* A table that gets a row gets it at its end.
LEMMA TableEnd ==
    ASSUME NEW r \in Seq(Row), NEW q, NEW gone, NEW n, Table(r, q, gone, {n})
    PROVE  Len(r) + 1 \in DOMAIN q \ DOMAIN r /\ q[Len(r) + 1] = n
 <1>1. q \in Seq(Row) /\ DOMAIN r = 1 .. Len(r) /\ DOMAIN q = 1 .. Len(q) /\ Len(r) \in Nat /\ Len(q) \in Nat
    BY DEF Table
 <1>2. PICK l \in DOMAIN q : l \notin DOMAIN r
    BY DEF Table
 <1>3. Len(r) + 1 \in DOMAIN q \ DOMAIN r
    BY <1>1, <1>2
 <1> QED
    BY <1>3 DEF Table

\* The leads of a task stay, the row added for a lead becomes one, or a claim
\* takes effect.
Kept(t) == lead'[t] = lead[t] /\ (t \in crossed' <=> t \in crossed)
Gains(t) ==
    /\ lead'[t] = lead[t] \cup {Len(rows[t]) + 1} /\ (t \in crossed' <=> t \in crossed)
    /\ Len(rows[t]) + 1 \in DOMAIN rows'[t] \ DOMAIN rows[t] /\ rows'[t][Len(rows[t]) + 1].active
LeadStep(t) == Kept(t) \/ Gains(t) \/ SetLead(t)

\* What a committed reroute or reversal does to the leads.
LEMMA CommitLeads ==
    ASSUME TypeOK, ListsRead, NEW d \in Delivery, Commit(d), NEW t \in Task
    PROVE  \/ Kept(t) /\ ~(\E x \in led[d] : x.task = t)
           \/ Gains(t) /\ MovedBy(d, t)
 <1>1. lead' = Inherited(d) /\ UNCHANGED crossed
    BY DEF Commit
 <1>2. CASE ~(\E x \in led[d] : x.task = t)
    BY <1>1, <1>2 DEF Inherited, Kept
 <1>3. ASSUME NEW x \in led[d], x.task = t PROVE Gains(t) /\ MovedBy(d, t)
   <2>1. x \in delivery[d].list
      BY DEF TypeOK, ClaimOK
   <2>2. lead'[t] = lead[t] \cup {Len(rows[t]) + 1}
      BY <1>1, <1>3 DEF Inherited
   <2>3. rows' = Committed(d) /\ rows[t] \in Seq(Row)
      BY DEF Commit, TypeOK, RowsOK
   <2>4. MovedBy(d, t)
     <3>1. rows'[t] # rows[t]
       <4> DEFINE y == CHOOSE z \in delivery[d].list : z.task = t
       <4>1. y \in delivery[d].list /\ y.task = t
          BY <1>3, <2>1
       <4>2. rows'[t] = Append(Vacated(y), [user |-> NewAssignee(d), tag |-> about[d].kind = "started", active |-> TRUE])
          BY <1>3, <2>1, <2>3 DEF Committed
       <4> HIDE DEF y
       <4>3. y.row \in DOMAIN rows[t] /\ Vacated(y) = [rows[t] EXCEPT ![y.row].active = FALSE]
          BY <4>1 DEF ListsRead, Read, Vacated
       <4>4. Table(rows[t], Vacated(y), {y.row}, {}) /\ DOMAIN Vacated(y) = DOMAIN rows[t]
          BY <2>3, <4>3, VacateTable
       <4>5. Vacated(y) \in Seq(Row)
          BY <4>4 DEF Table
       <4>6. Len(Vacated(y)) = Len(rows[t]) /\ Len(rows[t]) \in Nat
          BY <2>3, <4>4, <4>5
       <4>7. Len(rows'[t]) = Len(rows[t]) + 1
          BY <4>2, <4>5, <4>6
       <4> QED
          BY <4>6, <4>7
     <3> QED
        BY <3>1, CommitTables
   <2>5. PICK y \in delivery[d].list : Table(rows[t], rows'[t], {y.row}, {NewRow(d, y)})
      BY <2>4 DEF MovedBy
   <2>6. NewRow(d, y).active
      BY DEF NewRow
   <2> QED
     <3>1. Len(rows[t]) + 1 \in DOMAIN rows'[t] \ DOMAIN rows[t] /\ rows'[t][Len(rows[t]) + 1] = NewRow(d, y)
        BY <2>3, <2>5, TableEnd
     <3> QED
        BY <1>1, <2>2, <2>4, <2>6, <3>1 DEF Gains
 <1> QED
    BY <1>2, <1>3

\* What the replacement of ReassignDelegate does to them.
LEMMA CreateLeads ==
    ASSUME TypeOK, ListsRead, CallCreate, NEW t \in Task
    PROVE  /\ UNCHANGED crossed
           /\ \/ call.cur.task = t /\ call.cur \in led["call"] /\ Gains(t)
              \/ /\ Kept(t) /\ (call.cur.task = t => call.cur \notin led["call"] \/ t \in unheld')
                 /\ \A k \in DOMAIN rows[t] : k \in DOMAIN rows'[t] /\ rows'[t][k] = rows[t][k]
 <1> DEFINE x == call.cur
 <1>1. UNCHANGED crossed
    BY DEF CallCreate
 <1>2. x # None /\ x \in Entry /\ x.task \in Task /\ Read(x)
    BY DEF CallCreate, TypeOK, CallOK, ListsRead, Entry
 <1>t. rows \in [Task -> Seq(Row)] /\ lead \in [Task -> SUBSET Nat]
    BY DEF TypeOK, RowsOK, ClaimOK
 <1>3. CASE UNCHANGED <<rows, lead>> /\ x.task \in unheld'
    BY <1>1, <1>3 DEF Kept
 <1>4. CASE /\ rows' = [rows EXCEPT ![x.task] = Append(@, Replacement(x))]
            /\ lead' = IF x \in led["call"] THEN [lead EXCEPT ![x.task] = @ \cup {Len(rows[x.task]) + 1}] ELSE lead
   <2>1. rows[x.task] \in Seq(Row)
      BY <1>2, <1>t
   <2>2. Replacement(x) \in Row /\ Replacement(x).active
     <3>1. RowOf(x) \in Row
        BY <1>2, <2>1 DEF Read, RowOf
     <3> QED
        BY <1>2, <3>1 DEF Replacement, Row, User, Entry
   <2>3. Table(rows[x.task], Append(rows[x.task], Replacement(x)), {}, {Replacement(x)})
      BY <2>1, <2>2, SameTable, AppendTable
   <2>4. rows'[x.task] = Append(rows[x.task], Replacement(x)) /\ (x.task # t => rows'[t] = rows[t])
      BY <1>2, <1>4, <1>t
   <2>5. \A k \in DOMAIN rows[t] : k \in DOMAIN rows'[t] /\ rows'[t][k] = rows[t][k]
      BY <2>1, <2>2, <2>4
   <2>6. CASE x.task = t /\ x \in led["call"]
     <3>1. lead'[t] = lead[t] \cup {Len(rows[t]) + 1}
        BY <1>2, <1>4, <1>t, <2>6
     <3>2. Len(rows[t]) + 1 \in DOMAIN rows'[t] \ DOMAIN rows[t] /\ rows'[t][Len(rows[t]) + 1] = Replacement(x)
        BY <2>1, <2>3, <2>4, <2>6, TableEnd
     <3> QED
        BY <1>1, <2>2, <2>6, <3>1, <3>2 DEF Gains
   <2>7. CASE ~(x.task = t /\ x \in led["call"])
     <3>1. lead'[t] = lead[t]
        BY <1>2, <1>4, <1>t, <2>7
     <3> QED
        BY <1>1, <2>5, <2>7, <3>1 DEF Kept
   <2> QED
      BY <2>6, <2>7
 <1> QED
    BY <1>3, <1>4 DEF CallCreate, Replacement

\* Nothing else but a claim touches them.
LEMMA QuietLeads ==
    ASSUME [Next]_vars, \A d \in Delivery : ~Commit(d), ~CallCreate, \A t \in Joint : ~SetLead(t)
    PROVE  UNCHANGED <<lead, crossed>>
 <1>1. ASSUME NEW d \in Delivery, Handle(d) \/ Fail(d) PROVE UNCHANGED <<lead, crossed>>
    BY <1>1 DEF Handle, Fail, HandleDelegationStarted, HandleDelegationEnded, HandleUserAvailabilityChanged,
       HandleUserDeleted, HandleMembershipRevoked, Received, Reroute, Reverse, Candidates, LockAvailability,
       Record, ListInstances, SignalActive, CommitRecency, LockReversal, SettleOne, RollBack,
       VacateAssignments, MarkProcessed, claims
 <1>2. CASE CallStep \/ \E i \in Inst : WriteStatus(i)
    BY <1>2 DEF CallStep, WriteStatus, CallRead, CallReassign, CallCancel, CallPause, CallEnd, ReadClaim,
       claims
 <1>3. CASE UNCHANGED vars
    BY <1>3 DEF vars, claims
 <1> QED
    BY <1>1, <1>2, <1>3 DEF Next

\* Every step does one of these to the leads of every task.
LEMMA LeadsStep ==
    ASSUME TypeOK, ListsRead, [Next]_vars
    PROVE  \A t \in Task : LeadStep(t)
 <1> SUFFICES ASSUME NEW t \in Task PROVE LeadStep(t)
    OBVIOUS
 <1>1. ASSUME NEW d \in Delivery, Commit(d) PROVE LeadStep(t)
    BY <1>1, CommitLeads DEF LeadStep
 <1>2. CASE CallCreate
    BY <1>2, CreateLeads DEF LeadStep
 <1>3. ASSUME NEW j \in Joint, SetLead(j) PROVE LeadStep(t)
   <2>1. CASE j = t
      BY <1>3, <2>1 DEF LeadStep
   <2>2. CASE j # t
      BY <1>3, <2>2, ScenarioAssumption DEF SetLead, LeadStep, Kept, TypeOK, ClaimOK
   <2> QED
      BY <2>1, <2>2
 <1>4. CASE (\A d \in Delivery : ~Commit(d)) /\ ~CallCreate /\ \A j \in Joint : ~SetLead(j)
    BY <1>4, QuietLeads DEF LeadStep, Kept
 <1> QED
    BY <1>1, <1>2, <1>3, <1>4

\* A pending claim is of a row there is.
LEMMA ClaimsStep ==
    ASSUME TypeOK, [Next]_vars
    PROVE  claim' \in [Task -> Nat] /\ \A t \in Task : claim'[t] \in {0, claim[t]} \cup DOMAIN rows[t]
 <1>t. claim \in [Task -> Nat] /\ rows \in [Task -> Seq(Row)]
    BY DEF TypeOK, ClaimOK, RowsOK
 <1>1. ASSUME NEW j \in Joint, ReadClaim(j) \/ SetLead(j)
       PROVE  \E k \in {0} \cup DOMAIN rows[j] : claim' = [claim EXCEPT ![j] = k]
    BY <1>1 DEF ReadClaim, SetLead
 <1>2. ASSUME NEW j \in Joint, NEW k \in {0} \cup DOMAIN rows[j], claim' = [claim EXCEPT ![j] = k]
       PROVE  claim' \in [Task -> Nat] /\ \A t \in Task : claim'[t] \in {0, claim[t]} \cup DOMAIN rows[t]
   <2>1. j \in Task /\ rows[j] \in Seq(Row)
      BY <1>t, ScenarioAssumption
   <2>2. k \in Nat
      BY <2>1
   <2> QED
      BY <1>2, <1>t, <2>1, <2>2
 <1>3. CASE \A j \in Joint : ~ReadClaim(j) /\ ~SetLead(j)
   <2>1. UNCHANGED claim
     <3>1. ASSUME NEW d \in Delivery, Handle(d) \/ Fail(d) PROVE UNCHANGED claim
        BY <1>3, <3>1 DEF Handle, Fail, HandleDelegationStarted, HandleDelegationEnded,
           HandleUserAvailabilityChanged, HandleUserDeleted, HandleMembershipRevoked, Received, Reroute,
           Reverse, Candidates, LockAvailability, Record, ListInstances, SignalActive, CommitRecency,
           LockReversal, SettleOne, Commit, RollBack, VacateAssignments, MarkProcessed, claims
     <3>2. CASE CallStep \/ \E i \in Inst : WriteStatus(i)
        BY <1>3, <3>2 DEF CallStep, WriteStatus, CallRead, CallReassign, CallCancel, CallCreate, CallPause,
           CallEnd, claims
     <3>3. CASE UNCHANGED vars
        BY <3>3 DEF vars, claims
     <3> QED
        BY <3>1, <3>2, <3>3 DEF Next
   <2> QED
      BY <1>t, <2>1
 <1> QED
    BY <1>1, <1>2, <1>3

\* What was read as a lead was read.
LEMMA LedStep ==
    ASSUME TypeOK, [Next]_vars
    PROVE  led' \in [Delivery \cup {"call"} -> SUBSET Entry]
 <1>t. led \in [Delivery \cup {"call"} -> SUBSET Entry]
    BY DEF TypeOK, ClaimOK
 <1>1. ASSUME NEW r \in Delivery \cup {"call"}, NEW l \in SUBSET Entry, led' = [led EXCEPT ![r] = l]
       PROVE  led' \in [Delivery \cup {"call"} -> SUBSET Entry]
    BY <1>1, <1>t
 <1>2. ASSUME NEW d \in Delivery, Reroute(d) \/ Reverse(d) PROVE led' \in [Delivery \cup {"call"} -> SUBSET Entry]
   <2>1. led' = [led EXCEPT ![d] = Leads(delivery'[d].list)]
      BY <1>2, ReadMoves DEF Reads
   <2>2. delivery'[d].list \subseteq Entry
      BY DeliveriesStep DEF Deliveries
   <2> QED
      BY <1>1, <2>1, <2>2 DEF Leads
 <1>3. CASE CallRead
   <2>1. PICK l \in {ActiveRows(Delegator), ActiveRows(Delegate), Tagged(ActiveRows(Delegate))} :
            led' = [led EXCEPT !["call"] = Leads(l)]
      BY <1>3 DEF CallRead
   <2>2. ActiveRows(Delegator) \subseteq Entry /\ ActiveRows(Delegate) \subseteq Entry
      BY ActiveAreEntries
   <2> QED
      BY <1>1, <2>1, <2>2 DEF Leads, Tagged
 <1>4. CASE CallEnd
    BY <1>1, <1>4 DEF CallEnd
 <1>5. ASSUME NEW d \in Delivery, Commit(d) \/ RollBack(d) \/ Fail(d) \/ VacateAssignments(d) \/ MarkProcessed(d)
       PROVE  led' \in [Delivery \cup {"call"} -> SUBSET Entry]
    BY <1>1, <1>5 DEF Commit, RollBack, Fail, VacateAssignments, MarkProcessed, AtFresh
 <1>6. CASE /\ ~CallRead /\ ~CallEnd
            /\ \A d \in Delivery : /\ ~Reroute(d) /\ ~Reverse(d) /\ ~Commit(d) /\ ~RollBack(d) /\ ~Fail(d)
                                   /\ ~VacateAssignments(d) /\ ~MarkProcessed(d)
   <2>1. UNCHANGED led
      BY <1>6 DEF Next, CallStep, Handle, HandleDelegationStarted, HandleDelegationEnded,
         HandleUserAvailabilityChanged,
         HandleUserDeleted, HandleMembershipRevoked, Received, LockAvailability, Record,
         ListInstances, SignalActive, CommitRecency, LockReversal, SettleOne,
         WriteStatus, CallReassign, CallCancel, CallCreate, CallPause, ReadClaim, SetLead, vars, claims
   <2> QED
      BY <1>t, <2>1
 <1> QED
    BY <1>2, <1>3, <1>4, <1>5, <1>6

\* The leads and the claims keep their types.
LEMMA ClaimTypes ==
    ASSUME TypeOK, ListsRead, [Next]_vars
    PROVE  ClaimOK'
 <1>t. /\ lead \in [Task -> SUBSET Nat] /\ claim \in [Task -> Nat] /\ crossed \subseteq Task
       /\ \A t \in Task : lead[t] \cup ({claim[t]} \ {0}) \subseteq DOMAIN rows[t]
    BY DEF TypeOK, ClaimOK
 <1>r. rows' \in [Task -> Seq(Row)] /\ \A t \in Task : DOMAIN rows[t] \subseteq DOMAIN rows'[t]
    BY TablesStep, RowsKept DEF Keeps
 <1>1. ASSUME NEW t \in Task PROVE lead'[t] \subseteq DOMAIN rows'[t]
   <2>1. LeadStep(t) /\ lead[t] \subseteq DOMAIN rows'[t]
      BY <1>r, <1>t, LeadsStep
   <2>2. CASE SetLead(t)
      BY <1>r, <1>t, <2>2 DEF SetLead
   <2> QED
      BY <2>1, <2>2 DEF LeadStep, Kept, Gains
 <1>2. lead' \in [Task -> SUBSET Nat]
   <2>1. \A t \in Task : lead'[t] \subseteq Nat
      BY <1>r, <1>1
   <2>2. lead' = [t \in Task |-> lead'[t]]
     <3>1. ASSUME NEW d \in Delivery, Commit(d) PROVE lead' = [t \in Task |-> lead'[t]]
        BY <3>1 DEF Commit, Inherited
     <3>2. CASE CallCreate
        BY <1>t, <3>2 DEF CallCreate
     <3>3. ASSUME NEW j \in Joint, SetLead(j) PROVE lead' = [t \in Task |-> lead'[t]]
        BY <1>t, <3>3 DEF SetLead
     <3>4. CASE (\A d \in Delivery : ~Commit(d)) /\ ~CallCreate /\ \A j \in Joint : ~SetLead(j)
        BY <1>t, <3>4, QuietLeads
     <3> QED
        BY <3>1, <3>2, <3>3, <3>4
   <2> QED
      BY <2>1, <2>2
 <1>3. crossed' \subseteq Task
   <2>1. ASSUME NEW j \in Joint, SetLead(j) PROVE crossed' \subseteq Task
      BY <1>t, <2>1, ScenarioAssumption DEF SetLead
   <2>2. ASSUME NEW d \in Delivery, Commit(d) PROVE UNCHANGED crossed
      BY <2>2 DEF Commit
   <2>3. CallCreate => UNCHANGED crossed
      BY DEF CallCreate
   <2> QED
      BY <1>t, <2>1, <2>2, <2>3, QuietLeads
 <1>4. claim' \in [Task -> Nat] /\ \A t \in Task : {claim'[t]} \ {0} \subseteq DOMAIN rows'[t]
    BY <1>r, <1>t, ClaimsStep
 <1>5. \A d \in Delivery : led'[d] \subseteq delivery'[d].list
   <2>1. \A d \in Delivery : ListMove(d) /\ led[d] \subseteq delivery[d].list
      BY DeliveriesStep DEF TypeOK, ClaimOK
   <2> QED
      BY <2>1 DEF ListMove, Leads
 <1> QED
    BY <1>1, <1>2, <1>3, <1>4, <1>5, LedStep DEF ClaimOK

\* What was read as no lead is none, unless a claim crossed.
LeadsRead ==
    /\ \A d \in Delivery : \A x \in delivery[d].list :
         x.task \notin crossed /\ x.row \in lead[x.task] => x \in led[d]
    /\ \A x \in call.list \cup ({call.cur} \ {None}) :
         x.task \notin crossed /\ x.row \in lead[x.task] => x \in led["call"]

\* Every step keeps that.
LEMMA LeadsReadStep ==
    ASSUME TypeOK, ListsRead, LeadsRead, [Next]_vars
    PROVE  LeadsRead'
 <1>t. /\ \A d \in Delivery : delivery[d].list \subseteq Entry
       /\ call.list \subseteq Entry /\ call.cur \in Entry \cup {None}
    BY DEF TypeOK, EventsOK, Deliveries, CallOK
 <1>1. ASSUME NEW x \in Entry, x.row \in DOMAIN rows[x.task], x \in Underway, x.task \notin crossed', x.row \in lead'[x.task]
       PROVE  x.task \notin crossed /\ x.row \in lead[x.task]
   <2>1. x.task \in Task /\ LeadStep(x.task)
      BY LeadsStep DEF Entry
   <2>2. CASE SetLead(x.task)
     <3>1. lead'[x.task] = {claim[x.task]} /\ ~Crossing(x.task)
        BY <1>1, <2>1, <2>2 DEF SetLead, TypeOK, ClaimOK
     <3> QED
        BY <1>1, <3>1 DEF Crossing
   <2> QED
      BY <1>1, <2>1, <2>2 DEF LeadStep, Kept, Gains
 <1>2. ASSUME NEW d \in Delivery, NEW x \in delivery'[d].list, x.task \notin crossed', x.row \in lead'[x.task]
       PROVE  x \in led'[d]
   <2>1. ListMove(d)
      BY DeliveriesStep
   <2>2. CASE delivery'[d].list = delivery[d].list /\ led'[d] = led[d]
     <3>1. x \in delivery[d].list /\ x \in Entry /\ x.row \in DOMAIN rows[x.task] /\ x \in Underway
        BY <1>t, <2>2 DEF Underway, ListsRead, Read
     <3>2. x.task \notin crossed /\ x.row \in lead[x.task]
        BY <1>1, <1>2, <3>1
     <3> QED
        BY <2>2, <3>1, <3>2 DEF LeadsRead
   <2>3. CASE UNCHANGED lead /\ led'[d] = Leads(delivery'[d].list)
      BY <1>2, <2>3 DEF Leads
   <2> QED
      BY <2>1, <2>2, <2>3 DEF ListMove
 <1>3. ASSUME NEW x \in call'.list \cup ({call'.cur} \ {None}), x.task \notin crossed', x.row \in lead'[x.task]
       PROVE  x \in led'["call"]
   <2>1. CallMove
      BY CallStepType
   <2>2. CASE x \in call.list \cup ({call.cur} \ {None}) /\ led'["call"] = led["call"]
     <3>1. x \in Entry /\ x.row \in DOMAIN rows[x.task] /\ x \in Underway
        BY <1>t, <2>2 DEF Underway, ListsRead, Read
     <3>2. x.task \notin crossed /\ x.row \in lead[x.task]
        BY <1>1, <1>3, <3>1
     <3> QED
        BY <2>2, <3>2 DEF LeadsRead
   <2>3. CASE UNCHANGED lead /\ led'["call"] = Leads(call'.list) /\ x \in call'.list
      BY <1>3, <2>3 DEF Leads
   <2> QED
      BY <1>3, <2>1, <2>2, <2>3 DEF CallMove
 <1> QED
    BY <1>2, <1>3 DEF LeadsRead

\* A task that had a lead has one, or its replacement is to be the lead.
LedNow(t) == \E k \in lead[t] : rows[t][k].active
ClaimKept ==
    \A t \in Task \ (unheld \cup crossed) :
      lead[t] # {} => LedNow(t) \/ (call.cur # None /\ call.cur.task = t /\ call.cur \in led["call"])

\* No step takes the lead of a task without handing it on.
LEMMA ClaimStep ==
    ASSUME TypeOK, ListsRead, LeadsRead, ClaimKept, [Next]_vars
    PROVE  ClaimKept'
 <1> DEFINE StillLed(t) == \/ \E k \in lead'[t] : rows'[t][k].active
                           \/ call'.cur # None /\ call'.cur.task = t /\ call'.cur \in led'["call"]
 <1> SUFFICES ASSUME NEW t \in Task, t \notin unheld', t \notin crossed', lead'[t] # {}
              PROVE  StillLed(t)
    BY DEF ClaimKept, LedNow
 <1>2. t \notin unheld
    BY UnheldGrows
 <1>r. lead[t] \subseteq DOMAIN rows[t] /\ rows[t] \in Seq(Row)
    BY DEF TypeOK, ClaimOK, RowsOK
 <1>k. ASSUME Kept(t)
       PROVE  LedNow(t) \/ (call.cur # None /\ call.cur.task = t /\ call.cur \in led["call"])
    BY <1>2, <1>k DEF Kept, ClaimKept
 <1>g. Gains(t) => StillLed(t)
    BY DEF Gains
 <1>1. ASSUME NEW d \in Delivery, Commit(d) PROVE StillLed(t)
   <2>1. UNCHANGED call /\ (MovedBy(d, t) \/ rows'[t] = rows[t])
      BY <1>1, CommitTables
   <2>2. led'["call"] = led["call"]
      BY <1>1, ScenarioAssumption DEF Commit, AtFresh, TypeOK, ClaimOK
   <2>3. CASE Kept(t) /\ ~(\E x \in led[d] : x.task = t)
     <3>1. CASE LedNow(t)
       <4>1. PICK k \in lead[t] : rows[t][k].active
          BY <3>1 DEF LedNow
       <4>2. CASE MovedBy(d, t)
         <5>1. PICK x \in delivery[d].list : x.task = t /\ Table(rows[t], rows'[t], {x.row}, {NewRow(d, x)})
            BY <4>2 DEF MovedBy
         <5>2. t \notin crossed
            BY <2>3 DEF Kept
         <5>3. x.row # k
            BY <2>3, <4>1, <5>1, <5>2 DEF LeadsRead
         <5>4. rows'[t][k].active
            BY <1>r, <4>1, <5>1, <5>3 DEF Table
         <5> QED
            BY <2>3, <4>1, <5>4 DEF Kept
       <4> QED
          BY <2>1, <2>3, <4>1, <4>2 DEF Kept
     <3> QED
        BY <1>k, <2>1, <2>2, <2>3, <3>1
   <2> QED
      BY <1>1, <1>g, <2>3, CommitLeads
 <1>3. CASE CallCreate
   <2>1. CASE Kept(t) /\ (call.cur.task = t => call.cur \notin led["call"] \/ t \in unheld')
              /\ \A k \in DOMAIN rows[t] : k \in DOMAIN rows'[t] /\ rows'[t][k] = rows[t][k]
     <3>1. LedNow(t)
        BY <1>k, <2>1
     <3> QED
        BY <1>r, <2>1, <3>1 DEF LedNow, Kept
   <2> QED
      BY <1>3, <1>g, <2>1, CreateLeads
 <1>4. ASSUME NEW j \in Joint, SetLead(j) PROVE StillLed(t)
   <2>1. UNCHANGED <<rows, call, led>>
      BY <1>4 DEF SetLead
   <2>2. CASE j = t
     <3>1. lead'[t] = {claim[t]} /\ ~Crossing(t)
        BY <1>4, <2>2 DEF SetLead, TypeOK, ClaimOK
     <3> QED
        BY <2>1, <3>1 DEF Crossing
   <2>3. CASE j # t
     <3>1. Kept(t)
        BY <1>4, <2>3, ScenarioAssumption DEF SetLead, Kept, TypeOK, ClaimOK
     <3> QED
        BY <1>k, <2>1, <3>1 DEF Kept, LedNow
   <2> QED
      BY <2>2, <2>3
 <1>5. CASE (\A d \in Delivery : ~Commit(d)) /\ ~CallCreate /\ \A j \in Joint : ~SetLead(j)
   <2>1. Kept(t)
      BY <1>5, QuietLeads DEF Kept
   <2>2. CallMove /\ TableStep(t)
      BY CallStepType, TablesStep
   <2>c. ASSUME call.cur # None, call.cur \in led["call"], UNCHANGED call PROVE led'["call"] = led["call"]
      BY <2>2, <2>c DEF CallMove
   <2>3. CASE Moved(t)
      BY <1>5, <2>3 DEF Moved, MovedBy
   <2>4. CASE Emptied(t)
     <3>1. PICK u \in User :
              /\ Table(rows[t], rows'[t], {l \in DOMAIN rows[t] : rows[t][l].user = u}, {})
              /\ ~(\E l \in DOMAIN rows[t] : rows[t][l].active /\ rows[t][l].user = u)
        BY <2>4 DEF Emptied
     <3>2. CASE LedNow(t)
        BY <1>r, <2>1, <3>1, <3>2 DEF Table, LedNow, Kept
     <3> QED
        BY <1>k, <2>1, <2>4, <2>c, <3>2 DEF Emptied
   <2>5. CASE Dropped(t)
     <3>1. PICK x \in call.list : x.task = t /\ call.cur = None /\ call'.cur = x /\ Table(rows[t], rows'[t], {x.row}, {})
        BY <2>5 DEF Dropped
     <3>2. x # None
        BY <3>1, NoneAssumption DEF TypeOK, CallOK
     <3>3. PICK k \in lead[t] : rows[t][k].active
        BY <1>k, <2>1, <3>1 DEF LedNow
     <3>4. CASE k = x.row
       <4>1. t \notin crossed
          BY <2>1 DEF Kept
       <4>2. x \in led["call"]
          BY <3>1, <3>3, <3>4, <4>1 DEF LeadsRead
       <4>3. led'["call"] = led["call"]
          BY <2>2, <3>1, <3>2 DEF CallMove
       <4> QED
          BY <3>1, <3>2, <4>2, <4>3
     <3>5. CASE k # x.row
        BY <1>r, <2>1, <3>1, <3>3, <3>5 DEF Table, Kept
     <3> QED
        BY <3>4, <3>5
   <2>6. CASE Added(t)
      BY <1>5, <2>6 DEF Added
   <2>7. CASE Left(t)
     <3>1. CASE LedNow(t)
        BY <2>1, <2>7, <3>1 DEF Left, LedNow, Kept
     <3>2. CASE call.cur # None /\ call.cur.task = t /\ call.cur \in led["call"]
       <4>1. call'.cur = call.cur
          BY <2>7, <3>2 DEF Left
       <4>2. led'["call"] = led["call"]
          BY <2>2, <3>2, <4>1 DEF CallMove
       <4> QED
          BY <3>2, <4>1, <4>2
     <3> QED
        BY <1>k, <2>1, <3>1, <3>2
   <2> QED
      BY <2>2, <2>3, <2>4, <2>5, <2>6, <2>7 DEF TableStep
 <1> QED
    BY <1>1, <1>3, <1>4, <1>5

\* A signal keeps the types of the instances.
LEMMA SignalledIs ==
    ASSUME InstOK, NEW i \in Inst, NEW verb, NEW initiator \in {"ooo", "safety_net"}
    PROVE  LET q == Signalled(i, verb, initiator)
           IN /\ q \in [Inst -> [paused : {None, "ooo", "safety_net"}, status : {"RUNNING", "PAUSED"}]]
              /\ \A j \in Inst \ {i} : q[j] = inst[j]
              /\ verb = "pause" => q[i].paused = IF inst[i].paused = None THEN initiator ELSE inst[i].paused
              /\ verb # "pause" => q[i].paused = IF inst[i].paused = initiator THEN None ELSE inst[i].paused
    BY DEF InstOK, Signalled

\* Every variable keeps its type.
LEMMA TypeStep ==
    ASSUME TypeOK, ListsRead, [Next]_vars
    PROVE  TypeOK'
 <1>t. EventsOK /\ InstOK /\ RestOK
    BY DEF TypeOK
 <1>1. RowsOK' /\ OneRowEach' /\ CallOK'
    BY ListsStep, OneRowStep, CallStepType
 <1>2. EventsOK'
   <2>1. delivery' \in [Delivery -> Deliveries]
      BY DeliveriesStep
   <2>2. UNCHANGED about
     <3>1. ASSUME NEW d \in Delivery, Handle(d) \/ Fail(d) PROVE UNCHANGED about
        BY <3>1 DEF Handle, Fail, HandleDelegationStarted, HandleDelegationEnded,
           HandleUserAvailabilityChanged, HandleUserDeleted, HandleMembershipRevoked, Received, Reroute,
           Reverse, Candidates, LockAvailability, Record, ListInstances, SignalActive, CommitRecency,
           LockReversal, SettleOne, Commit, RollBack, VacateAssignments, MarkProcessed, eventvars
     <3>2. CASE CallStep \/ \E i \in Inst : WriteStatus(i)
        BY <3>2 DEF CallStep, WriteStatus, CallRead, CallReassign, CallCancel, CallCreate, CallPause, CallEnd,
           ReadClaim, SetLead, eventvars
     <3>3. CASE UNCHANGED vars
        BY <3>3 DEF vars, eventvars
     <3> QED
        BY <3>1, <3>2, <3>3 DEF Next
   <2>3. lock' \in Delivery \cup {None, lock}
     <3>1. ASSUME NEW d \in Delivery, Handle(d) \/ Fail(d) PROVE lock' \in Delivery \cup {None, lock}
        BY <3>1 DEF Handle, Fail, HandleDelegationStarted, HandleDelegationEnded,
           HandleUserAvailabilityChanged, HandleUserDeleted, HandleMembershipRevoked, Received, Reroute,
           Reverse, Candidates, LockAvailability, Record, ListInstances, SignalActive, CommitRecency,
           LockReversal, SettleOne, Commit, RollBack, VacateAssignments, MarkProcessed, Release, eventvars
     <3>2. CASE CallStep \/ \E i \in Inst : WriteStatus(i)
        BY <3>2 DEF CallStep, WriteStatus, CallRead, CallReassign, CallCancel, CallCreate, CallPause, CallEnd,
           ReadClaim, SetLead, eventvars
     <3>3. CASE UNCHANGED vars
        BY <3>3 DEF vars, eventvars
     <3> QED
        BY <3>1, <3>2, <3>3 DEF Next
   <2>4. \A d \in Delivery : about[d].at \in Nat
      BY <1>t DEF EventsOK, Content
   <2>5. guard' \in Nat
     <3>1. ASSUME NEW d \in Delivery, CommitRecency(d) PROVE guard' \in {guard, about[d].at}
        BY <3>1 DEF CommitRecency
     <3>2. ASSUME ~(\E d \in Delivery : CommitRecency(d)) PROVE guard' = guard
       <4>1. ASSUME NEW d \in Delivery, Handle(d) \/ Fail(d) PROVE guard' = guard
          BY <3>2, <4>1 DEF Handle, Fail, HandleDelegationStarted, HandleDelegationEnded,
             HandleUserAvailabilityChanged, HandleUserDeleted, HandleMembershipRevoked, Received, Reroute,
             Reverse, Candidates, LockAvailability, Record, ListInstances, SignalActive, LockReversal,
             SettleOne, Commit, RollBack, VacateAssignments, MarkProcessed, eventvars
       <4>2. CASE CallStep \/ \E i \in Inst : WriteStatus(i)
          BY <3>2, <4>2 DEF CallStep, WriteStatus, CallRead, CallReassign, CallCancel, CallCreate, CallPause,
             CallEnd, ReadClaim, SetLead, eventvars
       <4>3. CASE UNCHANGED vars
          BY <4>3 DEF vars, eventvars
       <4> QED
          BY <4>1, <4>2, <4>3 DEF Next
     <3> QED
        BY <1>t, <2>4, <3>1, <3>2 DEF EventsOK
   <2> QED
      BY <1>t, <2>1, <2>2, <2>3, <2>5 DEF EventsOK
 <1>3. InstOK'
   <2>1. ASSUME NEW i \in Inst, NEW v, NEW w \in {"ooo", "safety_net"}, inst' = Signalled(i, v, w) PROVE InstOK'
      BY <1>t, <2>1, SignalledIs DEF InstOK
   <2>2. ASSUME NEW d \in Delivery, SignalActive(d) PROVE InstOK'
     <3>1. PICK i \in delivery[d].todo : inst' = Signalled(i, delivery[d].verb, "ooo") \/ UNCHANGED inst
        BY <2>2 DEF SignalActive
     <3>2. i \in Inst
        BY <1>t DEF EventsOK, Deliveries
     <3> QED
        BY <1>t, <2>1, <3>1, <3>2 DEF InstOK
   <2>3. ASSUME NEW d \in Delivery, SettleOne(d) PROVE InstOK'
     <3>1. PICK i \in delivery[d].todo : inst' = Signalled(i, delivery[d].verb, "ooo")
        BY <2>3 DEF SettleOne
     <3>2. i \in Inst
        BY <1>t DEF EventsOK, Deliveries
     <3> QED
        BY <2>1, <3>1, <3>2
   <2>4. CASE CallPause
     <3>1. PICK i \in InstancesOf(call.list) : inst' = Signalled(i, "pause", "safety_net") \/ UNCHANGED inst
        BY <2>4 DEF CallPause
     <3>2. i \in Inst
        BY InstancesAre DEF TypeOK, CallOK
     <3> QED
        BY <1>t, <2>1, <3>1, <3>2 DEF InstOK
   <2>5. ASSUME NEW i \in Inst, WriteStatus(i) PROVE InstOK'
      BY <1>t, <2>5 DEF WriteStatus, StoredStatus, InstOK
   <2>6. CASE /\ ~(\E d \in Delivery : SignalActive(d) \/ SettleOne(d)) /\ ~CallPause /\ ~(\E i \in Inst : WriteStatus(i))
     <3>1. UNCHANGED inst
        BY <2>6 DEF Next, CallStep, Handle, Fail, HandleDelegationStarted, HandleDelegationEnded,
           HandleUserAvailabilityChanged,
         HandleUserDeleted, HandleMembershipRevoked, Received, Reroute, Reverse, Candidates, LockAvailability, Record,
         ListInstances, CommitRecency, LockReversal, Commit, RollBack, VacateAssignments,
         MarkProcessed, CallRead, CallReassign, CallCancel, CallCreate, CallEnd, ReadClaim, SetLead, vars
     <3> QED
        BY <1>t, <3>1 DEF InstOK
   <2> QED
      BY <2>2, <2>3, <2>4, <2>5, <2>6
 <1>4. RestOK'
   <2>1. avail' \in [status : {"available", "busy", "ooo", None}, at : Nat]
     <3>1. ASSUME NEW d \in Delivery, Record(d) PROVE avail' \in {avail, [status |-> about[d].status, at |-> about[d].at]}
        BY <3>1 DEF Record
     <3>2. ASSUME ~(\E d \in Delivery : Record(d)) PROVE avail' = avail
        BY <3>2 DEF Next, CallStep, Handle, Fail, HandleDelegationStarted, HandleDelegationEnded,
           HandleUserAvailabilityChanged,
         HandleUserDeleted, HandleMembershipRevoked, Received, Reroute, Reverse, Candidates, LockAvailability,
         ListInstances, SignalActive, CommitRecency, LockReversal, SettleOne, Commit, RollBack, VacateAssignments,
         MarkProcessed, WriteStatus, CallRead, CallReassign, CallCancel, CallCreate, CallPause, CallEnd, ReadClaim, SetLead, vars
     <3>3. \A d \in Delivery : about[d].at \in Nat /\ about[d].status \in {"available", "busy", "ooo", None}
        BY <1>t DEF EventsOK, Content
     <3> QED
        BY <1>t, <3>1, <3>2, <3>3 DEF RestOK
   <2>2. faults' \in 0..MaxFaults
     <3>0. ASSUME NEW d \in Delivery, Handle(d) \/ Fail(d) PROVE NoFault \/ Fault
       <4>1. CASE \/ HandleDelegationStarted(d) \/ HandleDelegationEnded(d) \/ HandleUserAvailabilityChanged(d)
                  \/ HandleUserDeleted(d) \/ HandleMembershipRevoked(d)
          BY <4>1 DEF HandleDelegationStarted, HandleDelegationEnded, HandleUserAvailabilityChanged,
             HandleUserDeleted, HandleMembershipRevoked, Received
       <4>2. CASE Reroute(d) \/ Reverse(d)
          BY <4>2 DEF Reroute, Reverse, Candidates
       <4>3. CASE SignalActive(d) \/ CommitRecency(d) \/ MarkProcessed(d) \/ Fail(d)
          BY <4>3 DEF SignalActive, CommitRecency, MarkProcessed, Fail
       <4>4. CASE LockAvailability(d) \/ Record(d) \/ ListInstances(d) \/ LockReversal(d) \/ SettleOne(d)
          BY <4>4 DEF LockAvailability, Record, ListInstances, LockReversal, SettleOne, NoFault
       <4>5. CASE Commit(d) \/ RollBack(d) \/ VacateAssignments(d)
          BY <4>5 DEF Commit, RollBack, VacateAssignments, NoFault
       <4> QED
          BY <3>0, <4>1, <4>2, <4>3, <4>4, <4>5 DEF Handle
     <3>1. NoFault \/ Fault
       <4>1. CASE CallStep
          BY <4>1 DEF CallStep, CallRead, CallReassign, CallCancel, CallCreate, CallPause, CallEnd, ReadClaim, SetLead, NoFault
       <4>2. ASSUME NEW i \in Inst, WriteStatus(i) PROVE NoFault
          BY <4>2 DEF WriteStatus, NoFault
       <4>3. CASE UNCHANGED vars
          BY <4>3 DEF vars, NoFault
       <4> QED
          BY <3>0, <4>1, <4>2, <4>3 DEF Next
     <3> QED
        BY <1>t, <3>1, ScenarioAssumption DEF RestOK, Fault, NoFault
   <2>3. unsignalled' \subseteq Inst
     <3>1. ASSUME NEW d \in Delivery, SignalActive(d) PROVE \E i \in delivery[d].todo : unsignalled' \subseteq unsignalled \cup {i}
        BY <3>1 DEF SignalActive
     <3>2. ASSUME ~(\E d \in Delivery : SignalActive(d)) PROVE unsignalled' = unsignalled
       <4>1. ASSUME NEW d \in Delivery, Handle(d) \/ Fail(d) PROVE unsignalled' = unsignalled
          BY <3>2, <4>1 DEF Handle, Fail, HandleDelegationStarted, HandleDelegationEnded,
             HandleUserAvailabilityChanged, HandleUserDeleted, HandleMembershipRevoked, Received, Reroute,
             Reverse, Candidates, LockAvailability, Record, ListInstances, CommitRecency, LockReversal,
             SettleOne, Commit, RollBack, VacateAssignments, MarkProcessed, history
       <4>2. CASE CallStep \/ \E i \in Inst : WriteStatus(i)
          BY <3>2, <4>2 DEF CallStep, WriteStatus, CallRead, CallReassign, CallCancel, CallCreate, CallPause,
             CallEnd, ReadClaim, SetLead, history
       <4>3. CASE UNCHANGED vars
          BY <4>3 DEF vars, history
       <4> QED
          BY <4>1, <4>2, <4>3 DEF Next
     <3>3. \A d \in Delivery : delivery[d].todo \subseteq Inst
        BY <1>t DEF EventsOK, Deliveries
     <3> QED
        BY <1>t, <3>1, <3>2, <3>3 DEF RestOK
   <2>4. unseen' \subseteq Inst
     <3>1. ASSUME NEW d \in Delivery, LockReversal(d) PROVE unseen' \subseteq unseen \cup InstancesOf(delivery[d].list)
        BY <3>1 DEF LockReversal
     <3>2. ASSUME ~(\E d \in Delivery : LockReversal(d)) PROVE unseen' = unseen
        BY <3>2 DEF Next, CallStep, Handle, Fail, HandleDelegationStarted, HandleDelegationEnded,
           HandleUserAvailabilityChanged,
         HandleUserDeleted, HandleMembershipRevoked, Received, Reroute, Reverse, Candidates, LockAvailability, Record,
         ListInstances, SignalActive, CommitRecency, SettleOne, Commit, RollBack, VacateAssignments,
         MarkProcessed, WriteStatus, CallRead, CallReassign, CallCancel, CallCreate, CallPause, CallEnd, ReadClaim, SetLead, vars, history
     <3>3. \A d \in Delivery : InstancesOf(delivery[d].list) \subseteq Inst
        BY <1>t, InstancesAre DEF EventsOK, Deliveries
     <3> QED
        BY <1>t, <3>1, <3>2, <3>3 DEF RestOK
   <2>5. late' \in BOOLEAN
     <3>1. ASSUME NEW d \in Delivery, Commit(d) PROVE late' \in BOOLEAN
        BY <1>t, <3>1 DEF Commit, RestOK
     <3>2. ASSUME ~(\E d \in Delivery : Commit(d)) PROVE late' = late
       <4>1. ASSUME NEW d \in Delivery, Handle(d) \/ Fail(d) PROVE late' = late
          BY <3>2, <4>1 DEF Handle, Fail, HandleDelegationStarted, HandleDelegationEnded,
             HandleUserAvailabilityChanged, HandleUserDeleted, HandleMembershipRevoked, Received, Reroute,
             Reverse, Candidates, LockAvailability, Record, ListInstances, SignalActive, CommitRecency,
             LockReversal, SettleOne, RollBack, VacateAssignments, MarkProcessed, history
       <4>2. CASE CallStep \/ \E i \in Inst : WriteStatus(i)
          BY <3>2, <4>2 DEF CallStep, WriteStatus, CallRead, CallReassign, CallCancel, CallCreate, CallPause,
             CallEnd, ReadClaim, SetLead, history
       <4>3. CASE UNCHANGED vars
          BY <4>3 DEF vars, history
       <4> QED
          BY <4>1, <4>2, <4>3 DEF Next
     <3> QED
        BY <1>t, <3>1, <3>2 DEF RestOK
   <2>6. skipped' \subseteq Task
     <3>1. ASSUME NEW d \in Delivery, Reroute(d) \/ Reverse(d) PROVE skipped' \subseteq Task
        BY <3>1, ReadMoves DEF Reads
     <3>2. ASSUME ~(\E d \in Delivery : Reroute(d) \/ Reverse(d)) PROVE skipped' = skipped
        BY <3>2 DEF Next, CallStep, Handle, Fail, HandleDelegationStarted, HandleDelegationEnded,
           HandleUserAvailabilityChanged,
         HandleUserDeleted, HandleMembershipRevoked, Received, LockAvailability, Record,
         ListInstances, SignalActive, CommitRecency, LockReversal, SettleOne, Commit, RollBack, VacateAssignments,
         MarkProcessed, WriteStatus, CallRead, CallReassign, CallCancel, CallCreate, CallPause, CallEnd, ReadClaim, SetLead, vars, history
     <3> QED
        BY <1>t, <3>1, <3>2 DEF RestOK
   <2>7. unheld' \subseteq Task
     <3>1. ASSUME NEW d \in Delivery, VacateAssignments(d) PROVE unheld' = unheld \cup {x.task : x \in ActiveRows(about[d].user)}
        BY <3>1 DEF VacateAssignments
     <3>2. CASE CallReassign \/ CallCancel \/ CallCreate
       <4>1. \A x \in call.list : x.task \in Task
          BY DEF TypeOK, CallOK, Entry
       <4>2. call.cur # None => call.cur.task \in Task
          BY DEF TypeOK, CallOK, Entry
       <4>3. unheld' = unheld \/ (\E x \in call.list : unheld' = unheld \cup {x.task})
             \/ (call.cur # None /\ unheld' = unheld \cup {call.cur.task})
          BY <3>2 DEF CallReassign, CallCancel, CallCreate, Passed
       <4> QED
          BY <1>t, <4>1, <4>2, <4>3 DEF RestOK
     <3>3. ASSUME ~(\E d \in Delivery : VacateAssignments(d)), ~(CallReassign \/ CallCancel \/ CallCreate) PROVE unheld' = unheld
       <4>1. ASSUME NEW d \in Delivery, Handle(d) \/ Fail(d) PROVE unheld' = unheld
          BY <3>3, <4>1 DEF Handle, Fail, HandleDelegationStarted, HandleDelegationEnded,
             HandleUserAvailabilityChanged, HandleUserDeleted, HandleMembershipRevoked, Received, Reroute,
             Reverse, Candidates, LockAvailability, Record, ListInstances, SignalActive, CommitRecency,
             LockReversal, SettleOne, Commit, RollBack, MarkProcessed, history
       <4>2. CASE CallStep \/ \E i \in Inst : WriteStatus(i)
          BY <3>3, <4>2 DEF CallStep, WriteStatus, CallRead, CallPause, CallEnd, ReadClaim, SetLead, history
       <4>3. CASE UNCHANGED vars
          BY <4>3 DEF vars, history
       <4> QED
          BY <4>1, <4>2, <4>3 DEF Next
     <3>4. \A u : {x.task : x \in ActiveRows(u)} \subseteq Task
        BY ActiveAreEntries DEF Entry
     <3> QED
        BY <1>t, <3>1, <3>2, <3>3, <3>4 DEF RestOK
   <2> QED
      BY <2>1, <2>2, <2>3, <2>4, <2>5, <2>6, <2>7 DEF RestOK
 <1> QED
    BY <1>1, <1>2, <1>3, <1>4, ClaimTypes DEF TypeOK

(***************************************************************************)
(* What a step of somebody else leaves alone.                              *)
(***************************************************************************)
Acts(d) == Handle(d) \/ Fail(d)

\* An event does not change.
LEMMA AboutKept ==
    ASSUME [Next]_vars
    PROVE  UNCHANGED about
 <1>1. ASSUME NEW d \in Delivery, Acts(d) PROVE UNCHANGED about
    BY <1>1 DEF Acts, Handle, Fail, HandleDelegationStarted, HandleDelegationEnded,
       HandleUserAvailabilityChanged,
       HandleUserDeleted, HandleMembershipRevoked, Received, Reroute, Reverse, Candidates, LockAvailability, Record,
       ListInstances, SignalActive, CommitRecency, LockReversal, SettleOne, Commit, RollBack, VacateAssignments,
       MarkProcessed
 <1>2. CASE CallStep \/ \E i \in Inst : WriteStatus(i)
    BY <1>2 DEF CallStep, CallRead, CallReassign, CallCancel, CallCreate, CallPause, CallEnd, ReadClaim, SetLead, WriteStatus,
       eventvars
 <1>3. CASE UNCHANGED vars
    BY <1>3 DEF vars, eventvars
 <1> QED
    BY <1>1, <1>2, <1>3 DEF Next, Acts

\* A delivery is moved by its own handler only.
LEMMA OthersKeep ==
    ASSUME TypeOK, [Next]_vars, NEW d \in Delivery, ~Acts(d)
    PROVE  delivery'[d] = delivery[d]
 <1>t. delivery \in [Delivery -> Deliveries]
    BY DEF TypeOK, EventsOK
 <1>1. ASSUME NEW e \in Delivery \ {d}, Acts(e) PROVE delivery'[d] = delivery[d]
   <2>1. CASE \/ HandleDelegationStarted(e) \/ HandleDelegationEnded(e) \/ HandleUserAvailabilityChanged(e)
              \/ HandleUserDeleted(e) \/ HandleMembershipRevoked(e) \/ LockAvailability(e) \/ Record(e) \/ CommitRecency(e)
     <3>1. \E p : At(e, p)
        BY <2>1 DEF HandleDelegationStarted, HandleDelegationEnded, HandleUserAvailabilityChanged,
           HandleUserDeleted, HandleMembershipRevoked, Received, LockAvailability, Record, CommitRecency
     <3> QED
        BY <1>t, <3>1 DEF At
   <2>2. CASE Reroute(e) \/ Reverse(e)
      BY <2>2, ReadMoves DEF Reads, Sets
   <2>3. CASE ListInstances(e) \/ SignalActive(e) \/ LockReversal(e) \/ SettleOne(e)
      BY <1>t, <2>3 DEF ListInstances, SignalActive, LockReversal, SettleOne
   <2>4. CASE Commit(e) \/ RollBack(e) \/ VacateAssignments(e) \/ MarkProcessed(e) \/ Fail(e)
     <3>1. \E p : AtFresh(e, p)
        BY <2>4 DEF Commit, RollBack, VacateAssignments, MarkProcessed, Fail
     <3> QED
        BY <1>t, <3>1 DEF AtFresh
   <2> QED
      BY <1>1, <2>1, <2>2, <2>3, <2>4 DEF Acts, Handle
 <1>2. CASE CallStep \/ \E i \in Inst : WriteStatus(i)
    BY <1>2 DEF CallStep, CallRead, CallReassign, CallCancel, CallCreate, CallPause, CallEnd, ReadClaim, SetLead, WriteStatus,
       eventvars
 <1>3. CASE UNCHANGED vars
    BY <1>3 DEF vars, eventvars
 <1> QED
    BY <1>1, <1>2, <1>3 DEF Next, Acts

\* A pause is left alone, or comes from the safety net.
Nudged(i) == inst'[i].paused = inst[i].paused \/ (inst[i].paused = None /\ inst'[i].paused = "safety_net")

\* Only the signals of an absence and of a reversal set or lift an out-of-office pause.
LEMMA PauseStep ==
    ASSUME TypeOK, [Next]_vars, ~(\E d \in Delivery : SignalActive(d) \/ SettleOne(d))
    PROVE  \A i \in Inst : Nudged(i)
 <1>t. inst \in [Inst -> [paused : {None, "ooo", "safety_net"}, status : {"RUNNING", "PAUSED"}]]
    BY DEF TypeOK, InstOK
 <1>1. CASE UNCHANGED inst
    BY <1>1 DEF Nudged
 <1>2. ASSUME NEW i \in Inst, WriteStatus(i) PROVE \A j \in Inst : Nudged(j)
    BY <1>2, <1>t DEF WriteStatus, Nudged
 <1>3. CASE CallPause
   <2>1. PICK i \in InstancesOf(call.list) : inst' = Signalled(i, "pause", "safety_net") \/ UNCHANGED inst
      BY <1>3 DEF CallPause
   <2>2. i \in Inst
      BY InstancesAre DEF TypeOK, CallOK
   <2> QED
      BY <1>1, <1>t, <2>1, <2>2 DEF Signalled, Nudged
 <1>4. ASSUME NEW d \in Delivery, Acts(d) PROVE UNCHANGED inst
    BY <1>4 DEF Acts, Handle, Fail, HandleDelegationStarted, HandleDelegationEnded,
       HandleUserAvailabilityChanged,
       HandleUserDeleted, HandleMembershipRevoked, Received, Reroute, Reverse, Candidates, LockAvailability, Record,
       ListInstances, CommitRecency, LockReversal, Commit, RollBack, VacateAssignments, MarkProcessed
 <1>5. CASE \/ CallRead \/ CallReassign \/ CallCancel \/ CallCreate \/ CallEnd
            \/ \E t \in Joint : ReadClaim(t) \/ SetLead(t)
    BY <1>1, <1>5 DEF CallRead, CallReassign, CallCancel, CallCreate, CallEnd, ReadClaim, SetLead
 <1>6. CASE UNCHANGED vars
    BY <1>1, <1>6 DEF vars
 <1> QED
    BY <1>1, <1>2, <1>3, <1>4, <1>5, <1>6 DEF Next, Acts, CallStep

\* What a signal with the initiator ooo does to the pauses.
LEMMA SignalledPauses ==
    ASSUME TypeOK, NEW i \in Inst, NEW v \in {None, "pause", "resume"}, inst' = Signalled(i, v, "ooo")
    PROVE  /\ \A j \in Inst \ {i} : inst'[j].paused = inst[j].paused
           /\ v = "pause" => inst'[i].paused = IF inst[i].paused = None THEN "ooo" ELSE inst[i].paused
           /\ v # "pause" => inst'[i].paused = IF inst[i].paused = "ooo" THEN None ELSE inst[i].paused
 <1>t. inst \in [Inst -> [paused : {None, "ooo", "safety_net"}, status : {"RUNNING", "PAUSED"}]]
    BY DEF TypeOK, InstOK
 <1> QED
    BY <1>t DEF Signalled

\* Only Record writes the availability.
LEMMA AvailStep ==
    ASSUME [Next]_vars, ~(\E d \in Delivery : Record(d))
    PROVE  UNCHANGED avail
 <1>1. ASSUME NEW d \in Delivery, Acts(d) PROVE UNCHANGED avail
    BY <1>1 DEF Acts, Handle, Fail, HandleDelegationStarted, HandleDelegationEnded,
       HandleUserAvailabilityChanged,
       HandleUserDeleted, HandleMembershipRevoked, Received, Reroute, Reverse, Candidates, LockAvailability,
       ListInstances, SignalActive, CommitRecency, LockReversal, SettleOne, Commit, RollBack, VacateAssignments,
       MarkProcessed
 <1>2. CASE CallStep \/ \E i \in Inst : WriteStatus(i)
    BY <1>2 DEF CallStep, CallRead, CallReassign, CallCancel, CallCreate, CallPause, CallEnd, ReadClaim, SetLead, WriteStatus
 <1>3. CASE UNCHANGED vars
    BY <1>3 DEF vars
 <1> QED
    BY <1>1, <1>2, <1>3 DEF Next, Acts

\* What was lost, skipped or late stays so.
LEMMA HistoryStep ==
    ASSUME TypeOK, [Next]_vars
    PROVE  unsignalled \subseteq unsignalled' /\ unseen \subseteq unseen' /\ (late => late') /\ skipped \subseteq skipped'
 <1> DEFINE Goal == unsignalled \subseteq unsignalled' /\ unseen \subseteq unseen' /\ (late => late') /\ skipped \subseteq skipped'
 <1>1. ASSUME NEW d \in Delivery, Reroute(d) \/ Reverse(d) PROVE Goal
    BY <1>1, ReadMoves DEF Reads
 <1>2. ASSUME NEW d \in Delivery, SignalActive(d) \/ LockReversal(d) \/ Commit(d) PROVE Goal
   <2>1. CASE SignalActive(d)
      BY <2>1 DEF SignalActive
   <2>2. CASE LockReversal(d)
      BY <2>2 DEF LockReversal
   <2>3. CASE Commit(d)
     <3>1. UNCHANGED <<unsignalled, unseen, skipped>>
        BY <2>3 DEF Commit
     <3>2. late => late'
        BY <2>3 DEF Commit
     <3> QED
        BY <3>1, <3>2
   <2> QED
      BY <1>2, <2>1, <2>2, <2>3
 <1>3. ASSUME NEW d \in Delivery, Acts(d), ~(Reroute(d) \/ Reverse(d) \/ SignalActive(d) \/ LockReversal(d) \/ Commit(d)) PROVE Goal
    BY <1>3 DEF Acts, Handle, Fail, HandleDelegationStarted, HandleDelegationEnded,
       HandleUserAvailabilityChanged,
       HandleUserDeleted, HandleMembershipRevoked, Received, LockAvailability, Record,
       ListInstances, CommitRecency, SettleOne, RollBack, VacateAssignments, MarkProcessed, history
 <1>4. CASE CallStep \/ \E i \in Inst : WriteStatus(i)
   <2>1. UNCHANGED <<unsignalled, unseen, late, skipped>>
      BY <1>4 DEF CallStep, CallRead, CallReassign, CallCancel, CallCreate, CallPause, CallEnd, ReadClaim, SetLead,
         WriteStatus, history
   <2> QED
      BY <2>1
 <1>5. CASE UNCHANGED vars
    BY <1>5 DEF vars, history
 <1> QED
    BY <1>1, <1>2, <1>3, <1>4, <1>5 DEF Next, Acts

\* While a delivery has the lock and does not act itself, nobody records an
\* absence, signals for one or settles.
LEMMA LockExcludes ==
    ASSUME TypeOK, Locked, [Next]_vars, NEW d \in Delivery, delivery[d].pc \in Critical, NEW e \in Delivery \ {d}
    PROVE  ~(Record(e) \/ SignalActive(e) \/ SettleOne(e) \/ LockReversal(e) \/ LockAvailability(e) \/ CommitRecency(e)
             \/ (AtCommit(e) /\ about[e].kind # "started"))
 <1>1. lock = d /\ d # None /\ (lock = e <=> delivery[e].pc \in Critical) /\ KindAt(e, delivery[e].pc)
    BY NoneAssumption DEF Locked
 <1>2. delivery[e].pc \notin Critical
    BY <1>1
 <1>3. ~(Record(e) \/ SignalActive(e) \/ SettleOne(e) \/ CommitRecency(e))
    BY <1>2 DEF Record, SignalActive, SettleOne, CommitRecency, Critical
 <1>4. ~(LockReversal(e) \/ LockAvailability(e))
    BY <1>1 DEF LockReversal, LockAvailability
 <1>5. ~(AtCommit(e) /\ about[e].kind # "started")
    BY <1>1, <1>2 DEF AtCommit, Critical, KindAt
 <1> QED
    BY <1>3, <1>4, <1>5

\* So the absence on record stays, and no pause is lifted.
LEMMA LockKeeps ==
    ASSUME TypeOK, Locked, [Next]_vars, NEW d \in Delivery, delivery[d].pc \in Critical, ~Acts(d)
    PROVE  delivery'[d] = delivery[d] /\ UNCHANGED avail /\ \A i \in Inst : Nudged(i)
 <1>1. ~(\E e \in Delivery : Record(e) \/ SignalActive(e) \/ SettleOne(e))
    BY LockExcludes DEF Acts, Handle
 <1> QED
    BY <1>1, OthersKeep, PauseStep, AvailStep

\* The delegator gets work by the commit of a reversal only.
LEMMA DelegatorGets ==
    ASSUME TypeOK, ListsRead, [Next]_vars, NEW t \in Task, Holds(Delegator, t)', ~Holds(Delegator, t)
    PROVE  \E d \in Delivery : Commit(d) /\ about[d].kind # "started" /\ \E x \in delivery[d].list : x.task = t
 <1>1. TableStep(t)
    BY TablesStep
 <1>2. PICK k \in DOMAIN rows'[t] : rows'[t][k].active /\ rows'[t][k].user = Delegator
    BY DEF Holds
 <1>3. Keeps(rows[t], rows'[t])
    BY RowsKept
 <1>4. k \notin DOMAIN rows[t]
    BY <1>2, <1>3 DEF Keeps, Holds
 <1>5. CASE Moved(t)
   <2>1. PICK d \in Delivery : MovedBy(d, t)
      BY <1>5 DEF Moved
   <2>2. PICK x \in delivery[d].list : Commit(d) /\ x.task = t /\ Table(rows[t], rows'[t], {x.row}, {NewRow(d, x)})
      BY <2>1 DEF MovedBy
   <2>3. rows'[t][k] = NewRow(d, x)
      BY <1>2, <1>4, <2>2 DEF Table
   <2>4. NewRow(d, x).user = NewAssignee(d)
      BY DEF NewRow
   <2>5. about[d].kind # "started"
      BY <1>2, <2>3, <2>4 DEF NewAssignee, Delegator, Delegate
   <2> QED
      BY <2>2, <2>5
 <1>6. CASE Added(t)
   <2>1. rows'[t][k] = Replacement(call.cur)
      BY <1>2, <1>4, <1>6 DEF Added, Table
   <2> QED
      BY <1>2, <2>1 DEF Replacement, Delegator
 <1>7. CASE Emptied(t) \/ Dropped(t) \/ Left(t)
    BY <1>2, <1>4, <1>7 DEF Emptied, Dropped, Left, Table
 <1> QED
    BY <1>1, <1>5, <1>6, <1>7 DEF TableStep

(***************************************************************************)
(* How a delivery comes to where it is.                                    *)
(***************************************************************************)
Starts(d) ==
    \/ HandleDelegationStarted(d) \/ HandleDelegationEnded(d) \/ HandleUserAvailabilityChanged(d)
    \/ HandleUserDeleted(d) \/ HandleMembershipRevoked(d)
Arrives(d, p) ==
    /\ p = "locking" => about[d].kind = "availability" \/ Reverse(d)
    /\ p = "settle" => LockReversal(d) \/ SettleOne(d)
    /\ p \in {"list", "recency"} => Record(d)
    /\ p = "signal" => ListInstances(d) \/ SignalActive(d)
    /\ p = "vacate" => about[d].kind \in {"deleted", "revoked"}
    /\ p = "mark" => \/ Reroute(d) \/ Reverse(d) \/ LockAvailability(d) \/ CommitRecency(d) \/ Commit(d)
                     \/ VacateAssignments(d)
    /\ p = "done" => (Starts(d) /\ about[d].id \in processed) \/ MarkProcessed(d)

\* Where a delivery is says which step brought it there.
LEMMA Arrive ==
    ASSUME TypeOK, NEW d \in Delivery, Acts(d)
    PROVE  Arrives(d, delivery'[d].pc)
 <1>t. EventsOK
    BY DEF TypeOK
 <1> DEFINE p == delivery'[d].pc
 <1>at. \A q \in Places : At(d, q) => p = q
    BY <1>t, AtMoves DEF MovesTo, Sets
 <1>fr. \A q \in Places : AtFresh(d, q) => p = q
    BY <1>t, FreshMoves DEF Fresh, Sets
 <1>p. {"queued", "read", "locking", "vacate", "mark", "done", "record", "recency", "list"} \subseteq Places
    BY DEF Places
 <1>1. CASE HandleDelegationStarted(d) \/ HandleDelegationEnded(d)
   <2>1. At(d, "read") \/ (At(d, "done") /\ about[d].id \in processed)
      BY <1>1 DEF HandleDelegationStarted, HandleDelegationEnded, Received
   <2>2. p = "read" \/ (p = "done" /\ about[d].id \in processed)
      BY <1>at, <1>p, <2>1
   <2> QED
      BY <1>1, <2>2 DEF Arrives, Starts
 <1>2. CASE HandleUserAvailabilityChanged(d)
   <2>1. (At(d, "locking") \/ (At(d, "done") /\ about[d].id \in processed)) /\ about[d].kind = "availability"
      BY <1>2 DEF HandleUserAvailabilityChanged, Received
   <2>2. p = "locking" \/ (p = "done" /\ about[d].id \in processed)
      BY <1>at, <1>p, <2>1
   <2> QED
      BY <1>2, <2>1, <2>2 DEF Arrives, Starts
 <1>3. CASE HandleUserDeleted(d) \/ HandleMembershipRevoked(d)
   <2>1. (At(d, "vacate") \/ (At(d, "done") /\ about[d].id \in processed)) /\ about[d].kind \in {"deleted", "revoked"}
      BY <1>3 DEF HandleUserDeleted, HandleMembershipRevoked, Received
   <2>2. p = "vacate" \/ (p = "done" /\ about[d].id \in processed)
      BY <1>at, <1>p, <2>1
   <2> QED
      BY <1>3, <2>1, <2>2 DEF Arrives, Starts
 <1>4. CASE Reroute(d) \/ Reverse(d)
   <2>1. Reads(d)
      BY <1>4, ReadMoves
   <2>2. PICK l \in SUBSET Sought(d) : Sets(d, AfterRead(d, l), l, delivery[d].todo, delivery[d].verb)
      BY <2>1 DEF Reads
   <2>3. p \in {"mark", "commit"} \/ (p = "locking" /\ about[d].kind # "started")
      BY <2>2 DEF Sets, AfterRead
   <2>4. p = "locking" => Reverse(d)
      BY <1>4, <2>3 DEF Reroute
   <2> QED
      BY <1>4, <2>3, <2>4 DEF Arrives
 <1>5. CASE LockAvailability(d)
   <2>1. p \in {"mark", "record"}
      BY <1>at, <1>p, <1>5 DEF LockAvailability
   <2> QED
      BY <1>5, <2>1 DEF Arrives
 <1>6. CASE Record(d)
   <2>1. At(d, "recency") \/ At(d, "list")
      BY <1>6 DEF Record
   <2>2. p \in {"recency", "list"}
      BY <1>at, <1>p, <2>1
   <2> QED
      BY <1>6, <2>2 DEF Arrives
 <1>7. CASE ListInstances(d) \/ LockReversal(d)
   <2>1. CASE ListInstances(d)
     <3>1. p = "signal"
        BY <2>1, ListMoves DEF Sets
     <3> QED
        BY <2>1, <3>1 DEF Arrives
   <2>2. CASE LockReversal(d)
     <3>1. p = "settle"
        BY <2>2, ReversalMoves DEF Sets
     <3> QED
        BY <2>2, <3>1 DEF Arrives
   <2> QED
      BY <1>7, <2>1, <2>2
 <1>8. CASE SignalActive(d) \/ SettleOne(d)
   <2>1. PICK i : delivery' = [delivery EXCEPT ![d].todo = @ \ {i}]
      BY <1>8 DEF SignalActive, SettleOne
   <2>2. p = delivery[d].pc
      BY <2>1, LessMoves DEF Sets
   <2>3. (SignalActive(d) /\ p = "signal") \/ (SettleOne(d) /\ p = "settle")
      BY <1>8, <2>2 DEF SignalActive, SettleOne
   <2> QED
      BY <2>3 DEF Arrives
 <1>9. CASE CommitRecency(d)
   <2>1. p = "mark"
      BY <1>at, <1>p, <1>9 DEF CommitRecency
   <2> QED
      BY <1>9, <2>1 DEF Arrives
 <1>10. CASE Commit(d) \/ VacateAssignments(d)
   <2>1. p = "mark"
      BY <1>fr, <1>p, <1>10 DEF Commit, VacateAssignments
   <2> QED
      BY <1>10, <2>1 DEF Arrives
 <1>11. CASE RollBack(d) \/ Fail(d)
   <2>1. p = "queued"
      BY <1>fr, <1>p, <1>11 DEF RollBack, Fail
   <2> QED
      BY <2>1 DEF Arrives
 <1>12. CASE MarkProcessed(d)
   <2>1. p = "done"
      BY <1>fr, <1>p, <1>12 DEF MarkProcessed
   <2> QED
      BY <1>12, <2>1 DEF Arrives
 <1> QED
    BY <1>1, <1>2, <1>3, <1>4, <1>5, <1>6, <1>7, <1>8, <1>9, <1>10, <1>11, <1>12 DEF Acts, Handle

(***************************************************************************)
(* What is known of the events.                                            *)
(***************************************************************************)
SameEvents ==
    \A d, e \in Delivery :
      /\ about[d].id = about[e].id => about[d] = about[e]
      /\ about[d].kind = "availability" =>
           /\ about[d].at > 0
           /\ about[e].kind = "availability" /\ about[d].at = about[e].at
              => about[d].status = about[e].status /\ about[d].delegate = about[e].delegate
VacateKind == \A d \in Delivery : delivery[d].pc = "vacate" => about[d].kind \in {"deleted", "revoked"}
\* An event is recorded as processed by a delivery that is done.
ProcessedDone == \A id \in processed : \E d \in Delivery : about[d].id = id /\ delivery[d].pc = "done"
\* The availability is the one of some event.
AvailOK ==
    avail.at # 0 =>
      \E d \in Delivery : about[d].kind = "availability" /\ about[d].at = avail.at /\ about[d].status = avail.status
EventInv == SameEvents /\ VacateKind /\ ProcessedDone /\ AvailOK

\* What is known of the events stays true.
LEMMA EventStep ==
    ASSUME TypeOK, Locked, EventInv, [Next]_vars
    PROVE  EventInv'
 <1>a. about' = about
    BY AboutKept
 <1>1. SameEvents'
    BY <1>a DEF EventInv, SameEvents
 <1>2. VacateKind'
   <2>1. ASSUME NEW d \in Delivery, delivery'[d].pc = "vacate" PROVE about'[d].kind \in {"deleted", "revoked"}
     <3>1. CASE Acts(d)
        BY <1>a, <2>1, <3>1, Arrive DEF Arrives
     <3>2. CASE ~Acts(d)
        BY <1>a, <2>1, <3>2, OthersKeep DEF EventInv, VacateKind
     <3> QED
        BY <3>1, <3>2
   <2> QED
      BY <2>1 DEF VacateKind
 <1>3. ProcessedDone'
   <2>1. ASSUME NEW d \in Delivery, delivery[d].pc = "done" PROVE delivery'[d] = delivery[d]
     <3>1. ~Acts(d)
        BY <2>1 DEF Acts, Handle, Fail, HandleDelegationStarted, HandleDelegationEnded,
           HandleUserAvailabilityChanged,
           HandleUserDeleted, HandleMembershipRevoked, Received, Reroute, Reverse, LockAvailability, Record,
           ListInstances, SignalActive, CommitRecency, LockReversal, SettleOne, Commit, RollBack, VacateAssignments,
           MarkProcessed, AtCommit
     <3> QED
        BY <3>1, OthersKeep
   <2>2. ASSUME NEW id \in processed PROVE \E d \in Delivery : about'[d].id = id /\ delivery'[d].pc = "done"
      BY <1>a, <2>1, <2>2 DEF EventInv, ProcessedDone
   <2>3. CASE processed' = processed
      BY <2>2, <2>3 DEF ProcessedDone
   <2>4. ASSUME NEW d \in Delivery, MarkProcessed(d) PROVE ProcessedDone'
     <3>1. processed' \subseteq processed \cup {about[d].id} /\ AtFresh(d, "done")
        BY <2>4 DEF MarkProcessed
     <3>2. delivery'[d].pc = "done"
        BY <3>1, FreshMoves DEF Fresh, Sets, TypeOK, Places
     <3> QED
        BY <1>a, <2>2, <3>1, <3>2 DEF ProcessedDone
   <2>5. ASSUME ~(\E d \in Delivery : MarkProcessed(d)) PROVE processed' = processed
     <3>1. ASSUME NEW d \in Delivery, Acts(d) PROVE processed' = processed
        BY <2>5, <3>1 DEF Acts, Handle, Fail, HandleDelegationStarted, HandleDelegationEnded,
           HandleUserAvailabilityChanged,
           HandleUserDeleted, HandleMembershipRevoked, Received, Reroute, Reverse, Candidates, LockAvailability, Record,
           ListInstances, SignalActive, CommitRecency, LockReversal, SettleOne, Commit, RollBack, VacateAssignments
     <3>2. CASE CallStep \/ \E i \in Inst : WriteStatus(i)
        BY <3>2 DEF CallStep, CallRead, CallReassign, CallCancel, CallCreate, CallPause, CallEnd, ReadClaim, SetLead,
           WriteStatus, eventvars
     <3>3. CASE UNCHANGED vars
        BY <3>3 DEF vars, eventvars
     <3> QED
        BY <3>1, <3>2, <3>3 DEF Next, Acts
   <2> QED
      BY <2>3, <2>4, <2>5
 <1>4. AvailOK'
   <2>1. ASSUME NEW d \in Delivery, Record(d) PROVE AvailOK'
     <3>1. avail' = avail \/ avail' = [status |-> about[d].status, at |-> about[d].at]
        BY <2>1 DEF Record
     <3>2. about[d].kind = "availability"
        BY <2>1 DEF Record, Locked, KindAt
     <3>3. CASE avail' = avail
        BY <1>a, <3>3 DEF EventInv, AvailOK
     <3>4. CASE avail' = [status |-> about[d].status, at |-> about[d].at]
        BY <1>a, <3>2, <3>4 DEF AvailOK
     <3> QED
        BY <3>1, <3>3, <3>4
   <2>2. CASE UNCHANGED avail
      BY <1>a, <2>2 DEF EventInv, AvailOK
   <2> QED
      BY <2>1, <2>2, AvailStep
 <1> QED
    BY <1>1, <1>2, <1>3, <1>4 DEF EventInv

(***************************************************************************)
(* A reversal under way.                                                   *)
(***************************************************************************)
\* The instance is as the absence wants it, by the record of now.
Back(i) == IF avail.status = "ooo" THEN inst[i].paused # None ELSE inst[i].paused = "ooo" => i \in unseen
ReversalAt(d) ==
    delivery[d].pc = "settle" =>
      /\ avail.status = "ooo" /\ ~about[d].reassigned => delivery[d].verb = "pause"
      /\ avail.status = "ooo" /\ about[d].reassigned => delivery[d].todo = {}
      /\ avail.status # "ooo" => delivery[d].verb = "resume"
      /\ (avail.status = "ooo" => ~about[d].reassigned) =>
           \A i \in InstancesOf(delivery[d].list) \ delivery[d].todo : Back(i)
Reversing == \A d \in Delivery : ReversalAt(d)

\* The safety net disturbs no instance that agrees with the record.
LEMMA BackStays ==
    ASSUME TypeOK, NEW i \in Inst, Back(i), Nudged(i), UNCHANGED avail, unseen \subseteq unseen'
    PROVE  Back(i)'
    BY NoneAssumption DEF Back, Nudged

\* A signal that agrees with the record of now brings the instance in line and
\* leaves the others as they are.
LEMMA BackSignalled ==
    ASSUME TypeOK, NEW i \in Inst, NEW v \in {None, "pause", "resume"}, inst' = Signalled(i, v, "ooo"), UNCHANGED avail,
           unseen \subseteq unseen', avail.status = "ooo" => v = "pause", avail.status # "ooo" => v = "resume"
    PROVE  Back(i)' /\ \A j \in Inst : Back(j) => Back(j)'
 <1>1. /\ \A j \in Inst \ {i} : inst'[j].paused = inst[j].paused
       /\ v = "pause" => inst'[i].paused = IF inst[i].paused = None THEN "ooo" ELSE inst[i].paused
       /\ v # "pause" => inst'[i].paused = IF inst[i].paused = "ooo" THEN None ELSE inst[i].paused
    BY SignalledPauses
 <1>2. Back(i)'
    BY <1>1, NoneAssumption DEF Back
 <1>3. ASSUME NEW j \in Inst \ {i}, Back(j) PROVE Back(j)'
    BY <1>1, <1>3 DEF Back
 <1> QED
    BY <1>2, <1>3

\* What a reversal has settled agrees with the record until it commits.
LEMMA ReversingStep ==
    ASSUME TypeOK, Locked, Reversing, [Next]_vars
    PROVE  Reversing'
 <1> SUFFICES ASSUME NEW d \in Delivery, delivery'[d].pc = "settle" PROVE ReversalAt(d)'
    BY DEF Reversing, ReversalAt
 <1>a. about' = about /\ unseen \subseteq unseen'
    BY AboutKept, HistoryStep
 <1>t. delivery[d] \in Deliveries /\ InstancesOf(delivery[d].list) \subseteq Inst
    BY InstancesAre DEF TypeOK, EventsOK, Deliveries
 <1>1. CASE ~Acts(d)
   <2>1. delivery'[d] = delivery[d]
      BY <1>1, OthersKeep
   <2>2. delivery[d].pc \in Critical
      BY <2>1 DEF Critical
   <2>3. UNCHANGED avail /\ \A i \in Inst : Nudged(i)
      BY <1>1, <2>2, LockKeeps
   <2>4. \A i \in Inst : Back(i) => Back(i)'
      BY <1>a, <2>3, BackStays
   <2>5. InstancesOf(delivery'[d].list) = InstancesOf(delivery[d].list)
      BY <2>1
   <2>6. ReversalAt(d)
      BY DEF Reversing
   <2> QED
      BY <1>a, <1>t, <2>1, <2>3, <2>4, <2>5, <2>6 DEF ReversalAt, InstancesOf
 <1>2. CASE SettleOne(d)
   <2>1. PICK i \in delivery[d].todo : /\ inst' = Signalled(i, delivery[d].verb, "ooo")
                                       /\ delivery' = [delivery EXCEPT ![d].todo = @ \ {i}]
      BY <1>2 DEF SettleOne
   <2>2. i \in Inst /\ delivery[d].verb \in {None, "pause", "resume"}
      BY <1>t DEF Deliveries
   <2>3. Sets(d, delivery[d].pc, delivery[d].list, delivery[d].todo \ {i}, delivery[d].verb)
      BY <2>1, LessMoves
   <2>4. delivery[d].pc = "settle" /\ UNCHANGED avail
      BY <1>2 DEF SettleOne
   <2>5. /\ avail.status = "ooo" /\ ~about[d].reassigned => delivery[d].verb = "pause"
         /\ avail.status = "ooo" /\ about[d].reassigned => delivery[d].todo = {}
         /\ avail.status # "ooo" => delivery[d].verb = "resume"
         /\ (avail.status = "ooo" => ~about[d].reassigned) =>
              \A j \in InstancesOf(delivery[d].list) \ delivery[d].todo : Back(j)
      BY <2>4 DEF Reversing, ReversalAt
   <2>6. Back(i)' /\ \A j \in Inst : Back(j) => Back(j)'
     <3>1. /\ avail.status = "ooo" => delivery[d].verb = "pause"
           /\ avail.status # "ooo" => delivery[d].verb = "resume"
        BY <2>5
     <3> QED
        BY <1>a, <2>1, <2>2, <2>4, <3>1, BackSignalled
   <2>7. /\ delivery'[d].list = delivery[d].list /\ delivery'[d].todo = delivery[d].todo \ {i}
         /\ delivery'[d].verb = delivery[d].verb
      BY <2>3 DEF Sets
   <2>8. ASSUME avail.status = "ooo" => ~about[d].reassigned,
                NEW j \in InstancesOf(delivery[d].list) \ delivery'[d].todo
         PROVE  Back(j)'
      BY <1>t, <2>5, <2>6, <2>7, <2>8
   <2> QED
      BY <1>a, <2>4, <2>5, <2>7, <2>8 DEF ReversalAt, InstancesOf
 <1>3. CASE LockReversal(d)
   <2>1. Sets(d, "settle", delivery[d].list, Settlement(d).todo, Settlement(d).verb)
      BY <1>3, ReversalMoves
   <2>2. /\ delivery'[d].list = delivery[d].list /\ delivery'[d].todo = Settlement(d).todo
         /\ delivery'[d].verb = Settlement(d).verb /\ UNCHANGED <<avail, inst>>
      BY <1>3, <2>1 DEF Sets, LockReversal
   <2>3. /\ avail.status = "ooo" /\ ~about[d].reassigned =>
                Settlement(d).verb = "pause" /\ Settlement(d).todo = InstancesOf(delivery[d].list)
         /\ avail.status = "ooo" /\ about[d].reassigned => Settlement(d).todo = {}
         /\ avail.status # "ooo" => Settlement(d).verb = "resume"
      BY SettlementIs
   <2>4. ASSUME avail.status = "ooo" => ~about[d].reassigned,
                NEW j \in InstancesOf(delivery[d].list) \ Settlement(d).todo
         PROVE  Back(j)'
     <3>1. avail.status # "ooo" /\ Settlement(d).verb = "resume"
        BY <2>3, <2>4
     <3>2. unseen' = unseen \cup {i \in InstancesOf(delivery[d].list) \ Settlement(d).todo : inst[i].paused = "ooo"}
        BY <1>3, <3>1 DEF LockReversal
     <3> QED
        BY <2>2, <2>4, <3>1, <3>2 DEF Back
   <2> QED
      BY <1>a, <2>2, <2>3, <2>4 DEF ReversalAt, InstancesOf
 <1> QED
    BY <1>1, <1>2, <1>3, Arrive DEF Arrives

(***************************************************************************)
(* An absence under way, and the last one applied.                         *)
(***************************************************************************)
Due(i)   == Back(i) \/ i \in unsignalled
Quiet(d) == about[d].status \in {None, "busy"} \/ (about[d].status = "ooo" /\ about[d].delegate)
Recorded(d) == avail = [status |-> about[d].status, at |-> about[d].at]
SignallingAt(d) ==
    /\ delivery[d].pc \in {"list", "signal"} => Recorded(d) /\ ~Quiet(d)
    /\ delivery[d].pc = "recency" => Quiet(d) \/ about[d].at < avail.at
    /\ delivery[d].pc = "signal" =>
         /\ delivery[d].verb = IF about[d].status = "ooo" THEN "pause" ELSE "resume"
         /\ \A i \in Active(Delegator) \ delivery[d].todo : Due(i)
Signalling == \A d \in Delivery : SignallingAt(d)

\* What the delegator holds are instances.
LEMMA ActiveAre ==
    Active(Delegator) \subseteq Inst /\ Active(Delegator)' \subseteq Inst
    BY ScenarioAssumption DEF Active

\* Listing by the active rows misses none of them.
LEMMA ActiveListed ==
    ASSUME TypeOK
    PROVE  Active(Delegator) \subseteq InstancesOf(ActiveRows(Delegator))
 <1> SUFFICES ASSUME NEW t \in Task, Holds(Delegator, t) PROVE InstOf[t] \in InstancesOf(ActiveRows(Delegator))
    BY DEF Active
 <1>1. PICK k \in DOMAIN rows[t] : rows[t][k].active /\ rows[t][k].user = Delegator
    BY DEF Holds
 <1> DEFINE x == [task |-> t, row |-> k]
 <1>2. x \in ActiveRows(Delegator) /\ x.task = t
    BY <1>1, ActiveAreEntries
 <1> QED
    BY <1>2 DEF InstancesOf

\* A new one comes from the commit of a reversal.
LEMMA ActiveGets ==
    ASSUME TypeOK, ListsRead, [Next]_vars, NEW i \in Active(Delegator)', i \notin Active(Delegator)
    PROVE  \E d \in Delivery : Commit(d) /\ about[d].kind # "started" /\ i \in InstancesOf(delivery[d].list)
 <1>1. PICK t \in Task : Holds(Delegator, t)' /\ i = InstOf[t]
    BY DEF Active
 <1>2. ~Holds(Delegator, t)
    BY <1>1 DEF Active
 <1> QED
    BY <1>1, <1>2, DelegatorGets DEF InstancesOf

\* A lost signal stays a lost signal.
LEMMA DueStays ==
    ASSUME TypeOK, [Next]_vars, UNCHANGED avail, NEW i \in Inst, Back(i) => Back(i)', Due(i)
    PROVE  Due(i)'
    BY HistoryStep DEF Due

\* A signal of an event that is the record of now.
LEMMA DueSignalled ==
    ASSUME TypeOK, Signalling, [Next]_vars, NEW d \in Delivery, SignalActive(d)
    PROVE  /\ \A j \in Inst : Due(j) => Due(j)'
           /\ \E i \in delivery[d].todo : /\ delivery' = [delivery EXCEPT ![d].todo = @ \ {i}]
                                          /\ i \in Inst /\ Due(i)'
 <1>t. delivery[d] \in Deliveries
    BY DEF TypeOK, EventsOK
 <1>1. PICK i \in delivery[d].todo :
         /\ delivery' = [delivery EXCEPT ![d].todo = @ \ {i}]
         /\ \/ inst' = Signalled(i, delivery[d].verb, "ooo")
            \/ UNCHANGED inst /\ unsignalled' = unsignalled \cup {i}
    BY DEF SignalActive
 <1>2. i \in Inst /\ UNCHANGED <<avail, unseen>>
    BY <1>t DEF Deliveries, SignalActive
 <1>3. avail.status = about[d].status /\ delivery[d].verb = IF avail.status = "ooo" THEN "pause" ELSE "resume"
    BY DEF SignalActive, Signalling, SignallingAt, Recorded
 <1>4. CASE inst' = Signalled(i, delivery[d].verb, "ooo")
   <2>1. Back(i)' /\ \A j \in Inst : Back(j) => Back(j)'
      BY <1>2, <1>3, <1>4, BackSignalled
   <2>2. \A j \in Inst : Due(j) => Due(j)'
      BY <1>2, <2>1, DueStays
   <2> QED
      BY <1>1, <1>2, <2>1, <2>2 DEF Due
 <1>5. CASE UNCHANGED inst /\ unsignalled' = unsignalled \cup {i}
    BY <1>1, <1>2, <1>5 DEF Due, Back
 <1> QED
    BY <1>1, <1>4, <1>5

\* What was signalled for an absence agrees with it until the lock is given back.
LEMMA SignallingStep ==
    ASSUME TypeOK, ListsRead, Locked, Signalling, [Next]_vars
    PROVE  Signalling'
 <1> SUFFICES ASSUME NEW d \in Delivery, delivery'[d].pc \in {"list", "signal", "recency"} PROVE SignallingAt(d)'
    BY DEF Signalling, SignallingAt
 <1>a. about' = about /\ (Quiet(d)' <=> Quiet(d))
    BY AboutKept DEF Quiet
 <1>i. SignallingAt(d)
    BY DEF Signalling
 <1>1. CASE ~Acts(d)
   <2>1. delivery'[d] = delivery[d]
      BY <1>1, OthersKeep
   <2>2. delivery[d].pc \in Critical
      BY <2>1 DEF Critical
   <2>3. UNCHANGED avail /\ \A i \in Inst : Nudged(i)
      BY <1>1, <2>2, LockKeeps
   <2>4. \A i \in Inst : Due(i) => Due(i)'
      BY <2>3, HistoryStep, BackStays, DueStays
   <2>5. Active(Delegator)' \subseteq Active(Delegator)
     <3> SUFFICES ASSUME NEW i \in Active(Delegator)', i \notin Active(Delegator) PROVE FALSE
        OBVIOUS
     <3>1. PICK e \in Delivery : Commit(e) /\ about[e].kind # "started"
        BY ActiveGets
     <3>2. e # d
        BY <1>1, <3>1 DEF Acts, Handle
     <3>3. AtCommit(e) /\ about[e].kind # "started"
        BY <3>1 DEF Commit
     <3> QED
        BY <2>2, <3>2, <3>3, LockExcludes
   <2>6. ASSUME delivery[d].pc = "signal", NEW i \in Active(Delegator)' \ delivery'[d].todo PROVE Due(i)'
      BY <1>i, <2>1, <2>4, <2>5, <2>6, ActiveAre DEF SignallingAt
   <2> QED
      BY <1>a, <1>i, <2>1, <2>3, <2>6 DEF SignallingAt, Recorded
 <1>2. CASE Record(d)
   <2>1. CASE Newer(d) /\ ~Quiet(d)
     <3>1. avail' = [status |-> about[d].status, at |-> about[d].at] /\ At(d, "list")
        BY <1>2, <2>1 DEF Record, Quiet
     <3>2. delivery'[d].pc = "list"
        BY <3>1, AtMoves DEF MovesTo, Sets, TypeOK, Places
     <3> QED
        BY <1>a, <2>1, <3>1, <3>2 DEF SignallingAt, Recorded
   <2>2. CASE ~(Newer(d) /\ ~Quiet(d))
     <3>1. At(d, "recency") /\ (~Newer(d) => UNCHANGED avail)
        BY <1>2, <2>2 DEF Record, Quiet
     <3>2. delivery'[d].pc = "recency"
        BY <3>1, AtMoves DEF MovesTo, Sets, TypeOK, Places
     <3>3. about[d].at \in Nat /\ avail.at \in Nat
        BY DEF TypeOK, EventsOK, RestOK, Content
     <3>4. Quiet(d) \/ about[d].at < avail'.at
        BY <2>2, <3>1, <3>3 DEF Newer
     <3> QED
        BY <1>a, <3>2, <3>4 DEF SignallingAt
   <2> QED
      BY <2>1, <2>2
 <1>3. CASE ListInstances(d)
   <2>1. Sets(d, "signal", delivery[d].list, InstancesOf(ActiveRows(Delegator)),
                IF about[d].status = "ooo" THEN "pause" ELSE "resume")
      BY <1>3, ListMoves
   <2>2. delivery[d].pc = "list" /\ UNCHANGED <<avail, rows>>
      BY <1>3 DEF ListInstances
   <2>3. /\ delivery'[d].pc = "signal" /\ delivery'[d].todo = InstancesOf(ActiveRows(Delegator))
         /\ delivery'[d].verb = IF about[d].status = "ooo" THEN "pause" ELSE "resume"
      BY <2>1 DEF Sets
   <2>4. Active(Delegator)' = Active(Delegator)
      BY <2>2 DEF Active, Holds
   <2>5. Recorded(d) /\ ~Quiet(d)
      BY <1>i, <2>2 DEF SignallingAt
   <2>6. Active(Delegator)' \ delivery'[d].todo = {}
      BY <2>3, <2>4, ActiveListed
   <2> QED
      BY <1>a, <2>2, <2>3, <2>5, <2>6 DEF SignallingAt, Recorded
 <1>4. CASE SignalActive(d)
   <2>1. PICK i \in delivery[d].todo : delivery' = [delivery EXCEPT ![d].todo = @ \ {i}] /\ i \in Inst /\ Due(i)'
      BY <1>4, DueSignalled
   <2>2. \A j \in Inst : Due(j) => Due(j)'
      BY <1>4, DueSignalled
   <2>3. delivery[d].pc = "signal" /\ UNCHANGED <<avail, rows>>
      BY <1>4 DEF SignalActive
   <2>4. Sets(d, delivery[d].pc, delivery[d].list, delivery[d].todo \ {i}, delivery[d].verb)
      BY <2>1, LessMoves
   <2>5. /\ delivery'[d].pc = "signal" /\ delivery'[d].todo = delivery[d].todo \ {i}
         /\ delivery'[d].verb = delivery[d].verb
      BY <2>3, <2>4 DEF Sets
   <2>6. Active(Delegator)' = Active(Delegator)
      BY <2>3 DEF Active, Holds
   <2>7. ASSUME NEW j \in Active(Delegator)' \ delivery'[d].todo PROVE Due(j)'
     <3>1. CASE j = i
        BY <2>1, <3>1
     <3>2. CASE j # i
        BY <1>i, <2>2, <2>3, <2>5, <2>6, <2>7, <3>2, ActiveAre DEF SignallingAt
     <3> QED
        BY <3>1, <3>2
   <2> QED
      BY <1>a, <1>i, <2>3, <2>5, <2>7 DEF SignallingAt, Recorded
 <1> QED
    BY <1>1, <1>2, <1>3, <1>4, Arrive DEF Arrives

\* The event is behind the recency guard, or was answered by some delivery.
Applied(d) ==
    \/ guard >= about[d].at
    \/ \E e \in Delivery : /\ about[e].kind = "availability" /\ about[e].at = about[d].at
                           /\ delivery[e].pc \in {"mark", "done"}
Speaks(d) == Newest(d) /\ ~Quiet(d) /\ (about[d].status = "ooo" => \A e \in Delivery : ~about[e].reassigned)
InForce(d) == Recorded(d) /\ \A i \in Active(Delegator) : Due(i)
LastApplied == \A d \in Delivery : Speaks(d) /\ Applied(d) => InForce(d)

\* What the newest absence brought about stays so, whatever else happens.
LEMMA InForceStays ==
    ASSUME TypeOK, ListsRead, Locked, EventInv, Reversing, Signalling, [Next]_vars,
           NEW d \in Delivery, Speaks(d), InForce(d)
    PROVE  InForce(d)'
 <1>a. about' = about /\ unseen \subseteq unseen'
    BY AboutKept, HistoryStep
 <1>n. \A e \in Delivery : about[e].at \in Nat
    BY DEF TypeOK, EventsOK, Content
 <1>1. UNCHANGED avail
   <2>1. ASSUME NEW e \in Delivery, Record(e) PROVE UNCHANGED avail
     <3>1. avail' = avail \/ (Newer(e) /\ avail' = [status |-> about[e].status, at |-> about[e].at])
        BY <2>1 DEF Record
     <3>2. about[e].kind = "availability"
        BY <2>1 DEF Record, Locked, KindAt
     <3>3. ASSUME Newer(e) PROVE about[e].at = about[d].at
        BY <1>n, <3>2, <3>3 DEF Newer, Speaks, Newest, InForce, Recorded
     <3>4. ASSUME Newer(e) PROVE about[e].status = about[d].status
        BY <3>2, <3>3, <3>4 DEF Speaks, Newest, EventInv, SameEvents
     <3> QED
        BY <3>1, <3>3, <3>4 DEF InForce, Recorded
   <2> QED
      BY <2>1, AvailStep
 <1>2. \A i \in Inst : Due(i) => Due(i)'
   <2>1. ASSUME NEW e \in Delivery, SettleOne(e) PROVE \A i \in Inst : Due(i) => Due(i)'
     <3>1. PICK i \in delivery[e].todo : inst' = Signalled(i, delivery[e].verb, "ooo")
        BY <2>1 DEF SettleOne
     <3>2. i \in Inst /\ delivery[e].verb \in {None, "pause", "resume"}
        BY DEF TypeOK, EventsOK, Deliveries
     <3>3. /\ avail.status = "ooo" => delivery[e].verb = "pause"
           /\ avail.status # "ooo" => delivery[e].verb = "resume"
       <4>1. delivery[e].pc = "settle" /\ avail.status = about[d].status
          BY <2>1 DEF SettleOne, InForce, Recorded
       <4> QED
          BY <4>1 DEF Speaks, Reversing, ReversalAt
     <3>4. \A j \in Inst : Back(j) => Back(j)'
        BY <1>1, <1>a, <3>1, <3>2, <3>3, BackSignalled
     <3> QED
        BY <1>1, <3>4, DueStays
   <2>2. ASSUME ~(\E e \in Delivery : SignalActive(e) \/ SettleOne(e)) PROVE \A i \in Inst : Due(i) => Due(i)'
     <3>1. \A i \in Inst : Nudged(i)
        BY <2>2, PauseStep
     <3> QED
        BY <1>1, <1>a, <3>1, BackStays, DueStays
   <2> QED
      BY <2>1, <2>2, DueSignalled
 <1>3. ASSUME NEW i \in Active(Delegator)' PROVE Due(i)'
   <2>0. i \in Inst
      BY ActiveAre
   <2>1. CASE i \in Active(Delegator)
      BY <1>2, <2>0, <2>1 DEF InForce
   <2>2. CASE i \notin Active(Delegator)
     <3>1. PICK e \in Delivery : Commit(e) /\ about[e].kind # "started" /\ i \in InstancesOf(delivery[e].list)
        BY <2>2, ActiveGets
     <3>2. delivery[e].pc = "settle" /\ delivery[e].todo = {}
        BY <3>1 DEF Commit, AtCommit, Locked, KindAt
     <3>3. avail.status = "ooo" => ~about[e].reassigned
        BY DEF Speaks, InForce, Recorded
     <3>4. Back(i)
        BY <3>1, <3>2, <3>3 DEF Reversing, ReversalAt
     <3> QED
        BY <1>2, <2>0, <3>4 DEF Due
   <2> QED
      BY <2>1, <2>2
 <1> QED
    BY <1>1, <1>3, <1>a DEF InForce, Recorded

\* The recency guard is written with the unlock only.
LEMMA GuardStep ==
    ASSUME [Next]_vars, ~(\E d \in Delivery : CommitRecency(d))
    PROVE  UNCHANGED guard
 <1>1. ASSUME NEW d \in Delivery, Acts(d) PROVE UNCHANGED guard
    BY <1>1 DEF Acts, Handle, Fail, HandleDelegationStarted, HandleDelegationEnded,
       HandleUserAvailabilityChanged,
       HandleUserDeleted, HandleMembershipRevoked, Received, Reroute, Reverse, Candidates, LockAvailability,
       ListInstances, SignalActive, Record, LockReversal, SettleOne, Commit, RollBack, VacateAssignments,
       MarkProcessed
 <1>2. CASE CallStep \/ \E i \in Inst : WriteStatus(i)
    BY <1>2 DEF CallStep, CallRead, CallReassign, CallCancel, CallCreate, CallPause, CallEnd, ReadClaim, SetLead, WriteStatus,
       eventvars
 <1>3. CASE UNCHANGED vars
    BY <1>3 DEF vars, eventvars
 <1> QED
    BY <1>1, <1>2, <1>3 DEF Next, Acts

\* The newest event is applied by the commit of its time.
LEMMA NewlyApplied ==
    ASSUME TypeOK, Locked, EventInv, [Next]_vars, NEW d \in Delivery, Newest(d), ~Applied(d), Applied(d)'
    PROVE  \E e \in Delivery : CommitRecency(e) /\ about[e].kind = "availability" /\ about[e].at = about[d].at
 <1>a. about' = about
    BY AboutKept
 <1>n. about[d].at \in Nat /\ guard \in Nat /\ \A e \in Delivery : about[e].at \in Nat
    BY DEF TypeOK, EventsOK, Content
 <1>1. CASE guard' >= about[d].at
   <2>1. guard' # guard
      BY <1>1 DEF Applied
   <2>2. PICK e \in Delivery : CommitRecency(e)
      BY <2>1, GuardStep
   <2>3. guard' = about[e].at
      BY <2>1, <2>2 DEF CommitRecency
   <2>4. about[e].kind = "availability"
      BY <2>2 DEF CommitRecency, Locked, KindAt
   <2>5. about[e].at = about[d].at
      BY <1>1, <1>n, <2>3, <2>4 DEF Newest
   <2> QED
      BY <2>2, <2>4, <2>5
 <1>2. ASSUME NEW e \in Delivery, about[e].kind = "availability", about[e].at = about[d].at,
              delivery'[e].pc \in {"mark", "done"}
       PROVE  CommitRecency(e)
   <2>1. delivery[e].pc \notin {"mark", "done"}
      BY <1>2 DEF Applied
   <2>2. Acts(e)
      BY <1>2, <2>1, OthersKeep
   <2>3. CASE delivery'[e].pc = "mark"
     <3>1. \/ Reroute(e) \/ Reverse(e) \/ LockAvailability(e) \/ CommitRecency(e) \/ Commit(e) \/ VacateAssignments(e)
        BY <2>2, <2>3, Arrive DEF Arrives
     <3>2. ~Reroute(e) /\ ~Reverse(e)
        BY <1>2 DEF Reroute, Reverse
     <3>3. ~LockAvailability(e)
       <4> SUFFICES ASSUME LockAvailability(e) PROVE FALSE
          OBVIOUS
       <4>1. guard >= about[e].at \/ At(e, "record")
          BY DEF LockAvailability
       <4>2. At(e, "record") => delivery'[e].pc = "record"
          BY AtMoves DEF MovesTo, Sets, TypeOK, Places
       <4> QED
          BY <1>2, <2>3, <4>1, <4>2 DEF Applied
     <3>4. ~Commit(e)
        BY <1>2 DEF Commit, AtCommit, Locked, KindAt
     <3>5. ~VacateAssignments(e)
        BY <1>2 DEF VacateAssignments, EventInv, VacateKind
     <3> QED
        BY <3>1, <3>2, <3>3, <3>4, <3>5
   <2>4. CASE delivery'[e].pc = "done"
     <3>1. about[e].id \in processed \/ MarkProcessed(e)
        BY <2>2, <2>4, Arrive DEF Arrives
     <3>2. ~MarkProcessed(e)
        BY <2>1 DEF MarkProcessed
     <3>3. PICK f \in Delivery : about[f].id = about[e].id /\ delivery[f].pc = "done"
        BY <3>1, <3>2 DEF EventInv, ProcessedDone
     <3>4. about[f] = about[e]
        BY <3>3 DEF EventInv, SameEvents
     <3> QED
        BY <1>2, <3>3, <3>4 DEF Applied
   <2> QED
      BY <1>2, <2>3, <2>4
 <1> QED
    BY <1>1, <1>2, <1>a DEF Applied

\* The newest absence is in force from then on.
LEMMA LastStep ==
    ASSUME TypeOK, ListsRead, Locked, EventInv, Reversing, Signalling, LastApplied, [Next]_vars
    PROVE  LastApplied'
 <1> SUFFICES ASSUME NEW d \in Delivery, Speaks(d)', Applied(d)' PROVE InForce(d)'
    BY DEF LastApplied
 <1>a. about' = about
    BY AboutKept
 <1>1. Speaks(d)
    BY <1>a DEF Speaks, Newest, Quiet
 <1>2. InForce(d)
   <2>1. CASE Applied(d)
      BY <1>1, <2>1 DEF LastApplied
   <2>2. CASE ~Applied(d)
     <3>1. PICK e \in Delivery : CommitRecency(e) /\ about[e].kind = "availability" /\ about[e].at = about[d].at
        BY <1>1, <2>2, NewlyApplied DEF Speaks
     <3>2. about[d].kind = "availability" /\ about[e].status = about[d].status /\ about[e].delegate = about[d].delegate
           /\ about[e].at > 0
        BY <1>1, <3>1 DEF Speaks, Newest, EventInv, SameEvents
     <3>3. ~Quiet(e)
        BY <1>1, <3>2 DEF Speaks, Quiet
     <3>4. ~(about[e].at < avail.at)
       <4> SUFFICES ASSUME about[e].at < avail.at PROVE FALSE
          OBVIOUS
       <4>0. avail.at \in Nat /\ about[e].at \in Nat
          BY DEF TypeOK, RestOK, EventsOK, Content
       <4>1. PICK f \in Delivery : about[f].kind = "availability" /\ about[f].at = avail.at
          BY <3>2, <4>0 DEF EventInv, AvailOK
       <4>2. about[f].at <= about[d].at
          BY <1>1, <4>1 DEF Speaks, Newest
       <4> QED
          BY <3>1, <4>0, <4>1, <4>2
     <3>5. delivery[e].pc = "signal" /\ delivery[e].todo = {}
        BY <3>1, <3>3, <3>4 DEF CommitRecency, Signalling, SignallingAt
     <3>6. Recorded(e) /\ \A i \in Active(Delegator) : Due(i)
        BY <3>5 DEF Signalling, SignallingAt
     <3> QED
        BY <3>1, <3>2, <3>6 DEF InForce, Recorded
   <2> QED
      BY <2>1, <2>2
 <1> QED
    BY <1>1, <1>2, InForceStays

(***************************************************************************)
(* A delegation that ended.                                                *)
(***************************************************************************)
\* The rows of the delegate that the end of the delegation is to take back.
Open(d) == {x \in Tagged(ActiveRows(Delegate)) : x.task \in about[d].ok \ skipped}
EndedAt(d) ==
    /\ delivery[d].pc \in {"locking", "settle"} => Open(d) \subseteq delivery[d].list
    /\ delivery[d].pc \in {"mark", "done"} => Open(d) = {}
EndedKept == ~late => \A d \in Delivery : about[d].kind = "ended" => EndedAt(d)

\* A row the end of a delegation would take back was there before, or a reroute
\* came late.
LEMMA OpenShrinks ==
    ASSUME TypeOK, ListsRead, [Next]_vars, NEW d \in Delivery, about[d].kind = "ended", ~late',
           delivery[d].pc \notin {"queued", "read"}
    PROVE  Open(d)' \subseteq Open(d)
 <1> SUFFICES ASSUME NEW x \in Open(d)' PROVE x \in Open(d)
    OBVIOUS
 <1>a. about' = about /\ skipped \subseteq skipped'
    BY AboutKept, HistoryStep
 <1>1. x \in ActiveRows(Delegate)' /\ rows'[x.task][x.row].tag /\ x.task \in about[d].ok \ skipped
    BY <1>a DEF Open, Tagged, RowOf
 <1>2. PICK t \in Task : x \in {[task |-> t, row |-> k] :
              k \in {k \in DOMAIN rows'[t] : rows'[t][k].active /\ rows'[t][k].user = Delegate}}
    BY <1>1 DEF ActiveRows
 <1>3. PICK k \in DOMAIN rows'[t] : rows'[t][k].active /\ rows'[t][k].user = Delegate
                                    /\ x = [task |-> t, row |-> k]
    BY <1>2
 <1>4. Keeps(rows[t], rows'[t]) /\ TableStep(t)
    BY RowsKept, TablesStep
 <1>5. CASE k \in DOMAIN rows[t]
   <2>1. rows[t][k].active /\ rows[t][k].user = Delegate /\ rows[t][k].tag /\ x = [task |-> t, row |-> k]
      BY <1>1, <1>3, <1>4, <1>5 DEF Keeps
   <2>2. x \in ActiveRows(Delegate)
      BY <1>5, <2>1, ActiveAreEntries
   <2> QED
      BY <1>1, <2>1, <2>2 DEF Open, Tagged, RowOf
 <1>6. CASE k \notin DOMAIN rows[t]
   <2>1. CASE Moved(t)
     <3>1. PICK e \in Delivery : MovedBy(e, t)
        BY <2>1 DEF Moved
     <3>2. PICK y \in delivery[e].list : Commit(e) /\ Table(rows[t], rows'[t], {y.row}, {NewRow(e, y)})
        BY <3>1 DEF MovedBy
     <3>3. rows'[t][k] = NewRow(e, y)
        BY <1>3, <1>6, <3>2 DEF Table
     <3>4. about[e].kind = "started"
        BY <1>3, <3>3 DEF NewRow, NewAssignee, Delegator, Delegate
     <3> QED
        BY <3>2, <3>4 DEF Commit
   <2>2. CASE Added(t)
     <3>1. rows'[t][k] = Replacement(call.cur)
        BY <1>3, <1>6, <2>2 DEF Added, Table
     <3> QED
        BY <1>3, <3>1 DEF Replacement, Delegate
   <2>3. CASE Emptied(t) \/ Dropped(t) \/ Left(t)
      BY <1>3, <1>6, <2>3 DEF Emptied, Dropped, Left, Table
   <2> QED
      BY <1>4, <2>1, <2>2, <2>3 DEF TableStep
 <1> QED
    BY <1>5, <1>6

\* A commit vacates every row it had read.
LEMMA CommitVacates ==
    ASSUME TypeOK, ListsRead, NEW d \in Delivery, Commit(d), NEW x \in delivery[d].list
    PROVE  ~rows'[x.task][x.row].active
 <1>t. rows \in [Task -> Seq(Row)] /\ x \in Entry /\ x.task \in Task /\ Read(x)
    BY DEF TypeOK, RowsOK, EventsOK, Deliveries, ListsRead, Entry
 <1> DEFINE t == x.task
            y == CHOOSE z \in delivery[d].list : z.task = t
 <1>1. y \in delivery[d].list /\ y.task = t
    OBVIOUS
 <1>2. y = x
    BY <1>1 DEF ListsRead, OnePerTask
 <1>3. rows'[t] = Append(Vacated(y), NewRow(d, y))
    BY <1>t DEF Commit, Committed, NewRow
 <1> HIDE DEF y
 <1>4. rows'[t] = Append(Vacated(x), NewRow(d, x))
    BY <1>2, <1>3
 <1>5. rows[t] \in Seq(Row) /\ x.row \in DOMAIN rows[t] /\ Vacated(x) = [rows[t] EXCEPT ![x.row].active = FALSE]
    BY <1>t DEF Read, Vacated
 <1>6. Table(rows[t], Vacated(x), {x.row}, {}) /\ DOMAIN Vacated(x) = DOMAIN rows[t]
    BY <1>5, VacateTable
 <1>7. Vacated(x) \in Seq(Row) /\ NewRow(d, x) \in Row
    BY <1>6, <1>t DEF Table, NewRow, Row, Entry, NewAssignee, User, Delegate, Delegator
 <1>8. Table(rows[t], rows'[t], {x.row}, {NewRow(d, x)})
    BY <1>4, <1>5, <1>6, <1>7, AppendTable
 <1> QED
    BY <1>5, <1>8 DEF Table

\* What a reversal did not list, it could not read.
LEMMA ReadOpen ==
    ASSUME TypeOK, NEW d \in Delivery, about[d].kind = "ended", Reads(d)
    PROVE  Open(d)' \subseteq delivery'[d].list /\ (delivery'[d].pc = "mark" => delivery'[d].list = {})
 <1>1. PICK l \in SUBSET Sought(d) :
         /\ Sets(d, AfterRead(d, l), l, delivery[d].todo, delivery[d].verb)
         /\ \A x \in Sought(d) \ l : x.task \in skipped'
    BY DEF Reads
 <1>2. delivery'[d].list = l /\ delivery'[d].pc = AfterRead(d, l)
    BY <1>1 DEF Sets
 <1>3. UNCHANGED <<about, rows>>
    BY DEF Reads
 <1>4. Tagged(ActiveRows(Delegate))' = Tagged(ActiveRows(Delegate))
    BY <1>3 DEF Tagged, ActiveRows, RowOf
 <1>5. ASSUME NEW x \in Open(d)' PROVE x \in l
   <2>1. x \in Tagged(ActiveRows(Delegate)) /\ x.task \in about[d].ok /\ x.task \notin skipped'
      BY <1>3, <1>4, <1>5 DEF Open
   <2>2. x \in Sought(d)
      BY <2>1 DEF Sought, Eligible
   <2> QED
      BY <1>1, <2>1, <2>2
 <1> QED
    BY <1>2, <1>5 DEF AfterRead

\* The end of a delegation leaves no row it could read.
LEMMA EndedStep ==
    ASSUME TypeOK, ListsRead, Locked, EventInv, EndedKept, [Next]_vars
    PROVE  EndedKept'
 <1>a. about' = about /\ (late => late')
    BY AboutKept, HistoryStep
 <1> SUFFICES ASSUME ~late', NEW d \in Delivery, about[d].kind = "ended" PROVE EndedAt(d)'
    BY <1>a DEF EndedKept
 <1>i. \A e \in Delivery : about[e].kind = "ended" => EndedAt(e)
    BY <1>a DEF EndedKept
 <1>s. delivery[d].pc \notin {"queued", "read"} => Open(d)' \subseteq Open(d)
    BY OpenShrinks
 <1>1. CASE ~Acts(d)
   <2>1. delivery'[d] = delivery[d]
      BY <1>1, OthersKeep
   <2> QED
      BY <1>i, <1>s, <2>1 DEF EndedAt
 <1>2. ASSUME Acts(d), delivery'[d].pc = "locking" PROVE Open(d)' \subseteq delivery'[d].list
   <2>1. Reads(d)
      BY <1>2, Arrive, ReadMoves DEF Arrives
   <2> QED
      BY <2>1, ReadOpen
 <1>3. ASSUME Acts(d), delivery'[d].pc = "settle" PROVE Open(d)' \subseteq delivery'[d].list
   <2>1. LockReversal(d) \/ SettleOne(d)
      BY <1>3, Arrive DEF Arrives
   <2>2. delivery[d].pc \in {"locking", "settle"}
      BY <2>1 DEF LockReversal, SettleOne
   <2>3. delivery'[d].list = delivery[d].list
     <3>1. CASE LockReversal(d)
        BY <3>1, ReversalMoves DEF Sets
     <3>2. CASE SettleOne(d)
       <4>1. PICK i : delivery' = [delivery EXCEPT ![d].todo = @ \ {i}]
          BY <3>2 DEF SettleOne
       <4> QED
          BY <4>1, LessMoves DEF Sets
     <3> QED
        BY <2>1, <3>1, <3>2
   <2> QED
      BY <1>i, <1>s, <2>2, <2>3 DEF EndedAt
 <1>4. ASSUME Acts(d), delivery'[d].pc = "mark" PROVE Open(d)' = {}
   <2>1. \/ Reroute(d) \/ Reverse(d) \/ LockAvailability(d) \/ CommitRecency(d) \/ Commit(d) \/ VacateAssignments(d)
      BY <1>4, Arrive DEF Arrives
   <2>2. CASE Reroute(d) \/ Reverse(d)
      BY <1>4, <2>2, ReadMoves, ReadOpen
   <2>3. ~LockAvailability(d)
      BY DEF LockAvailability
   <2>4. ~CommitRecency(d)
      BY DEF CommitRecency, Locked, KindAt
   <2>5. ~VacateAssignments(d)
      BY DEF VacateAssignments, EventInv, VacateKind
   <2>6. CASE Commit(d)
     <3>1. delivery[d].pc = "settle"
        BY <2>6 DEF Commit, AtCommit, Locked, KindAt
     <3>2. Open(d)' \subseteq delivery[d].list
        BY <1>i, <1>s, <3>1 DEF EndedAt
     <3>3. ASSUME NEW x \in Open(d)' PROVE FALSE
       <4>1. ~rows'[x.task][x.row].active
          BY <2>6, <3>2, <3>3, CommitVacates
       <4>2. x \in ActiveRows(Delegate)'
          BY <3>3 DEF Open, Tagged
       <4> QED
          BY <4>1, <4>2 DEF ActiveRows
     <3> QED
        BY <3>3
   <2> QED
      BY <2>1, <2>2, <2>3, <2>4, <2>5, <2>6
 <1>5. ASSUME Acts(d), delivery'[d].pc = "done" PROVE Open(d)' = {}
   <2>1. about[d].id \in processed \/ MarkProcessed(d)
      BY <1>5, Arrive DEF Arrives
   <2>2. CASE MarkProcessed(d)
     <3>1. delivery[d].pc = "mark"
        BY <2>2 DEF MarkProcessed
     <3> QED
        BY <1>i, <1>s, <3>1 DEF EndedAt
   <2>3. CASE about[d].id \in processed
     <3>1. PICK e \in Delivery : about[e].id = about[d].id /\ delivery[e].pc = "done"
        BY <2>3 DEF EventInv, ProcessedDone
     <3>2. about[e] = about[d]
        BY <3>1 DEF EventInv, SameEvents
     <3>3. Open(e)' \subseteq Open(e) /\ Open(e) = {}
        BY <1>i, <3>1, <3>2, OpenShrinks DEF EndedAt
     <3>4. Open(d)' = Open(e)'
        BY <1>a, <3>2 DEF Open
     <3> QED
        BY <3>3, <3>4
   <2> QED
      BY <2>1, <2>2, <2>3
 <1> QED
    BY <1>1, <1>2, <1>3, <1>4, <1>5 DEF EndedAt

(***************************************************************************)
(* The inductive invariant.                                                *)
(***************************************************************************)
Inv ==
    /\ TypeOK /\ ListsRead /\ LeadsRead /\ Locked /\ EventInv
    /\ WorkStaysHeld /\ ClaimKept
    /\ Reversing /\ Signalling /\ LastApplied /\ EndedKept

\* The invariant holds at first
LEMMA InvInit == Init => Inv
 <1> SUFFICES ASSUME Init PROVE Inv
    OBVIOUS
 <1>s. PICK s \in Scenarios :
         /\ about = s.about
         /\ delivery = [d \in Delivery |-> Queued]
         /\ processed = {} /\ lock = None /\ guard = 0
         /\ avail = [status |-> None, at |-> 0]
         /\ rows = s.rows /\ lead = s.lead
         /\ led = [r \in Delivery \cup {"call"} |-> {}]
         /\ claim = [t \in Task |-> 0] /\ crossed = {}
         /\ inst = [i \in Inst |-> [paused |-> None, status |-> "RUNNING"]]
         /\ call = [kind |-> s.call, pc |-> "idle", list |-> {}, cur |-> None]
         /\ faults = 0
         /\ unsignalled = {} /\ unseen = {} /\ late = FALSE /\ skipped = {} /\ unheld = {}
    BY DEF Init
 <1>d. \A d \in Delivery : delivery[d] = Queued
    BY <1>s
 <1>q. Queued \in Deliveries /\ Queued.pc = "queued" /\ Queued.list = {} /\ Queued.todo = {}
    BY DEF Queued, Deliveries, Places
 <1>1. TypeOK
   <2>1. EventsOK
      BY <1>s, <1>q, ScenarioAssumption DEF EventsOK
   <2>2. RowsOK
      BY <1>s, <1>d, <1>q, ScenarioAssumption DEF RowsOK
   <2>3. OneRowEach
      BY <1>s, RowsAssumption DEF OneRowEach
   <2>4. InstOK
      BY <1>s DEF InstOK
   <2>5. CallOK
      BY <1>s, ScenarioAssumption DEF CallOK
   <2>6. RestOK
     <3>1. avail \in [status : {"available", "busy", "ooo", None}, at : Nat]
        BY <1>s
     <3>2. faults \in 0 .. MaxFaults
        BY <1>s, ScenarioAssumption
     <3>3. late \in BOOLEAN
        BY <1>s
     <3>4. unsignalled \subseteq Inst /\ unseen \subseteq Inst /\ skipped \subseteq Task /\ unheld \subseteq Task
        BY <1>s
     <3> QED
        BY <3>1, <3>2, <3>3, <3>4 DEF RestOK
   <2>7. ClaimOK
      BY <1>s, ScenarioAssumption, RowsAssumption DEF ClaimOK
   <2> QED
      BY <2>1, <2>2, <2>3, <2>4, <2>5, <2>6, <2>7 DEF TypeOK
 <1>2. ListsRead /\ LeadsRead
    BY <1>s, <1>d, <1>q DEF ListsRead, LeadsRead, OnePerTask
 <1>3. Locked
    BY <1>s, <1>d, <1>q, NoneAssumption DEF Locked, KindAt, Critical
 <1>4. EventInv
   <2>1. SameEvents
      BY <1>s, EventsAssumption DEF SameEvents
   <2>2. VacateKind /\ ProcessedDone /\ AvailOK
      BY <1>s, <1>d, <1>q DEF VacateKind, ProcessedDone, AvailOK
   <2> QED
      BY <2>1, <2>2 DEF EventInv
 <1>5. WorkStaysHeld
    BY <1>s, RowsAssumption DEF WorkStaysHeld
 <1>6. ClaimKept
    BY <1>s, RowsAssumption DEF ClaimKept, LedNow
 <1>7. Reversing /\ Signalling /\ EndedKept
    BY <1>d, <1>q DEF Reversing, ReversalAt, Signalling, SignallingAt, EndedKept, EndedAt
 <1>8. LastApplied
   <2>1. \A d \in Delivery : about[d].kind = "availability" => about[d].at > 0 /\ about[d].at \in Nat
      BY <1>1, <1>4 DEF EventInv, SameEvents, TypeOK, EventsOK, Content
   <2> QED
      BY <1>s, <1>d, <1>q, <2>1 DEF LastApplied, Speaks, Newest, Applied
 <1> QED
    BY <1>1, <1>2, <1>3, <1>4, <1>5, <1>6, <1>7, <1>8 DEF Inv

\* and every step keeps it.
LEMMA InvStep == Inv /\ [Next]_vars => Inv'
 <1> SUFFICES ASSUME Inv, [Next]_vars PROVE Inv'
    OBVIOUS
 <1>1. TypeOK' /\ ListsRead' /\ LeadsRead'
    BY TypeStep, ListsStep, LeadsReadStep DEF Inv
 <1>2. Locked' /\ EventInv'
    BY LockedStep, EventStep DEF Inv
 <1>3. WorkStaysHeld' /\ ClaimKept'
    BY HeldStep, ClaimStep DEF Inv
 <1>4. Reversing' /\ Signalling'
    BY ReversingStep, SignallingStep DEF Inv
 <1>5. LastApplied' /\ EndedKept'
    BY LastStep, EndedStep DEF Inv
 <1> QED
    BY <1>1, <1>2, <1>3, <1>4, <1>5 DEF Inv

(***************************************************************************)
(* The theorems.                                                           *)
(***************************************************************************)
\* The inductive invariant holds in every reachable state.
THEOREM Invariance == Spec => []Inv
 <1>1. Init => Inv
    BY InvInit
 <1>2. Inv /\ [Next]_vars => Inv'
    BY InvStep
 <1> QED
    BY <1>1, <1>2, PTL DEF Spec

\* Every variable has its type, what was read stays in its table, and a user holds at
\* most one active assignment of a task (TaskAssignmentRepo.Create), for any deliveries,
\* tables and faults.
THEOREM DelegationTypeCorrect == Spec => []TypeOK
 <1>1. Inv => TypeOK
    BY DEF Inv
 <1> QED
    BY <1>1, Invariance, PTL

\* Moving work never loses it (commitReassignments): whoever vacates a row creates the
\* next one in the same transaction.
THEOREM WorkStaysHeldHolds == Spec => []WorkStaysHeld
 <1>1. Inv => WorkStaysHeld
    BY DEF Inv
 <1> QED
    BY <1>1, Invariance, PTL

\* A claimed task stays claimed by whoever now holds it (commitReassignments,
\* ReassignDelegate): the lead flag that was read is the one the row still has,
\* unless a claim (TaskService.Claim) took effect after the read.
THEOREM ClaimIsCarriedHolds == Spec => []ClaimIsCarried
 <1>1. Inv => ClaimIsCarried
    BY DEF Inv, ClaimKept, LedNow, ClaimIsCarried, BetweenRows
 <1> QED
    BY <1>1, Invariance, PTL

\* Work goes back to an absent delegator with its instance paused (Reverse): from the
\* lock to the commit nobody else records an absence or lifts a pause.
THEOREM HandedBackPausedHolds == Spec => HandedBackPaused
 <1>1. Inv => \A d \in Delivery :
                /\ about[d].kind = "ended" /\ ~about[d].reassigned
                /\ AtCommit(d) /\ avail.status = "ooo"
                => \A x \in delivery[d].list : inst[InstOf[x.task]].paused # None
   <2> SUFFICES ASSUME Inv, NEW d \in Delivery, about[d].kind = "ended", ~about[d].reassigned, AtCommit(d),
                       avail.status = "ooo", NEW x \in delivery[d].list
                PROVE  inst[InstOf[x.task]].paused # None
      OBVIOUS
   <2>1. delivery[d].pc = "settle" /\ delivery[d].todo = {}
      BY DEF AtCommit, Inv, Locked, KindAt
   <2>2. InstOf[x.task] \in InstancesOf(delivery[d].list)
      BY DEF InstancesOf
   <2>3. Back(InstOf[x.task])
      BY <2>1, <2>2 DEF Inv, Reversing, ReversalAt
   <2> QED
      BY <2>3 DEF Back
 <1>2. Inv /\ [Next]_vars =>
         [\A d \in Delivery :
            (/\ about[d].kind = "ended" /\ ~about[d].reassigned
             /\ AtCommit(d) /\ delivery'[d].pc = "mark" /\ avail.status = "ooo")
              => \A x \in delivery[d].list : inst[InstOf[x.task]].paused # None]_vars
    BY <1>1
 <1> QED
    BY <1>2, Invariance, PTL DEF Spec, HandedBackPaused

\* When every event is answered, the newest absence is in force.
LEMMA NewestInForce ==
    ASSUME Inv, Settled, NEW d \in Delivery, Speaks(d)
    PROVE  InForce(d)
 <1>1. Applied(d)
    BY DEF Settled, Speaks, Newest, Applied
 <1> QED
    BY <1>1 DEF Inv, LastApplied

\* When every event is answered and the newest availability is an absence without a
\* delegate, what the delegator holds is paused, unless a signal was lost
\* (handleUserAvailabilityChanged, Reverse).
THEOREM AbsentWorkWaitsHolds == Spec => []AbsentWorkWaits
 <1>1. Inv => AbsentWorkWaits
   <2> SUFFICES ASSUME Inv, Settled, \A d \in Delivery : ~about[d].reassigned, NEW d \in Delivery, Newest(d),
                       about[d].status = "ooo", ~about[d].delegate, NEW i \in Active(Delegator)
                PROVE  inst[i].paused # None \/ i \in unsignalled
      BY DEF AbsentWorkWaits
   <2>1. Speaks(d)
      BY NoneAssumption DEF Speaks, Quiet
   <2>2. InForce(d)
      BY <2>1, NewestInForce
   <2> QED
      BY <2>2 DEF InForce, Recorded, Due, Back
 <1> QED
    BY <1>1, Invariance, PTL

\* When every event is answered and the newest availability is available, nothing the
\* delegator holds is in an out-of-office pause, unless a signal was lost or a reversal
\* had read an older status (signalRestoredInstances).
THEOREM PresentWorkRunsHolds == Spec => []PresentWorkRuns
 <1>1. Inv => PresentWorkRuns
   <2> SUFFICES ASSUME Inv, Settled, NEW d \in Delivery, Newest(d), about[d].status = "available",
                       NEW i \in Active(Delegator), inst[i].paused = "ooo"
                PROVE  i \in unsignalled \cup unseen
      BY DEF PresentWorkRuns
   <2>1. Speaks(d)
      BY NoneAssumption DEF Speaks, Quiet
   <2>2. InForce(d)
      BY <2>1, NewestInForce
   <2> QED
      BY <2>2 DEF InForce, Recorded, Due, Back
 <1> QED
    BY <1>1, Invariance, PTL

\* A delegation that ended holds nothing the delegator may take back, unless a reroute
\* committed after the reversal had read the rows, or the task could not be read (Reverse).
THEOREM EndedDelegationHoldsNothingHolds == Spec => []EndedDelegationHoldsNothing
 <1>1. Inv => EndedDelegationHoldsNothing
   <2> SUFFICES ASSUME Inv, Settled, ~late, NEW d \in Delivery, about[d].kind = "ended",
                       NEW x \in ActiveRows(Delegate), x.task \in about[d].ok \ skipped, RowOf(x).tag
                PROVE  FALSE
      BY DEF EndedDelegationHoldsNothing
   <2>1. Open(d) = {}
      BY DEF Inv, EndedKept, EndedAt, Settled
   <2> QED
      BY <2>1 DEF Open, Tagged
 <1> QED
    BY <1>1, Invariance, PTL

=============================================================================
