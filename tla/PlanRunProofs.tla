--------------------------- MODULE PlanRunProofs ---------------------------
(***************************************************************************)
(* Proofs about PlanRun, for every plan.                                   *)
(*                                                                         *)
(* The operators come first: what a helper on sequences, on messages and   *)
(* on outside waits leaves.  Then one lemma for each step of a coroutine,  *)
(* which shows the types kept and Step(i), all that the invariants need to *)
(* know of it; and one for each event, which shows OuterStep.  The         *)
(* theorems at the end use nothing else of the actions.                    *)
(***************************************************************************)
EXTENDS PlanRun, WellFoundedInduction, SequenceTheorems, TLAPS

(***************************************************************************)
(* Numbers and sequences.  The least of a set of naturals is what stands   *)
(* for an induction below.                                                 *)
(***************************************************************************)
LEMMA Least ==
    ASSUME NEW T, T \subseteq Nat, T # {}
    PROVE  \E m \in T : \A k \in T : m <= k
<1>1. \E x \in T : \A y \in T : ~ (<<y, x>> \in OpToRel(<, Nat))
  BY WFMin, NatLessThanWellFounded
<1>2. \A x, y \in Nat : x < y => <<x, y>> \in OpToRel(<, Nat)
  BY Zenon DEF OpToRel
<1>3. \E x \in T : \A y \in T : ~ (y < x)
  BY <1>1, <1>2, Zenon
<1> QED
  BY <1>3

LEMMA MinOf ==
    ASSUME NEW T, T \subseteq Nat, T # {}
    PROVE  Min(T) \in T /\ \A k \in T : Min(T) <= k
<1>1. \E m \in T : \A k \in T : m <= k
  BY Least
<1> QED
  BY <1>1, Zenon DEF Min

LEMMA MaxOf ==
    ASSUME NEW n \in Nat, NEW T, T \subseteq 1..n, T # {}
    PROVE  Max(T) \in T /\ \A k \in T : Max(T) >= k
<1> DEFINE U == {u \in Nat : \A k \in T : k <= u}
<1>1. n \in U
  OBVIOUS
<1>2. PICK m \in U : \A u \in U : m <= u
  <2>1. U \subseteq Nat /\ U # {}
    BY <1>1
  <2> HIDE DEF U
  <2> QED
    BY <2>1, Least
<1>3. m \in T
  <2>1. m \in Nat /\ \A k \in T : k \in 1..n /\ k <= m
    BY <1>2
  <2>2. m # 0
    <3>1. PICK k \in T : TRUE
      OBVIOUS
    <3> QED
      BY <2>1, <3>1
  <2>3. SUFFICES ASSUME m \notin T PROVE m - 1 \in U
    BY <1>2, <2>1, <2>2
  <2>4. \A k \in T : k <= m - 1
    BY <2>1, <2>3
  <2> QED
    BY <2>1, <2>2, <2>4
<1>4. \E x \in T : \A k \in T : x >= k
  BY <1>2, <1>3
<1> QED
  BY <1>4, Zenon DEF Max

\* A property of 0 that each number hands to the next one.
LEMMA UpTo ==
    ASSUME NEW n \in Nat, NEW G, 0 \in G, \A i \in 0..(n - 1) : i \in G => i + 1 \in G
    PROVE  0..n \subseteq G
<1> SUFFICES ASSUME (0..n) \ G # {} PROVE FALSE
  OBVIOUS
<1>1. PICK m \in (0..n) \ G : \A k \in (0..n) \ G : m <= k
  <2>1. (0..n) \ G \subseteq Nat
    OBVIOUS
  <2> QED
    BY <2>1, Least
<1>2. m - 1 \in 0..(n - 1) /\ m - 1 \in G
  BY <1>1
<1> QED
  BY <1>1, <1>2

LEMMA ToSetAppend ==
    ASSUME NEW T, NEW s \in Seq(T), NEW e
    PROVE  ToSet(Append(s, e)) = ToSet(s) \cup {e}
<1>0. s \in Seq(T \cup {e}) /\ e \in T \cup {e}
  OBVIOUS
<1>1. \A i \in 1..Len(s) : i \in DOMAIN Append(s, e) /\ Append(s, e)[i] = s[i]
  BY <1>0
<1>2. Len(s) + 1 \in DOMAIN Append(s, e) /\ Append(s, e)[Len(s) + 1] = e
  BY <1>0
<1>3. DOMAIN Append(s, e) = 1..(Len(s) + 1)
  BY <1>0
<1> QED
  BY <1>1, <1>2, <1>3 DEF ToSet

LEMMA ToSetIn ==
    ASSUME NEW T, NEW s \in Seq(T)
    PROVE  ToSet(s) \subseteq T /\ s \in Seq(ToSet(s))
BY DEF ToSet

LEMMA ToSetConcat ==
    ASSUME NEW T, NEW s \in Seq(T), NEW t \in Seq(T)
    PROVE  s \o t \in Seq(T) /\ ToSet(s \o t) = ToSet(s) \cup ToSet(t)
<1>1. /\ s \o t \in Seq(T) /\ Len(s \o t) = Len(s) + Len(t)
      /\ \A i \in 1..(Len(s) + Len(t)) : (s \o t)[i] = IF i <= Len(s) THEN s[i] ELSE t[i - Len(s)]
  BY ConcatProperties
<1>2. ToSet(s \o t) \subseteq ToSet(s) \cup ToSet(t)
  BY <1>1 DEF ToSet
<1>3. \A i \in 1..Len(s) : i \in 1..(Len(s) + Len(t)) /\ (s \o t)[i] = s[i]
  BY <1>1
<1>4. \A i \in 1..Len(t) : i + Len(s) \in 1..(Len(s) + Len(t)) /\ (s \o t)[i + Len(s)] = t[i]
  BY <1>1
<1>5. ToSet(s) \cup ToSet(t) \subseteq ToSet(s \o t)
  <2>1. DOMAIN (s \o t) = 1..(Len(s) + Len(t)) /\ DOMAIN s = 1..Len(s) /\ DOMAIN t = 1..Len(t)
    BY <1>1
  <2>2. \A i \in DOMAIN s : s[i] \in ToSet(s \o t)
    BY <1>3, <2>1 DEF ToSet
  <2>3. \A i \in DOMAIN t : t[i] \in ToSet(s \o t)
    BY <1>4, <2>1 DEF ToSet
  <2> QED
    BY <2>2, <2>3 DEF ToSet
<1> QED
  BY <1>1, <1>2, <1>5

LEMMA ToSetSub ==
    ASSUME NEW T, NEW s \in Seq(T), NEW a \in 1..(Len(s) + 1), NEW b \in 0..Len(s)
    PROVE  SubSeq(s, a, b) \in Seq(T) /\ ToSet(SubSeq(s, a, b)) = {s[i] : i \in a..b}
<1>1. /\ SubSeq(s, a, b) \in Seq(T)
      /\ Len(SubSeq(s, a, b)) = IF a <= b THEN b - a + 1 ELSE 0
      /\ \A i \in 1..(b - a + 1) : SubSeq(s, a, b)[i] = s[a + i - 1]
  BY SubSeqProperties
<1>2. ToSet(SubSeq(s, a, b)) \subseteq {s[i] : i \in a..b}
  BY <1>1 DEF ToSet
<1>3. \A i \in a..b : i - a + 1 \in 1..(b - a + 1) /\ SubSeq(s, a, b)[i - a + 1] = s[i]
  BY <1>1
<1>4. {s[i] : i \in a..b} \subseteq ToSet(SubSeq(s, a, b))
  <2>1. \A i \in a..b : i - a + 1 \in DOMAIN SubSeq(s, a, b)
    BY <1>1
  <2> QED
    BY <1>3, <2>1 DEF ToSet
<1> QED
  BY <1>1, <1>2, <1>4

KeptFcn(f, s, S, n) ==
    f = [i \in 0..n |->
            IF i = 0 THEN <<>> ELSE IF s[i] \in S THEN f[i - 1] ELSE Append(f[i - 1], s[i])]

KeptRight(f, T, s, S, n) ==
    \A i \in 0..n : f[i] \in Seq(T) /\ ToSet(f[i]) = {s[j] : j \in 1..i} \ S

\* The sequence built up one member at a time, up to n.
LEMMA KeptGrows ==
    ASSUME NEW T, NEW s \in Seq(T), NEW S, NEW n \in Nat, n < Len(s), NEW f,
           KeptFcn(f, s, S, n), KeptRight(f, T, s, S, n)
    PROVE  \E g : KeptFcn(g, s, S, n + 1) /\ KeptRight(g, T, s, S, n + 1)
<1> DEFINE x == IF s[n + 1] \in S THEN f[n] ELSE Append(f[n], s[n + 1])
           g == [i \in 0..(n + 1) |-> IF i = n + 1 THEN x ELSE f[i]]
<1>0. n + 1 \in 1..Len(s) /\ n \in 0..n
  OBVIOUS
<1>1. s[n + 1] \in T /\ f[n] \in Seq(T) /\ ToSet(f[n]) = {s[j] : j \in 1..n} \ S
  <2>1. f[n] \in Seq(T) /\ ToSet(f[n]) = {s[j] : j \in 1..n} \ S
    BY <1>0, Zenon DEF KeptRight
  <2> QED
    BY <1>0, <2>1
<1>2. x \in Seq(T) /\ ToSet(x) = {s[j] : j \in 1..(n + 1)} \ S
  <2>1. {s[j] : j \in 1..(n + 1)} = {s[j] : j \in 1..n} \cup {s[n + 1]}
    OBVIOUS
  <2>2. CASE s[n + 1] \in S
    BY <1>1, <2>1, <2>2
  <2>3. CASE s[n + 1] \notin S
    <3>1. Append(f[n], s[n + 1]) \in Seq(T)
      BY <1>1
    <3>2. ToSet(Append(f[n], s[n + 1])) = ToSet(f[n]) \cup {s[n + 1]}
      BY <1>1, ToSetAppend
    <3> QED
      BY <1>1, <2>1, <2>3, <3>1, <3>2
  <2> QED
    BY <2>2, <2>3
<1>3. f = [i \in 0..n |->
            IF i = 0 THEN <<>> ELSE IF s[i] \in S THEN f[i - 1] ELSE Append(f[i - 1], s[i])]
  BY DEF KeptFcn
<1>4. \A i \in 0..n : g[i] = f[i]
  OBVIOUS
<1>5. g[n + 1] = x /\ n + 1 \in 0..(n + 1)
  OBVIOUS
<1>6. \A i \in 0..(n + 1) :
         g[i] = IF i = 0 THEN <<>> ELSE IF s[i] \in S THEN g[i - 1] ELSE Append(g[i - 1], s[i])
  <2> SUFFICES ASSUME NEW i \in 0..(n + 1)
               PROVE g[i] = IF i = 0 THEN <<>> ELSE IF s[i] \in S THEN g[i - 1] ELSE Append(g[i - 1], s[i])
    OBVIOUS
  <2>1. CASE i = n + 1
    BY <1>4, <1>5, <2>1
  <2>2. CASE i \in 0..n
    <3>1. g[i] = f[i] /\ (i # 0 => i - 1 \in 0..n /\ g[i - 1] = f[i - 1])
      BY <1>4, <2>2
    <3>2. f[i] = IF i = 0 THEN <<>> ELSE IF s[i] \in S THEN f[i - 1] ELSE Append(f[i - 1], s[i])
      BY <1>3, <2>2
    <3> HIDE DEF g, x
    <3> QED
      BY <3>1, <3>2
  <2> QED
    BY <2>1, <2>2
<1>7. KeptFcn(g, s, S, n + 1)
  BY <1>6 DEF KeptFcn
<1>8. KeptRight(g, T, s, S, n + 1)
  <2>1. \A i \in 0..n : g[i] \in Seq(T) /\ ToSet(g[i]) = {s[j] : j \in 1..i} \ S
    BY <1>4 DEF KeptRight
  <2> HIDE DEF g, x
  <2> QED
    BY <1>2, <1>5, <2>1 DEF KeptRight
<1> QED
  BY <1>7, <1>8

LEMMA WithoutOf ==
    ASSUME NEW T, NEW s \in Seq(T), NEW S
    PROVE  Without(s, S) \in Seq(T) /\ ToSet(Without(s, S)) = ToSet(s) \ S
<1> DEFINE G == {n \in Nat : \E f : KeptFcn(f, s, S, n) /\ KeptRight(f, T, s, S, n)}
<1>1. 0 \in G
  <2> DEFINE f == [i \in 0..0 |-> <<>>]
  <2>1. KeptFcn(f, s, S, 0)
    BY DEF KeptFcn
  <2>2. KeptRight(f, T, s, S, 0)
    BY DEF KeptRight, ToSet
  <2> QED
    BY <2>1, <2>2
<1>2. \A n \in 0..(Len(s) - 1) : n \in G => n + 1 \in G
  BY KeptGrows
<1>3. Len(s) \in G
  <2>1. Len(s) \in Nat /\ Len(s) \in 0..Len(s)
    OBVIOUS
  <2> HIDE DEF G
  <2> QED
    BY <1>1, <1>2, <2>1, UpTo
<1>4. PICK h : KeptFcn(h, s, S, Len(s)) /\ KeptRight(h, T, s, S, Len(s))
  BY <1>3
<1>5. PICK f : KeptFcn(f, s, S, Len(s)) /\ Without(s, S) = f[Len(s)]
  BY <1>4, Zenon DEF Without, KeptFcn
<1>6. f = h
  <2> DEFINE E == {n \in Nat : n <= Len(s) => f[n] = h[n]}
  <2>1. 0 \in E
    BY <1>4, <1>5 DEF KeptFcn
  <2>2. ASSUME NEW n \in 0..(Len(s) - 1), n \in E PROVE n + 1 \in E
    <3>1. n + 1 \in 0..Len(s) /\ n + 1 # 0 /\ (n + 1) - 1 = n /\ f[n] = h[n] /\ n + 1 \in Nat
      BY <2>2
    <3>2. f[n + 1] = IF s[n + 1] \in S THEN f[n] ELSE Append(f[n], s[n + 1])
      BY <1>5, <3>1 DEF KeptFcn
    <3>3. h[n + 1] = IF s[n + 1] \in S THEN h[n] ELSE Append(h[n], s[n + 1])
      BY <1>4, <3>1 DEF KeptFcn
    <3> QED
      BY <3>1, <3>2, <3>3
  <2>3. 0..Len(s) \subseteq E
    <3> HIDE DEF E
    <3> QED
      BY <2>1, <2>2, UpTo, Len(s) \in Nat
  <2> QED
    BY <1>4, <1>5, <2>3 DEF KeptFcn
<1>7. f[Len(s)] \in Seq(T) /\ ToSet(f[Len(s)]) = {s[j] : j \in 1..Len(s)} \ S
  <2>1. Len(s) \in 0..Len(s)
    OBVIOUS
  <2> QED
    BY <1>4, <1>6, <2>1 DEF KeptRight
<1> QED
  BY <1>5, <1>7 DEF ToSet

(***************************************************************************)
(* Messages and outside waits: what each operation leaves of the buffer,   *)
(* of the channels that wait or were served, and of the keys.              *)
(***************************************************************************)
Channels(m) == m.box \cup ToSet(m.blocked)

LEMMA MessagesGrow ==
    ASSUME NEW m, NEW N, NEW H, NEW W, NEW V, W \subseteq V, MessagesOK(m, N, H, W)
    PROVE  MessagesOK(m, N, H, V)
<1>1. m.blocked \in Seq(V)
  BY DEF MessagesOK
<1> QED
  BY <1>1 DEF MessagesOK

LEMMA SendMessageOf ==
    ASSUME NEW m, NEW N, NEW H, NEW W, MessagesOK(m, N, H, W), NEW node \in N
    PROVE  LET r == SendMessage(m, node) IN
           /\ MessagesOK(r, N, H, W) /\ r.ext = m.ext /\ m.box \subseteq r.box
           /\ Channels(r) = Channels(m) /\ ToSet(r.buf) \subseteq ToSet(m.buf) \cup {node}
<1> DEFINE r == SendMessage(m, node)
<1>1. CASE m.blocked = <<>>
  <2>1. r = [m EXCEPT !.buf = Append(@, node)]
    BY <1>1 DEF SendMessage
  <2>2. /\ r = [buf |-> Append(m.buf, node), blocked |-> m.blocked, box |-> m.box, ext |-> m.ext]
    BY <2>1 DEF MessagesOK
  <2>3. ToSet(Append(m.buf, node)) = ToSet(m.buf) \cup {node} /\ Append(m.buf, node) \in Seq(N)
    BY ToSetAppend DEF MessagesOK
  <2> HIDE DEF r
  <2>4. r.buf = Append(m.buf, node) /\ r.blocked = m.blocked /\ r.box = m.box /\ r.ext = m.ext
    BY <2>2
  <2>5. MessagesOK(r, N, H, W)
    BY <2>2, <2>3, <2>4 DEF MessagesOK
  <2> QED
    BY <2>3, <2>4, <2>5 DEF r, Channels
<1>2. CASE m.blocked # <<>>
  <2>1. r = [m EXCEPT !.box = @ \cup {Head(m.blocked)}, !.blocked = Tail(@)]
    BY <1>2 DEF SendMessage
  <2>2. r = [buf |-> m.buf, blocked |-> Tail(m.blocked), box |-> m.box \cup {Head(m.blocked)}, ext |-> m.ext]
    BY <2>1 DEF MessagesOK
  <2>3. m.blocked \in Seq(W)
    BY DEF MessagesOK
  <2>4. /\ Head(m.blocked) \in W /\ Tail(m.blocked) \in Seq(W)
        /\ ToSet(m.blocked) = {Head(m.blocked)} \cup ToSet(Tail(m.blocked))
    <3>1. m.blocked = <<Head(m.blocked)>> \o Tail(m.blocked) /\ Head(m.blocked) \in W /\ Tail(m.blocked) \in Seq(W)
      BY <1>2, <2>3
    <3>2. <<Head(m.blocked)>> \in Seq(W) /\ ToSet(<<Head(m.blocked)>>) = {Head(m.blocked)}
      BY <3>1 DEF ToSet
    <3> DEFINE h == <<Head(m.blocked)>>
               u == Tail(m.blocked)
    <3>3. h \in Seq(W) /\ u \in Seq(W)
      BY <3>1, <3>2
    <3>4. ToSet(h \o u) = ToSet(h) \cup ToSet(u)
      <4> HIDE DEF h, u
      <4> QED
        BY <3>3, ToSetConcat
    <3> QED
      BY <3>1, <3>2, <3>4
  <2> HIDE DEF r
  <2>5. /\ r.buf = m.buf /\ r.blocked = Tail(m.blocked) /\ r.box = m.box \cup {Head(m.blocked)}
        /\ r.ext = m.ext
    BY <2>2
  <2>6. MessagesOK(r, N, H, W)
    BY <2>2, <2>4, <2>5 DEF MessagesOK
  <2> QED
    BY <2>4, <2>5, <2>6 DEF r, Channels
<1> QED
  BY <1>1, <1>2

LEMMA WaitChannelOf ==
    ASSUME NEW m, NEW N, NEW H, NEW W, MessagesOK(m, N, H, W), NEW ws \in Seq(W)
    PROVE  LET r == WaitChannel(m, ws) IN
           /\ MessagesOK(r, N, H, W) /\ r.ext = m.ext /\ m.box \subseteq r.box
           /\ Channels(r) = Channels(m) \cup ToSet(ws) /\ ToSet(r.buf) \subseteq ToSet(m.buf)
<1> DEFINE t == IF Len(ws) <= Len(m.buf) THEN Len(ws) ELSE Len(m.buf)
           got == {ws[k] : k \in 1..t}
           later == SubSeq(ws, t + 1, Len(ws))
           rest == SubSeq(m.buf, t + 1, Len(m.buf))
           r == WaitChannel(m, ws)
<1>1. m.buf \in Seq(N) /\ m.blocked \in Seq(W) /\ m.box \subseteq W
  BY DEF MessagesOK
<1>2. t \in 0..Len(ws) /\ t \in 0..Len(m.buf) /\ Len(ws) \in Nat /\ Len(m.buf) \in Nat
  BY <1>1
<1>3. r = [m EXCEPT !.box = @ \cup got, !.buf = rest, !.blocked = @ \o later]
  BY DEF WaitChannel
<1> HIDE DEF t, r
<1>4. later \in Seq(W) /\ ToSet(later) = {ws[k] : k \in (t + 1)..Len(ws)}
  BY <1>2, ToSetSub
<1>5. rest \in Seq(N) /\ ToSet(rest) = {m.buf[k] : k \in (t + 1)..Len(m.buf)}
  <2>1. t + 1 \in 1..(Len(m.buf) + 1) /\ Len(m.buf) \in 0..Len(m.buf)
    BY <1>2
  <2> DEFINE q == m.buf
  <2>2. q \in Seq(N) /\ t + 1 \in 1..(Len(q) + 1) /\ Len(q) \in 0..Len(q)
    BY <1>1, <2>1
  <2>3. SubSeq(q, t + 1, Len(q)) \in Seq(N) /\ ToSet(SubSeq(q, t + 1, Len(q))) = {q[k] : k \in (t + 1)..Len(q)}
    <3> HIDE DEF q
    <3> QED
      BY <2>2, ToSetSub
  <2> QED
    BY <2>3
<1>6. got \cup ToSet(later) = ToSet(ws) /\ got \subseteq W
  <2>1. DOMAIN ws = 1..Len(ws) /\ \A k \in DOMAIN ws : ws[k] \in W
    OBVIOUS
  <2>2. 1..t \subseteq DOMAIN ws /\ (t + 1)..Len(ws) \subseteq DOMAIN ws
    BY <1>2, <2>1
  <2>3. DOMAIN ws \subseteq (1..t) \cup ((t + 1)..Len(ws))
    BY <1>2, <2>1
  <2> HIDE DEF later
  <2> QED
    BY <1>4, <2>1, <2>2, <2>3 DEF ToSet
<1>7. ToSet(rest) \subseteq ToSet(m.buf)
  BY <1>1, <1>2, <1>5 DEF ToSet
<1> HIDE DEF got, later, rest
<1>8. r = [buf |-> rest, blocked |-> m.blocked \o later, box |-> m.box \cup got, ext |-> m.ext]
  BY <1>3 DEF MessagesOK
<1>9. m.blocked \o later \in Seq(W) /\ ToSet(m.blocked \o later) = ToSet(m.blocked) \cup ToSet(later)
  BY <1>1, <1>4, ToSetConcat
<1>10. r.buf = rest /\ r.blocked = m.blocked \o later /\ r.box = m.box \cup got /\ r.ext = m.ext
  BY <1>8
<1>11. MessagesOK(r, N, H, W)
  BY <1>1, <1>5, <1>6, <1>8, <1>9, <1>10 DEF MessagesOK
<1> QED
  BY <1>6, <1>7, <1>9, <1>10, <1>11 DEF r, Channels

LEMMA CancelWaitOf ==
    ASSUME NEW m, NEW N, NEW H, NEW W, MessagesOK(m, N, H, W), NEW ws
    PROVE  LET r == CancelWait(m, ws) IN
           /\ MessagesOK(r, N, H, W) /\ r.ext = m.ext /\ r.box = m.box /\ r.buf = m.buf
           /\ ToSet(r.blocked) = ToSet(m.blocked) \ ws
<1> DEFINE r == CancelWait(m, ws)
<1>1. Without(m.blocked, ws) \in Seq(W) /\ ToSet(Without(m.blocked, ws)) = ToSet(m.blocked) \ ws
  BY WithoutOf DEF MessagesOK
<1>2. r = [buf |-> m.buf, blocked |-> Without(m.blocked, ws), box |-> m.box, ext |-> m.ext]
  BY DEF CancelWait, MessagesOK
<1> HIDE DEF r
<1>3. r.buf = m.buf /\ r.blocked = Without(m.blocked, ws) /\ r.box = m.box /\ r.ext = m.ext
  BY <1>2
<1>4. MessagesOK(r, N, H, W)
  BY <1>1, <1>2, <1>3 DEF MessagesOK
<1> QED
  BY <1>1, <1>3, <1>4 DEF r

LEMMA ResetSpanOf ==
    ASSUME NEW m, NEW N, NEW H, NEW W, MessagesOK(m, N, H, W), NEW span
    PROVE  LET r == ResetSpan(m, span) IN
           /\ MessagesOK(r, N, H, W) /\ r.ext = m.ext /\ r.box = m.box /\ r.blocked = m.blocked
           /\ ToSet(r.buf) = ToSet(m.buf) \ span
<1> DEFINE r == ResetSpan(m, span)
<1>1. Without(m.buf, span) \in Seq(N) /\ ToSet(Without(m.buf, span)) = ToSet(m.buf) \ span
  BY WithoutOf DEF MessagesOK
<1>2. r = [buf |-> Without(m.buf, span), blocked |-> m.blocked, box |-> m.box, ext |-> m.ext]
  BY DEF ResetSpan, MessagesOK
<1> HIDE DEF r
<1>3. r.buf = Without(m.buf, span) /\ r.blocked = m.blocked /\ r.box = m.box /\ r.ext = m.ext
  BY <1>2
<1>4. MessagesOK(r, N, H, W)
  BY <1>1, <1>2, <1>3 DEF MessagesOK
<1> QED
  BY <1>1, <1>3, <1>4 DEF r

LEMMA BoxOf ==
    ASSUME NEW m, NEW N, NEW H, NEW W, MessagesOK(m, N, H, W), NEW b, b \subseteq W
    PROVE  LET r == [m EXCEPT !.box = b] IN
           MessagesOK(r, N, H, W) /\ r.ext = m.ext /\ r.box = b /\ r.buf = m.buf /\ r.blocked = m.blocked
<1> DEFINE r == [m EXCEPT !.box = b]
<1>1. r = [buf |-> m.buf, blocked |-> m.blocked, box |-> b, ext |-> m.ext]
  BY DEF MessagesOK
<1> HIDE DEF r
<1>2. r.buf = m.buf /\ r.blocked = m.blocked /\ r.box = b /\ r.ext = m.ext
  BY <1>1
<1>3. MessagesOK(r, N, H, W)
  BY <1>1, <1>2 DEF MessagesOK
<1> QED
  BY <1>2, <1>3 DEF r

LEMMA WaitExternalOf ==
    ASSUME NEW m, NEW N, NEW H, NEW W, MessagesOK(m, N, H, W), NEW i, NEW n,
           NEW keys, \A k \in keys : k \in [host: H, bnd: Nat] /\ <<i, n, k.bnd>> \in W
    PROVE  LET r == WaitExternal(m, keys, i, n) IN
           /\ MessagesOK(r, N, H, W) /\ r.box = m.box /\ r.buf = m.buf /\ r.blocked = m.blocked
           /\ DOMAIN r.ext = DOMAIN m.ext \cup keys
           /\ \A k \in DOMAIN r.ext : r.ext[k] = IF k \in keys THEN <<i, n, k.bnd>> ELSE m.ext[k]
<1> DEFINE r == WaitExternal(m, keys, i, n)
           e == [k \in DOMAIN m.ext \cup keys |-> IF k \in keys THEN <<i, n, k.bnd>> ELSE m.ext[k]]
<1>1. r = [buf |-> m.buf, blocked |-> m.blocked, box |-> m.box, ext |-> e]
  <2>1. r = [m EXCEPT !.ext = e]
    BY DEF WaitExternal
  <2> HIDE DEF r, e
  <2> QED
    BY <2>1 DEF MessagesOK
<1>2. /\ DOMAIN e = DOMAIN m.ext \cup keys /\ e = [k \in DOMAIN e |-> e[k]]
      /\ \A k \in DOMAIN e : e[k] = IF k \in keys THEN <<i, n, k.bnd>> ELSE m.ext[k]
  OBVIOUS
<1> HIDE DEF r, e
<1>3. r.buf = m.buf /\ r.blocked = m.blocked /\ r.box = m.box /\ r.ext = e
  BY <1>1
<1>4. \A k \in DOMAIN e : k \in [host: H, bnd: Nat] /\ e[k] \in W
  BY <1>2 DEF MessagesOK
<1>5. MessagesOK(r, N, H, W)
  BY <1>1, <1>2, <1>3, <1>4 DEF MessagesOK
<1> QED
  BY <1>2, <1>3, <1>5 DEF r

LEMMA ForgottenOf ==
    ASSUME NEW m, NEW N, NEW H, NEW W, MessagesOK(m, N, H, W), NEW keys
    PROVE  LET r == Forgotten(m, keys) IN
           /\ MessagesOK(r, N, H, W) /\ r.box = m.box /\ r.buf = m.buf /\ r.blocked = m.blocked
           /\ DOMAIN r.ext = DOMAIN m.ext \ keys /\ \A k \in DOMAIN r.ext : r.ext[k] = m.ext[k]
<1> DEFINE r == Forgotten(m, keys)
           e == [k \in DOMAIN m.ext \ keys |-> m.ext[k]]
<1>1. r = [buf |-> m.buf, blocked |-> m.blocked, box |-> m.box, ext |-> e]
  <2>1. r = [m EXCEPT !.ext = e]
    BY DEF Forgotten
  <2> HIDE DEF r, e
  <2> QED
    BY <2>1 DEF MessagesOK
<1>2. /\ DOMAIN e = DOMAIN m.ext \ keys /\ e = [k \in DOMAIN e |-> e[k]]
      /\ \A k \in DOMAIN e : e[k] = m.ext[k]
  OBVIOUS
<1> HIDE DEF r, e
<1>3. r.buf = m.buf /\ r.blocked = m.blocked /\ r.box = m.box /\ r.ext = e
  BY <1>1
<1>4. \A k \in DOMAIN e : k \in [host: H, bnd: Nat] /\ e[k] \in W
  BY <1>2 DEF MessagesOK
<1>5. MessagesOK(r, N, H, W)
  BY <1>1, <1>2, <1>3, <1>4 DEF MessagesOK
<1> QED
  BY <1>2, <1>3, <1>5 DEF r

\* Only the coroutine's own wait is dropped from a key.
LEMMA CancelExternalOf ==
    ASSUME NEW m, NEW N, NEW H, NEW W, MessagesOK(m, N, H, W), NEW keys, NEW i, NEW n
    PROVE  LET r == CancelExternal(m, keys, i, n) IN
           /\ MessagesOK(r, N, H, W) /\ r.box = m.box /\ r.buf = m.buf /\ r.blocked = m.blocked
           /\ DOMAIN r.ext \subseteq DOMAIN m.ext /\ \A k \in DOMAIN r.ext : r.ext[k] = m.ext[k]
           /\ \A k \in DOMAIN m.ext : m.ext[k] # <<i, n, k.bnd>> => k \in DOMAIN r.ext
<1> DEFINE own == {k \in keys \cap DOMAIN m.ext : m.ext[k] = <<i, n, k.bnd>>}
           r == Forgotten(m, own)
<1>1. /\ MessagesOK(r, N, H, W) /\ r.box = m.box /\ r.buf = m.buf /\ r.blocked = m.blocked
      /\ DOMAIN r.ext = DOMAIN m.ext \ own /\ \A k \in DOMAIN r.ext : r.ext[k] = m.ext[k]
  BY ForgottenOf
<1>2. CancelExternal(m, keys, i, n) = r
  BY DEF CancelExternal
<1> HIDE DEF r
<1> QED
  BY <1>1, <1>2

LEMMA AddBoundariesOf ==
    ASSUME NEW m, NEW N, NEW H, NEW W, MessagesOK(m, N, H, W), NEW host \in H, NEW P,
           NEW bnds \in Seq(P), NEW i, NEW n, \A j \in DOMAIN bnds : <<i, n, j>> \in W
    PROVE  LET r == AddBoundaries(m, host, bnds, i, n)
               keys == ExternalKeys(host, bnds) IN
           /\ MessagesOK(r, N, H, W) /\ m.box \subseteq r.box /\ ToSet(r.buf) \subseteq ToSet(m.buf)
           /\ Channels(r) = Channels(m) \cup {<<i, n, j>> : j \in OfKind(bnds, "message")}
           /\ DOMAIN r.ext = DOMAIN m.ext \cup keys
           /\ \A k \in DOMAIN r.ext : r.ext[k] = IF k \in keys THEN <<i, n, k.bnd>> ELSE m.ext[k]
<1> DEFINE all == [j \in DOMAIN bnds |-> <<i, n, j>>]
           other == {<<i, n, j>> : j \in DOMAIN bnds \ OfKind(bnds, "message")}
           ws == Without(all, other)
           keys == ExternalKeys(host, bnds)
           c == WaitChannel(m, ws)
           r == WaitExternal(c, keys, i, n)
<1>1. all \in Seq(W) /\ ToSet(all) = {<<i, n, j>> : j \in DOMAIN bnds}
  <2>1. DOMAIN bnds = 1..Len(bnds) /\ Len(bnds) \in Nat
    OBVIOUS
  <2> QED
    BY <2>1 DEF ToSet
<1>2. ws \in Seq(W) /\ ToSet(ws) = {<<i, n, j>> : j \in OfKind(bnds, "message")}
  <2>1. ws \in Seq(W) /\ ToSet(ws) = ToSet(all) \ other
    <3> HIDE DEF all, other
    <3> QED
      BY <1>1, WithoutOf
  <2>2. {<<i, n, j>> : j \in DOMAIN bnds} \ other = {<<i, n, j>> : j \in OfKind(bnds, "message")}
    BY DEF OfKind
  <2> QED
    BY <1>1, <2>1, <2>2
<1> HIDE DEF ws
<1>3. /\ MessagesOK(c, N, H, W) /\ c.ext = m.ext /\ m.box \subseteq c.box
      /\ Channels(c) = Channels(m) \cup ToSet(ws) /\ ToSet(c.buf) \subseteq ToSet(m.buf)
  BY <1>2, WaitChannelOf
<1> HIDE DEF c
<1>4. \A k \in keys : k \in [host: H, bnd: Nat] /\ <<i, n, k.bnd>> \in W
  BY DEF ExternalKeys, OfKind, Key
<1>5. /\ MessagesOK(r, N, H, W) /\ r.box = c.box /\ r.buf = c.buf /\ r.blocked = c.blocked
      /\ DOMAIN r.ext = DOMAIN c.ext \cup keys
      /\ \A k \in DOMAIN r.ext : r.ext[k] = IF k \in keys THEN <<i, n, k.bnd>> ELSE c.ext[k]
  <2> HIDE DEF keys
  <2> QED
    BY <1>3, <1>4, WaitExternalOf
<1>6. AddBoundaries(m, host, bnds, i, n) = r
  BY DEF AddBoundaries, c, ws
<1>7. Channels(r) = Channels(c)
  BY <1>5 DEF Channels
<1> HIDE DEF r
<1> QED
  BY <1>2, <1>3, <1>5, <1>6, <1>7

LEMMA CancelBoundariesOf ==
    ASSUME NEW m, NEW N, NEW H, NEW W, MessagesOK(m, N, H, W), NEW host, NEW bnds, NEW i, NEW n
    PROVE  LET r == CancelBoundaries(m, host, bnds, i, n) IN
           /\ MessagesOK(r, N, H, W) /\ r.box = m.box /\ r.buf = m.buf
           /\ ToSet(r.blocked) = ToSet(m.blocked) \ {<<i, n, j>> : j \in DOMAIN bnds}
           /\ DOMAIN r.ext \subseteq DOMAIN m.ext /\ \A k \in DOMAIN r.ext : r.ext[k] = m.ext[k]
           /\ \A k \in DOMAIN m.ext : m.ext[k] # <<i, n, k.bnd>> => k \in DOMAIN r.ext
<1> DEFINE own == {<<i, n, j>> : j \in DOMAIN bnds}
           c == CancelWait(m, own)
           r == CancelExternal(c, ExternalKeys(host, bnds), i, n)
<1>1. /\ MessagesOK(c, N, H, W) /\ c.ext = m.ext /\ c.box = m.box /\ c.buf = m.buf
      /\ ToSet(c.blocked) = ToSet(m.blocked) \ own
  <2> HIDE DEF own
  <2> QED
    BY CancelWaitOf
<1>2. CancelBoundaries(m, host, bnds, i, n) = r
  BY DEF CancelBoundaries
<1> HIDE DEF c
<1>3. /\ MessagesOK(r, N, H, W) /\ r.box = c.box /\ r.buf = c.buf /\ r.blocked = c.blocked
      /\ DOMAIN r.ext \subseteq DOMAIN c.ext /\ \A k \in DOMAIN r.ext : r.ext[k] = c.ext[k]
      /\ \A k \in DOMAIN c.ext : c.ext[k] # <<i, n, k.bnd>> => k \in DOMAIN r.ext
  BY <1>1, CancelExternalOf
<1> HIDE DEF r
<1> QED
  BY <1>1, <1>2, <1>3

\* Going back to a node keeps what is before it, and takes the rest back.
LEMMA PopToOf ==
    ASSUME NEW N, NEW h \in Seq(N), NEW node
    PROVE  PopTo(h, node) \in Seq(N) /\ ToSet(h) \ Popped(h, node) \subseteq ToSet(PopTo(h, node))
<1> DEFINE at == {j \in DOMAIN h : h[j] = node}
<1>1. CASE at = {}
  <2>1. PopTo(h, node) = <<>> /\ Popped(h, node) = ToSet(h)
    BY <1>1 DEF PopTo, Popped
  <2> QED
    BY <2>1
<1>2. CASE at # {}
  <2> DEFINE x == Max(at)
  <2>1. PopTo(h, node) = SubSeq(h, 1, x - 1) /\ Popped(h, node) = {h[j] : j \in x..Len(h)}
    BY <1>2 DEF PopTo, Popped
  <2>2. x \in 1..Len(h)
    <3>1. at \subseteq 1..Len(h) /\ Len(h) \in Nat
      OBVIOUS
    <3> HIDE DEF at
    <3> QED
      BY <1>2, <3>1, MaxOf
  <2> HIDE DEF x
  <2>3. SubSeq(h, 1, x - 1) \in Seq(N) /\ ToSet(SubSeq(h, 1, x - 1)) = {h[j] : j \in 1..(x - 1)}
    <3>1. 1 \in 1..(Len(h) + 1) /\ x - 1 \in 0..Len(h)
      BY <2>2
    <3> QED
      BY <3>1, ToSetSub
  <2>4. \A j \in DOMAIN h : j \in 1..(x - 1) \/ j \in x..Len(h)
    BY <2>2
  <2> QED
    BY <2>1, <2>3, <2>4 DEF ToSet
<1> QED
  BY <1>1, <1>2

(***************************************************************************)
(* Types.                                                                  *)
(***************************************************************************)
\* The plan does not change, and with it nothing a coroutine may hold.
LEMMA PlanKept ==
    ASSUME plan' = plan
    PROVE  /\ Coroutines' = Coroutines /\ Nodes' = Nodes /\ Hosts' = Hosts /\ Items' = Items
           /\ Steps(plan, {0})' = Steps(plan, {0})
<1>1. Targets(plan)' = Targets(plan) /\ Lists(plan)' = Lists(plan)
  BY DEF Targets
<1>2. Paths(plan)' = Paths(plan) /\ ErrorPaths(plan)' = ErrorPaths(plan) /\ Branches(plan)' = Branches(plan)
  BY <1>1 DEF Paths, ErrorPaths, Branches
<1>3. Items' = Items /\ Steps(plan, {0})' = Steps(plan, {0})
  BY <1>1, <1>2 DEF Items, Steps
<1>4. Nodes' = Nodes /\ Hosts' = Hosts
  BY DEF Nodes, Hosts
<1> QED
  BY <1>2, <1>3, <1>4 DEF Coroutines

CoTypes(cs) == cs \in Seq(Coroutines) /\ \A i \in 1..Len(cs) : CoroutineOK(cs[i], i, Len(cs))

LEMMA PlanTyped ==
    ASSUME plan \in Plans
    PROVE  /\ Seq(Steps(plan, {0})) \subseteq Seq(Items) /\ Lists(plan) \subseteq Seq(Steps(plan, {0}))
           /\ plan.steps \in Seq(Steps(plan, {0}))
           /\ \A d \in DOMAIN plan.depts : /\ plan.depts[d] \in Seq(Stages(plan))
                                           /\ Redirects(plan, d) \subseteq Seq(Steps(plan, {0}))
<1>1. /\ plan.depts \in [DOMAIN plan.depts -> Seq(Stages(plan))]
      /\ plan.steps \in Lists(plan) /\ Lists(plan) \subseteq Seq(Steps(plan, {0}))
      /\ \A d \in DOMAIN plan.depts : Redirects(plan, d) \subseteq Seq(Steps(plan, {0}))
  BY PlanAssumption
<1>2. Steps(plan, {0}) \subseteq Steps(plan, 0..MaxCycles)
  BY RunAssumption DEF Steps
<1>3. Steps(plan, {0}) \subseteq Items
  BY <1>2 DEF Items
<1> QED
  BY <1>1, <1>3

LEMMA MatchOf ==
    ASSUME NEW E, NEW errs \in Seq(E), NEW code
    PROVE  MatchErrorPath(errs, code) \in DOMAIN errs \cup {0}
<1> DEFINE named == {j \in DOMAIN errs : errs[j].code = code}
           any == {j \in DOMAIN errs : errs[j].code = None}
<1>1. named \subseteq Nat /\ any \subseteq Nat /\ named \subseteq DOMAIN errs /\ any \subseteq DOMAIN errs
  OBVIOUS
<1>2. MatchErrorPath(errs, code) = IF named # {} THEN Min(named) ELSE IF any # {} THEN Min(any) ELSE 0
  BY DEF MatchErrorPath
<1> HIDE DEF named, any
<1>3. named # {} => Min(named) \in named
  BY <1>1, MinOf
<1>4. any # {} => Min(any) \in any
  BY <1>1, MinOf
<1> QED
  BY <1>1, <1>2, <1>3, <1>4

LEMMA CoroutineOf ==
    ASSUME NEW steps \in Seq(Items), NEW under, NEW errs \in Seq(ErrorPaths(plan)), NEW i, NEW many \in Nat,
           under \subseteq 1..many
    PROVE  /\ Coroutine(steps, under, errs) \in Coroutines
           /\ CoroutineOK(Coroutine(steps, under, errs), i, many)
<1>1. <<>> \in Seq(Paths(plan)) /\ <<None, 0>> \in Hosts /\ under \in SUBSET Nat
  BY DEF Hosts
<1> QED
  BY <1>1 DEF Coroutine, Coroutines, CoroutineOK

LEMMA OverOf ==
    ASSUME NEW c \in Coroutines, NEW i, NEW many, CoroutineOK(c, i, many),
           NEW out \in Codes \cup {"ok", "abandoned", "error"}
    PROVE  /\ Over(c, out) \in Coroutines /\ CoroutineOK(Over(c, out), i, many)
           /\ Over(c, out).st = "over" /\ Over(c, out).out = out /\ Over(c, out).under = c.under
           /\ Over(c, out).child = c.child /\ Over(c, out).n = c.n
<1> DEFINE o == Over(c, out)
           up == out \in Codes /\ MatchErrorPath(c.errs, out) # 0
<1>1. <<>> \in Seq(Items) /\ up \in BOOLEAN
  OBVIOUS
<1>2. o = [c EXCEPT !.st = "over", !.out = out, !.todo = <<>>, !.raised = up]
  BY DEF Over
<1>3. up => MatchErrorPath(c.errs, out) \in DOMAIN c.errs
  <2>1. c.errs \in Seq(ErrorPaths(plan))
    BY DEF Coroutines
  <2>2. MatchErrorPath(c.errs, out) \in DOMAIN c.errs \cup {0}
    BY <2>1, MatchOf
  <2> QED
    BY <2>2
<1> HIDE DEF o, up
<1>4. o \in Coroutines
  BY <1>1, <1>2 DEF Coroutines
<1>5. /\ o.st = "over" /\ o.out = out /\ o.under = c.under /\ o.child = c.child /\ o.n = c.n
      /\ o.raised = up /\ o.errs = c.errs
  BY <1>2 DEF Coroutines
<1>6. CoroutineOK(o, i, many)
  BY <1>3, <1>5, RunAssumption DEF CoroutineOK
<1> QED
  BY <1>4, <1>5, <1>6 DEF o

LEMMA CoSet ==
    ASSUME CoTypes(co), NEW i \in DOMAIN co, NEW c \in Coroutines, CoroutineOK(c, i, Len(co)), Becomes(i, c)
    PROVE  /\ CoTypes(co') /\ Len(co') = Len(co) /\ DOMAIN co' = DOMAIN co
           /\ co'[i] = c /\ \A k \in DOMAIN co \ {i} : co'[k] = co[k]
<1>1. co \in Seq(Coroutines) /\ co' = [co EXCEPT ![i] = c] /\ i \in 1..Len(co)
  BY DEF CoTypes, Becomes
<1>2. /\ co' \in Seq(Coroutines) /\ Len(co') = Len(co)
      /\ \A j \in 1..Len(co) : co'[j] = IF j = i THEN c ELSE co[j]
  BY <1>1, ExceptSeq
<1> QED
  BY <1>1, <1>2 DEF CoTypes

LEMMA CoAppend ==
    ASSUME NEW cs, CoTypes(cs), NEW d \in Coroutines, CoroutineOK(d, Len(cs) + 1, Len(cs) + 1)
    PROVE  /\ CoTypes(Append(cs, d)) /\ Len(Append(cs, d)) = Len(cs) + 1
           /\ DOMAIN Append(cs, d) = 1..(Len(cs) + 1) /\ Append(cs, d)[Len(cs) + 1] = d
           /\ \A k \in 1..Len(cs) : Append(cs, d)[k] = cs[k]
<1> DEFINE as == Append(cs, d)
<1>1. cs \in Seq(Coroutines) /\ Len(cs) \in Nat
  BY DEF CoTypes
<1>2. /\ as \in Seq(Coroutines) /\ Len(as) = Len(cs) + 1 /\ as[Len(cs) + 1] = d
      /\ \A k \in 1..Len(cs) : as[k] = cs[k]
  BY <1>1, AppendProperties
<1> HIDE DEF as
<1>3. \A k \in 1..Len(cs) : CoroutineOK(cs[k], k, Len(cs) + 1)
  BY <1>1 DEF CoTypes, CoroutineOK
<1>4. \A k \in 1..Len(as) : CoroutineOK(as[k], k, Len(as))
  <2>1. \A k \in 1..Len(as) : k \in 1..Len(cs) \/ k = Len(cs) + 1
    BY <1>1, <1>2
  <2> QED
    BY <1>2, <1>3, <2>1
<1>5. DOMAIN as = 1..(Len(cs) + 1)
  BY <1>2
<1> QED
  BY <1>1, <1>2, <1>4, <1>5 DEF CoTypes, as

\* What is left to see once the coroutines, the messages and the history are typed.
LEMMA TypeStep ==
    ASSUME TypeOK, plan' = plan, CoTypes(co'), Len(co) <= Len(co'), turn' \in 0..Len(co'),
           cancelled' \subseteq DOMAIN co', hist' \in Seq(Nodes), MessagesOK(msg', Nodes, Hosts, Waiters'),
           root' \in [op: {"run", "redirect", "over"}, run: DOMAIN co', steps: Seq(Steps(plan, {0}))],
           status' \in {"RUNNING", "COMPLETED", "FAILED", "TERMINATED"},
           panicked' \in BOOLEAN, left' \in 0..plan.routes
    PROVE  TypeOK'
<1>1. /\ Coroutines' = Coroutines /\ Nodes' = Nodes /\ Hosts' = Hosts
      /\ Steps(plan, {0})' = Steps(plan, {0})
  BY PlanKept
<1>2. co' \in Seq(Coroutines') /\ DOMAIN co' = 1..Len(co')
  BY <1>1 DEF CoTypes
<1>3. \A i \in DOMAIN co' : CoroutineOK(co[i], i, Len(co))'
  BY <1>1, <1>2 DEF CoTypes, CoroutineOK
<1>4. MessagesOK(msg, Nodes, Hosts, Waiters)'
  BY <1>1 DEF MessagesOK
<1> QED
  BY <1>1, <1>2, <1>3, <1>4 DEF TypeOK

\* A coroutine's step leaves the other coroutines alone and keeps its context.
Moved(i) ==
    /\ CoTypes(co') /\ Len(co) <= Len(co') /\ co'[i].under = co[i].under
    /\ \A k \in DOMAIN co \ {i} : co'[k] = co[k]

LEMMA CoTyped ==
    ASSUME TypeOK
    PROVE  /\ CoTypes(co) /\ DOMAIN co = 1..Len(co) /\ Len(co) \in Nat
           /\ \A i \in DOMAIN co : co[i] \in Coroutines /\ CoroutineOK(co[i], i, Len(co))
BY DEF TypeOK, CoTypes

LEMMA MovedTyped ==
    ASSUME TypeOK, NEW i \in DOMAIN co, turn' = i, Moved(i), plan' = plan, UNCHANGED <<root, status, left>>,
           panicked' \in BOOLEAN, cancelled' \subseteq DOMAIN co, hist' \in Seq(Nodes),
           MessagesOK(msg', Nodes, Hosts, Waiters)
    PROVE  TypeOK'
<1>1. DOMAIN co = 1..Len(co) /\ DOMAIN co' = 1..Len(co') /\ Len(co) \in Nat /\ Len(co') \in Nat
  BY DEF TypeOK, Moved, CoTypes
<1>2. DOMAIN co \subseteq DOMAIN co' /\ Waiters \subseteq Waiters'
  BY <1>1 DEF Moved, Waiters
<1>3. MessagesOK(msg', Nodes, Hosts, Waiters')
  BY <1>2, MessagesGrow
<1>4. root' \in [op: {"run", "redirect", "over"}, run: DOMAIN co', steps: Seq(Steps(plan, {0}))]
  BY <1>2 DEF TypeOK
<1>5. turn' \in 0..Len(co')
  BY <1>1 DEF Moved
<1>6. status' \in {"RUNNING", "COMPLETED", "FAILED", "TERMINATED"} /\ left' \in 0..plan.routes
  BY DEF TypeOK
<1> QED
  BY <1>2, <1>3, <1>4, <1>5, <1>6, TypeStep DEF Moved

LEMMA BecomesMoved ==
    ASSUME TypeOK, NEW i \in DOMAIN co, NEW c \in Coroutines, CoroutineOK(c, i, Len(co)), Becomes(i, c),
           c.under = co[i].under
    PROVE  Moved(i) /\ Len(co') = Len(co) /\ DOMAIN co' = DOMAIN co /\ co'[i] = c
BY CoTyped, CoSet DEF Moved

LEMMA ItemOf ==
    ASSUME NEW x \in Items
    PROVE  /\ x.k = "seq" => x \in [k: {"seq"}, depts: Seq(DOMAIN plan.depts)]
           /\ x.k = "excl" => x \in [k: {"excl"}, branches: Seq(Branches(plan)), cycle: 0..MaxCycles]
           /\ x.k = "call" => x \in [k: {"call"}, name: STRING, body: Lists(plan), bnds: Seq(Paths(plan)),
                                     errs: Seq(ErrorPaths(plan))]
           /\ x.k = "dept" => x \in [k: {"dept"}, d: DOMAIN plan.depts, at: Nat \ {0}]
           /\ x.k = "ret" => x \in [k: {"ret"}, saved: Results \cup {None}]
BY DEF Items, Steps

LEMMA TodoSet ==
    ASSUME NEW c \in Coroutines, NEW t \in Seq(Items), NEW r \in Results \cup {None}, NEW i, NEW many,
           CoroutineOK(c, i, many)
    PROVE  LET e == [c EXCEPT !.todo = t, !.res = r] IN
           /\ e \in Coroutines /\ CoroutineOK(e, i, many)
           /\ e.st = c.st /\ e.under = c.under /\ e.child = c.child /\ e.out = c.out /\ e.n = c.n
           /\ e.host = c.host /\ e.bnds = c.bnds
<1> DEFINE e == [c EXCEPT !.todo = t, !.res = r]
<1>1. e \in Coroutines
  BY DEF Coroutines
<1>2. /\ e.st = c.st /\ e.under = c.under /\ e.child = c.child /\ e.host = c.host /\ e.fired = c.fired
      /\ e.bnds = c.bnds /\ e.errs = c.errs /\ e.out = c.out /\ e.raised = c.raised /\ e.n = c.n
  BY DEF Coroutines
<1> HIDE DEF e
<1>3. CoroutineOK(e, i, many)
  BY <1>2 DEF CoroutineOK
<1> QED
  BY <1>1, <1>2, <1>3 DEF e

LEMMA TodoTyped ==
    ASSUME NEW t \in Seq(Items), t # <<>>
    PROVE  t[1] \in Items /\ Tail(t) \in Seq(Items)
OBVIOUS

LEMMA ConcatItems ==
    ASSUME NEW s \in Seq(Items), NEW t \in Seq(Items)
    PROVE  s \o t \in Seq(Items)
OBVIOUS

LEMMA DeptItem ==
    ASSUME NEW d \in DOMAIN plan.depts, NEW at \in Nat \ {0}
    PROVE  Dept(d, at) \in Items /\ <<Dept(d, at)>> \in Seq(Items)
<1>1. Dept(d, at) \in Items
  BY DEF Dept, Items
<1> QED
  BY <1>1

\* Coroutine i at an item of its list.
LEMMA AtTyped ==
    ASSUME TypeOK, NEW i \in DOMAIN co, NEW k, AtItem(i, k)
    PROVE  /\ co[i] \in Coroutines /\ CoroutineOK(co[i], i, Len(co)) /\ co[i].st = "run"
           /\ Head1(i) \in Items /\ Head1(i).k = k /\ Rest(i) \in Seq(Items)
           /\ co[i].res \in Results \cup {None}
<1>1. co[i] \in Coroutines /\ CoroutineOK(co[i], i, Len(co))
  BY CoTyped
<1>2. co[i].todo \in Seq(Items) /\ co[i].res \in Results \cup {None}
  BY <1>1 DEF Coroutines
<1>3. co[i].todo # <<>> /\ co[i].todo[1].k = k /\ co[i].st = "run"
  BY DEF AtItem
<1>4. co[i].todo[1] \in Items /\ Tail(co[i].todo) \in Seq(Items)
  BY <1>2, <1>3, TodoTyped
<1> QED
  BY <1>1, <1>2, <1>3, <1>4 DEF Head1, Rest

\* Same messages, same history.
LEMMA QuietTyped ==
    ASSUME TypeOK, UNCHANGED <<msg, hist>>
    PROVE  hist' \in Seq(Nodes) /\ MessagesOK(msg', Nodes, Hosts, Waiters)
BY DEF TypeOK

(***************************************************************************)
(* What every step of a coroutine does: the parts the invariants rest on.  *)
(***************************************************************************)
\* A coroutine it starts is its body, or a path under its own context.
Spawns(i) ==
    \A k \in DOMAIN co' \ DOMAIN co :
        /\ co'[k].st = "run" /\ co'[k].under \subseteq co[i].under \cup {k}
        /\ k \in co'[k].under => co'[i].child = k /\ co'[i].st = "call"

\* It comes to wait under this key.
NewKey(i, key) ==
    /\ co'[i].n # co[i].n
    /\ \E y \in 0..Len(co'[i].bnds) : ListensTo(i, y, "external")' /\ key = Key(co'[i].host, y)

\* The other coroutines keep their channels, and their keys unless it takes them.
OthersHeard(i) ==
    /\ \A w \in Channels(msg) : w[1] # i => w \in Channels(msg')
    /\ \A w \in msg.box : w[1] # i => w \in msg'.box
    /\ \A key \in DOMAIN msg.ext : msg.ext[key][1] # i =>
         key \in DOMAIN msg'.ext /\ (msg'.ext[key] = msg.ext[key] \/ NewKey(i, key))

\* It listens to nothing, or as before, or begins to and can be reached.
OwnHeard(i) ==
    \/ co'[i].st \notin {"receive", "task", "call"}
    \/ co' = co /\ msg' = msg
    \/ \A j \in 0..Len(co'[i].bnds) :
         /\ ListensTo(i, j, "message")' => Waiter(i, j)' \in Channels(msg')
         /\ ListensTo(i, j, "external")' =>
              Key(co'[i].host, j) \in DOMAIN msg'.ext /\ msg'.ext[Key(co'[i].host, j)] = Waiter(i, j)'

\* It leaves its body when that one is over, or cancels it.
Awaits(i) ==
    co[i].st \in {"call", "host"} =>
        LET o == co[i].child IN
        /\ co'[i].child = o
        /\ \/ o \in cancelled' \/ co'[i].st \in {"call", "host"} \/ co[o].out = "ok"
           \/ co'[i].st = "over" /\ co'[i].out = co[o].out

Step(i) ==
    /\ Moved(i) /\ Spawns(i) /\ OthersHeard(i) /\ OwnHeard(i) /\ Awaits(i)
    /\ plan' = plan /\ cancelled \subseteq cancelled' /\ root' = root
    /\ BufferedSendsAreInHistory => BufferedSendsAreInHistory'

LEMMA StepDone ==
    ASSUME TypeOK, NEW i \in DOMAIN co, turn' = i, Moved(i), Spawns(i), OthersHeard(i), OwnHeard(i), Awaits(i),
           plan' = plan, UNCHANGED <<root, status, left>>, panicked' \in BOOLEAN,
           cancelled \subseteq cancelled', cancelled' \subseteq DOMAIN co, hist' \in Seq(Nodes),
           MessagesOK(msg', Nodes, Hosts, Waiters),
           BufferedSendsAreInHistory => BufferedSendsAreInHistory'
    PROVE  TypeOK' /\ Step(i)
<1>1. TypeOK'
  BY MovedTyped
<1> QED
  BY <1>1 DEF Step

LEMMA BecomesStep ==
    ASSUME TypeOK, NEW i \in DOMAIN co, NEW c \in Coroutines, CoroutineOK(c, i, Len(co)), Becomes(i, c),
           c.under = co[i].under
    PROVE  Moved(i) /\ Spawns(i) /\ co'[i] = c
<1>1. Moved(i) /\ DOMAIN co' = DOMAIN co /\ co'[i] = c
  BY BecomesMoved
<1> QED
  BY <1>1 DEF Spawns

\* Nothing happens to the messages and the history.
LEMMA SameMessages ==
    ASSUME TypeOK, UNCHANGED <<msg, hist>>, NEW i
    PROVE  /\ OthersHeard(i) /\ hist' \in Seq(Nodes) /\ MessagesOK(msg', Nodes, Hosts, Waiters)
           /\ BufferedSendsAreInHistory => BufferedSendsAreInHistory'
BY DEF TypeOK, OthersHeard, BufferedSendsAreInHistory

\* A step that changes nothing but its coroutine, which then listens to nothing.
LEMMA PlainStep ==
    ASSUME TypeOK, NEW i \in DOMAIN co, turn' = i, NEW c \in Coroutines, CoroutineOK(c, i, Len(co)),
           Becomes(i, c), c.under = co[i].under, c.st \notin {"receive", "task", "call"}, Awaits(i),
           UNCHANGED <<plan, cancelled, msg, hist, root, status, panicked, left>>
    PROVE  TypeOK' /\ Step(i)
<1>1. Moved(i) /\ Spawns(i) /\ co'[i] = c
  BY BecomesStep
<1>2. /\ OthersHeard(i) /\ hist' \in Seq(Nodes) /\ MessagesOK(msg', Nodes, Hosts, Waiters)
      /\ BufferedSendsAreInHistory => BufferedSendsAreInHistory'
  BY SameMessages
<1>3. OwnHeard(i)
  BY <1>1 DEF OwnHeard
<1>4. cancelled' \subseteq DOMAIN co /\ cancelled \subseteq cancelled' /\ panicked' \in BOOLEAN
  BY DEF TypeOK
<1> QED
  BY <1>1, <1>2, <1>3, <1>4, StepDone

LEMMA StepListStep ==
    ASSUME TypeOK, NEW i \in DOMAIN co, turn' = i, StepList(i)
    PROVE  TypeOK' /\ Step(i)
<1>1. co[i] \in Coroutines /\ CoroutineOK(co[i], i, Len(co)) /\ co[i].st = "run"
  BY CoTyped DEF StepList
<1>u. UNCHANGED <<plan, cancelled, msg, hist, root, status, panicked, left>>
  BY DEF StepList
<1>a. Awaits(i)
  BY <1>1 DEF Awaits
<1>2. CASE co[i].todo = <<>> /\ Becomes(i, Over(co[i], "ok"))
  <2> DEFINE c == Over(co[i], "ok")
  <2>1. c \in Coroutines /\ CoroutineOK(c, i, Len(co)) /\ c.under = co[i].under /\ c.st = "over"
    BY <1>1, OverOf
  <2>2. Becomes(i, c)
    BY <1>2
  <2> HIDE DEF c
  <2> QED
    BY <1>u, <1>a, <2>1, <2>2, PlainStep
<1>3. ASSUME NEW t \in Seq(Items), NEW r \in Results \cup {None},
             Becomes(i, [co[i] EXCEPT !.todo = t, !.res = r])
      PROVE  TypeOK' /\ Step(i)
  <2> DEFINE c == [co[i] EXCEPT !.todo = t, !.res = r]
  <2>1. c \in Coroutines /\ CoroutineOK(c, i, Len(co)) /\ c.under = co[i].under /\ c.st = "run"
    BY <1>1, TodoSet
  <2>2. Becomes(i, c)
    BY <1>3
  <2> HIDE DEF c
  <2> QED
    BY <1>u, <1>a, <2>1, <2>2, PlainStep
<1>4. ASSUME NEW t \in Seq(Items), Becomes(i, [co[i] EXCEPT !.todo = t]), co[i].res \in Results \cup {None}
      PROVE  TypeOK' /\ Step(i)
  <2>1. [co[i] EXCEPT !.todo = t] = [co[i] EXCEPT !.todo = t, !.res = co[i].res]
    BY <1>1 DEF Coroutines
  <2> QED
    BY <1>3, <1>4, <2>1
<1>5. CASE /\ AtItem(i, "seq")
           /\ Becomes(i, [co[i] EXCEPT
                !.todo = [j \in DOMAIN Head1(i).depts |-> Dept(Head1(i).depts[j], 1)] \o Rest(i)])
  <2> DEFINE ds == Head1(i).depts
             new == [j \in DOMAIN ds |-> Dept(ds[j], 1)]
  <2>1. Head1(i) \in Items /\ Head1(i).k = "seq" /\ Rest(i) \in Seq(Items) /\ co[i].res \in Results \cup {None}
    BY <1>5, AtTyped
  <2>2. ds \in Seq(DOMAIN plan.depts)
    BY <2>1, ItemOf
  <2>3. new \in Seq(Items)
    <3> HIDE DEF ds
    <3>1. \A j \in DOMAIN ds : Dept(ds[j], 1) \in Items
      BY <2>2, DeptItem
    <3>2. DOMAIN ds = 1..Len(ds) /\ Len(ds) \in Nat
      BY <2>2
    <3> QED
      BY <3>1, <3>2
  <2>4. new \o Rest(i) \in Seq(Items)
    BY <2>1, <2>3, ConcatItems
  <2> QED
    BY <1>4, <1>5, <2>1, <2>4
<1>6. CASE /\ AtItem(i, "ret")
           /\ Becomes(i, [co[i] EXCEPT !.todo = Rest(i), !.res = IF @ = None THEN Head1(i).saved ELSE @])
  <2>1. Head1(i) \in Items /\ Head1(i).k = "ret" /\ Rest(i) \in Seq(Items) /\ co[i].res \in Results \cup {None}
    BY <1>6, AtTyped
  <2>2. Head1(i).saved \in Results \cup {None}
    BY <2>1, ItemOf
  <2> QED
    BY <1>3, <1>6, <2>1, <2>2
<1>7. CASE AtItem(i, "dept") /\ Becomes(i, [co[i] EXCEPT !.todo = Rest(i)])
  <2>1. Rest(i) \in Seq(Items) /\ co[i].res \in Results \cup {None}
    BY <1>7, AtTyped
  <2> QED
    BY <1>4, <1>7, <2>1
<1> QED
  BY <1>2, <1>5, <1>6, <1>7 DEF StepList

\* Coroutine i doing something else, its outcome still to come.
LEMMA KeepsOK ==
    ASSUME TypeOK, NEW i \in DOMAIN co, NEW e,
           e.under = co[i].under, e.errs = co[i].errs, e.out = co[i].out, e.raised = co[i].raised,
           co[i].st # "over", e.st # "over",
           e.st \in {"create", "task", "hosttask", "receive"} => e.host \in Nodes,
           e.st \in {"call", "wind", "host"} => e.child \in (i + 1)..Len(co),
           e.st = "wind" => e.fired \in DOMAIN e.bnds
    PROVE  CoroutineOK(e, i, Len(co))
<1>1. CoroutineOK(co[i], i, Len(co))
  BY CoTyped
<1> QED
  BY <1>1 DEF CoroutineOK

\* The types of the parts of a coroutine.
LEMMA CoParts ==
    ASSUME TypeOK, NEW i \in DOMAIN co
    PROVE  /\ co[i] \in Coroutines /\ CoroutineOK(co[i], i, Len(co)) /\ i \in 1..Len(co) /\ Len(co) \in Nat
           /\ co[i].todo \in Seq(Items) /\ co[i].res \in Results \cup {None} /\ co[i].n \in Nat
           /\ co[i].host \in Hosts /\ co[i].bnds \in Seq(Paths(plan))
           /\ co[i].got \in Results \cup Codes \cup {None, "created", "timeout"}
           /\ co[i].child \in Nat /\ co[i].fired \in Nat /\ co[i].errs \in Seq(ErrorPaths(plan))
           /\ co[i].out \in Codes \cup {None, "ok", "abandoned", "error"}
<1>1. co[i] \in Coroutines /\ CoroutineOK(co[i], i, Len(co)) /\ i \in 1..Len(co) /\ Len(co) \in Nat
  BY CoTyped
<1> QED
  BY <1>1 DEF Coroutines

LEMMA NodeHost ==
    ASSUME NEW node \in Nodes
    PROVE  node \in Hosts /\ node[1] \in DOMAIN plan.depts /\ node[2] \in 1..Len(plan.depts[node[1]])
BY DEF Nodes, Hosts

LEMMA OwnWaiter ==
    ASSUME TypeOK, NEW i \in DOMAIN co, NEW n \in Nat, NEW j \in Nat
    PROVE  <<i, n, j>> \in Waiters
BY DEF Waiters

LEMMA NodesOf ==
    ASSUME TypeOK, NEW d \in DOMAIN plan.depts, NEW at \in 1..Len(plan.depts[d])
    PROVE  <<d, at>> \in Nodes /\ plan.depts[d][at] \in Stages(plan)
<1>1. plan.depts[d] \in Seq(Stages(plan))
  BY PlanTyped DEF TypeOK
<1>2. Len(plan.depts[d]) \in Nat
  BY <1>1
<1> QED
  BY <1>1, <1>2 DEF Nodes

LEMMA HistoryGrows ==
    ASSUME TypeOK, NEW node \in Nodes, hist' = Append(hist, node)
    PROVE  hist' \in Seq(Nodes) /\ ToSet(hist') = ToSet(hist) \cup {node}
BY ToSetAppend DEF TypeOK

\* The messages after a step that serves no other channel and takes none away.
LEMMA HeardBy ==
    ASSUME NEW i, msg.box \subseteq msg'.box, Channels(msg) \subseteq Channels(msg'), msg'.ext = msg.ext
    PROVE  OthersHeard(i)
BY DEF OthersHeard

LEMMA RunStageStep ==
    ASSUME TypeOK, NEW i \in DOMAIN co, turn' = i, RunStage(i)
    PROVE  TypeOK' /\ Step(i)
<1> DEFINE item == Head1(i)
           node == <<item.d, item.at>>
           stage == plan.depts[item.d][item.at]
           c == [co[i] EXCEPT !.todo = <<Dept(item.d, item.at + 1)>> \o Rest(i)]
           w == [c EXCEPT !.st = "receive", !.n = @ + 1, !.host = node]
           t == <<Dept(item.d, item.at + 1)>> \o Rest(i)
           v == [c EXCEPT !.st = "create", !.got = None, !.host = node, !.bnds = stage.bnds]
<1>1. AtItem(i, "dept") /\ item.at <= Len(plan.depts[item.d])
  BY DEF RunStage
<1>2. /\ co[i] \in Coroutines /\ CoroutineOK(co[i], i, Len(co)) /\ co[i].st = "run"
      /\ item \in Items /\ item.k = "dept" /\ Rest(i) \in Seq(Items)
  BY <1>1, AtTyped
<1>3. item.d \in DOMAIN plan.depts /\ item.at \in Nat \ {0}
  BY <1>2, ItemOf
<1>4. node \in Nodes /\ stage \in Stages(plan)
  <2>1. item.at \in 1..Len(plan.depts[item.d])
    <3>1. Len(plan.depts[item.d]) \in Nat
      BY <1>3, PlanTyped DEF TypeOK
    <3> QED
      BY <1>1, <1>3, <3>1
  <2> HIDE DEF item
  <2> QED
    BY <1>3, <2>1, NodesOf
<1>5. t \in Seq(Items)
  <2>1. item.at + 1 \in Nat \ {0}
    BY <1>3
  <2>2. <<Dept(item.d, item.at + 1)>> \in Seq(Items)
    <3> DEFINE at == item.at + 1
    <3> HIDE DEF item, at
    <3>1. at \in Nat \ {0}
      BY <2>1 DEF at
    <3>2. <<Dept(item.d, at)>> \in Seq(Items)
      BY <1>3, <3>1, DeptItem
    <3> QED
      BY <3>2 DEF at
  <2> QED
    BY <1>2, <2>2, ConcatItems
<1>6. stage.k \in {"task", "send", "receive", "external"} /\ stage.bnds \in Seq(Paths(plan))
  BY <1>4 DEF Stages
<1>7. node \in Hosts
  BY <1>4, NodeHost
<1>8. /\ co[i].res \in Results \cup {None} /\ co[i].n \in Nat /\ co[i].host \in Hosts
      /\ co[i].bnds \in Seq(Paths(plan)) /\ co[i].got \in Results \cup Codes \cup {None, "created", "timeout"}
      /\ co[i].child \in Nat /\ co[i].fired \in Nat
  BY CoParts
<1>u. UNCHANGED <<plan, cancelled, root, status, panicked, left>>
  BY DEF RunStage
<1>a. Awaits(i)
  BY <1>2 DEF Awaits
<1> DEFINE x == co[i]
<1>9. x \in Coroutines /\ x.n + 1 \in Nat
  BY <1>2, <1>8
<1> HIDE DEF item, t, node, stage, x
<1>s. /\ c = [x EXCEPT !.todo = t]
      /\ w = [x EXCEPT !.todo = t, !.st = "receive", !.n = x.n + 1, !.host = node]
      /\ v = [x EXCEPT !.todo = t, !.st = "create", !.got = None, !.host = node, !.bnds = stage.bnds]
  BY <1>9 DEF Coroutines, x, t
<1> HIDE DEF c, w, v
<1>e. c \in Coroutines /\ w \in Coroutines /\ v \in Coroutines
  BY <1>5, <1>6, <1>7, <1>9, <1>s DEF Coroutines
<1>f. /\ c.st = "run" /\ w.st = "receive" /\ v.st = "create"
      /\ w.n = x.n + 1 /\ w.host = node /\ v.host = node
      /\ \A y \in {c, w, v} : y.under = x.under /\ y.errs = x.errs /\ y.out = x.out /\ y.raised = x.raised
  BY <1>2, <1>9, <1>s DEF Coroutines, x
<1>g. CoroutineOK(c, i, Len(co)) /\ CoroutineOK(w, i, Len(co)) /\ CoroutineOK(v, i, Len(co))
  BY <1>2, <1>4, <1>f, KeepsOK DEF x
<1>c. c \in Coroutines /\ CoroutineOK(c, i, Len(co)) /\ c.under = co[i].under /\ c.st = "run"
  BY <1>e, <1>f, <1>g DEF x
<1>w. /\ w \in Coroutines /\ CoroutineOK(w, i, Len(co)) /\ w.under = co[i].under /\ w.st = "receive"
      /\ w.n = co[i].n + 1 /\ w.host = node
  BY <1>e, <1>f, <1>g DEF x
<1>v. v \in Coroutines /\ CoroutineOK(v, i, Len(co)) /\ v.under = co[i].under /\ v.st = "create"
  BY <1>e, <1>f, <1>g DEF x
<1>n. w.n \in Nat
  BY <1>8, <1>w
<1>d. cancelled' \subseteq DOMAIN co /\ cancelled \subseteq cancelled' /\ panicked' \in BOOLEAN
  BY <1>u DEF TypeOK
<1>m. MessagesOK(msg, Nodes, Hosts, Waiters) /\ hist \in Seq(Nodes)
  BY DEF TypeOK
<1>r. \/ /\ msg' = SendMessage(msg, node) /\ hist' = Append(hist, node) /\ Becomes(i, c)
      \/ Becomes(i, Over(c, "error")) /\ UNCHANGED <<msg, hist>>
      \/ /\ stage.k = "receive" /\ Becomes(i, w) /\ UNCHANGED hist
         /\ msg' = WaitChannel(msg, <<<<i, w.n, 0>>>>)
      \/ /\ stage.k = "external" /\ Becomes(i, w) /\ UNCHANGED hist
         /\ msg' = WaitExternal(msg, {Key(node, 0)}, i, w.n)
      \/ Becomes(i, v) /\ UNCHANGED <<msg, hist>>
  BY DEF RunStage, item, node, stage, c, w, v
<1>10. CASE msg' = SendMessage(msg, node) /\ hist' = Append(hist, node) /\ Becomes(i, c)
  <2>1. Moved(i) /\ Spawns(i) /\ co'[i] = c
    BY <1>c, <1>10, BecomesStep
  <2>2. /\ MessagesOK(msg', Nodes, Hosts, Waiters) /\ msg'.ext = msg.ext /\ msg.box \subseteq msg'.box
        /\ Channels(msg') = Channels(msg) /\ ToSet(msg'.buf) \subseteq ToSet(msg.buf) \cup {node}
    BY <1>4, <1>10, <1>m, SendMessageOf
  <2>3. hist' \in Seq(Nodes) /\ ToSet(hist') = ToSet(hist) \cup {node}
    BY <1>4, <1>10, HistoryGrows
  <2>4. OthersHeard(i)
    BY <2>2, HeardBy
  <2>5. OwnHeard(i)
    BY <1>c, <2>1 DEF OwnHeard
  <2>6. BufferedSendsAreInHistory => BufferedSendsAreInHistory'
    BY <2>2, <2>3 DEF BufferedSendsAreInHistory
  <2> QED
    BY <1>u, <1>a, <1>d, <2>1, <2>2, <2>3, <2>4, <2>5, <2>6, StepDone
<1>11. CASE Becomes(i, Over(c, "error")) /\ UNCHANGED <<msg, hist>>
  <2> DEFINE o == Over(c, "error")
  <2>1. o \in Coroutines /\ CoroutineOK(o, i, Len(co)) /\ o.under = co[i].under /\ o.st = "over"
    BY <1>c, OverOf
  <2>2. Becomes(i, o)
    BY <1>11
  <2> HIDE DEF o
  <2> QED
    BY <1>11, <1>u, <1>a, <2>1, <2>2, PlainStep
<1>12. CASE /\ stage.k = "receive" /\ Becomes(i, w) /\ UNCHANGED hist
            /\ msg' = WaitChannel(msg, <<<<i, w.n, 0>>>>)
  <2>1. Moved(i) /\ Spawns(i) /\ co'[i] = w
    BY <1>w, <1>12, BecomesStep
  <2> DEFINE ws == <<<<i, w.n, 0>>>>
  <2>2. ws \in Seq(Waiters) /\ ToSet(ws) = {<<i, w.n, 0>>}
    <3>1. <<i, w.n, 0>> \in Waiters
      BY <1>n, OwnWaiter
    <3> QED
      BY <3>1 DEF ToSet
  <2>3. msg' = WaitChannel(msg, ws)
    BY <1>12
  <2> HIDE DEF ws
  <2>4. /\ MessagesOK(msg', Nodes, Hosts, Waiters) /\ msg'.ext = msg.ext /\ msg.box \subseteq msg'.box
        /\ Channels(msg') = Channels(msg) \cup ToSet(ws) /\ ToSet(msg'.buf) \subseteq ToSet(msg.buf)
    <3> DEFINE r == WaitChannel(msg, ws)
    <3>1. /\ MessagesOK(r, Nodes, Hosts, Waiters) /\ r.ext = msg.ext /\ msg.box \subseteq r.box
          /\ Channels(r) = Channels(msg) \cup ToSet(ws) /\ ToSet(r.buf) \subseteq ToSet(msg.buf)
      BY <1>m, <2>2, WaitChannelOf
    <3> QED
      BY <2>3, <3>1
  <2>5. OthersHeard(i)
    BY <2>4, HeardBy
  <2>6. OwnHeard(i)
    <3>1. \A j \in 0..Len(co'[i].bnds) : ~ListensTo(i, j, "external")' /\ (ListensTo(i, j, "message")' => j = 0)
      BY <1>12, <1>u, <1>w, <2>1 DEF ListensTo, node, stage
    <3>2. Waiter(i, 0)' \in Channels(msg')
      BY <2>1, <2>2, <2>4 DEF Waiter
    <3> QED
      BY <3>1, <3>2 DEF OwnHeard
  <2>7. BufferedSendsAreInHistory => BufferedSendsAreInHistory'
    BY <1>12, <2>4 DEF BufferedSendsAreInHistory
  <2>8. hist' \in Seq(Nodes)
    BY <1>12, <1>m
  <2> QED
    BY <1>u, <1>a, <1>d, <2>1, <2>4, <2>5, <2>6, <2>7, <2>8, StepDone
<1>13. CASE /\ stage.k = "external" /\ Becomes(i, w) /\ UNCHANGED hist
            /\ msg' = WaitExternal(msg, {Key(node, 0)}, i, w.n)
  <2>1. Moved(i) /\ Spawns(i) /\ co'[i] = w
    BY <1>w, <1>13, BecomesStep
  <2> DEFINE keys == {Key(node, 0)}
             n == w.n
  <2>2. \A k \in keys : k \in [host: Hosts, bnd: Nat] /\ <<i, n, k.bnd>> \in Waiters
    <3>1. <<i, n, 0>> \in Waiters
      BY <1>n, OwnWaiter
    <3> QED
      BY <1>7, <3>1 DEF Key
  <2>3. msg' = WaitExternal(msg, keys, i, n)
    BY <1>13
  <2>k. Key(node, 0).bnd = 0
    BY DEF Key
  <2>l. Key(node, 0) \in keys /\ \A k \in keys : k = Key(node, 0)
    OBVIOUS
  <2> HIDE DEF keys, n
  <2>4. /\ MessagesOK(msg', Nodes, Hosts, Waiters) /\ msg'.box = msg.box /\ msg'.buf = msg.buf
        /\ msg'.blocked = msg.blocked /\ DOMAIN msg'.ext = DOMAIN msg.ext \cup keys
        /\ \A k \in DOMAIN msg'.ext : msg'.ext[k] = IF k \in keys THEN <<i, n, k.bnd>> ELSE msg.ext[k]
    BY <1>m, <2>2, <2>3, WaitExternalOf
  <2>9. co'[i].n # co[i].n
    BY <1>8, <1>w, <2>1
  <2>10. 0 \in 0..Len(co'[i].bnds)
    <3>1. co'[i].bnds \in Seq(Paths(plan))
      BY <1>w, <2>1 DEF Coroutines
    <3> QED
      BY <3>1
  <2>11. ListensTo(i, 0, "external")' /\ co'[i].host = node
    BY <1>13, <1>u, <1>w, <2>1 DEF ListensTo, node, stage
  <2>5. OthersHeard(i)
    <3>1. NewKey(i, Key(node, 0))
      BY <2>9, <2>10, <2>11 DEF NewKey
    <3> QED
      BY <2>4, <2>l, <3>1 DEF OthersHeard, Channels
  <2>6. OwnHeard(i)
    <3>1. \A j \in 0..Len(co'[i].bnds) : ~ListensTo(i, j, "message")' /\ (ListensTo(i, j, "external")' => j = 0)
      BY <1>13, <1>u, <1>w, <2>1 DEF ListensTo, node, stage
    <3>2. Key(node, 0) \in DOMAIN msg'.ext /\ msg'.ext[Key(node, 0)] = <<i, n, 0>>
      BY <2>4, <2>k, <2>l
    <3>3. Waiter(i, 0)' = <<i, n, 0>>
      BY <2>1 DEF Waiter, n
    <3> QED
      BY <2>11, <3>1, <3>2, <3>3 DEF OwnHeard
  <2>7. BufferedSendsAreInHistory => BufferedSendsAreInHistory'
    BY <1>13, <2>4 DEF BufferedSendsAreInHistory
  <2>8. hist' \in Seq(Nodes)
    BY <1>13, <1>m
  <2> QED
    BY <1>u, <1>a, <1>d, <2>1, <2>4, <2>5, <2>6, <2>7, <2>8, StepDone
<1>14. CASE Becomes(i, v) /\ UNCHANGED <<msg, hist>>
  BY <1>14, <1>u, <1>a, <1>v, PlainStep
<1> QED
  BY <1>r, <1>10, <1>11, <1>12, <1>13, <1>14

\* Messages m in which no other coroutine than i has lost anything.
Quits(i, m) ==
    /\ MessagesOK(m, Nodes, Hosts, Waiters) /\ ToSet(m.buf) \subseteq ToSet(msg.buf)
    /\ \A w \in Channels(msg) : w[1] # i => w \in Channels(m)
    /\ \A w \in msg.box : w[1] # i => w \in m.box
    /\ \A key \in DOMAIN msg.ext : msg.ext[key][1] # i => key \in DOMAIN m.ext /\ m.ext[key] = msg.ext[key]

LEMMA QuitsNothing ==
    ASSUME TypeOK, NEW i
    PROVE  Quits(i, msg)
BY DEF TypeOK, Quits

LEMMA QuitsBox ==
    ASSUME NEW i, NEW m, Quits(i, m), NEW n, NEW j
    PROVE  Quits(i, [m EXCEPT !.box = @ \ {<<i, n, j>>}])
<1> DEFINE b == m.box \ {<<i, n, j>>}
           r == [m EXCEPT !.box = b]
<1>1. MessagesOK(m, Nodes, Hosts, Waiters) /\ b \subseteq Waiters
  BY DEF Quits, MessagesOK
<1>2. \A w \in m.box : w[1] # i => w \in b
  OBVIOUS
<1> HIDE DEF b
<1>3. MessagesOK(r, Nodes, Hosts, Waiters) /\ r.ext = m.ext /\ r.box = b /\ r.buf = m.buf /\ r.blocked = m.blocked
  BY <1>1, BoxOf
<1>4. [m EXCEPT !.box = @ \ {<<i, n, j>>}] = r
  BY DEF b
<1> HIDE DEF r
<1> QED
  BY <1>2, <1>3, <1>4 DEF Quits, Channels

LEMMA QuitsBoundaries ==
    ASSUME TypeOK, NEW i
    PROVE  Quits(i, Unregistered(i))
<1> DEFINE h == co[i].host
           b == co[i].bnds
           n == co[i].n
           r == CancelBoundaries(msg, h, b, i, n)
<1>1. MessagesOK(msg, Nodes, Hosts, Waiters)
  BY DEF TypeOK
<1> HIDE DEF h, b, n
<1>2. /\ MessagesOK(r, Nodes, Hosts, Waiters) /\ r.box = msg.box /\ r.buf = msg.buf
      /\ ToSet(r.blocked) = ToSet(msg.blocked) \ {<<i, n, j>> : j \in DOMAIN b}
      /\ DOMAIN r.ext \subseteq DOMAIN msg.ext /\ \A k \in DOMAIN r.ext : r.ext[k] = msg.ext[k]
      /\ \A k \in DOMAIN msg.ext : msg.ext[k] # <<i, n, k.bnd>> => k \in DOMAIN r.ext
  BY <1>1, CancelBoundariesOf
<1>3. Unregistered(i) = r
  BY DEF Unregistered, h, b, n
<1> HIDE DEF r
<1>4. \A w \in ToSet(msg.blocked) : w[1] # i => w \in ToSet(r.blocked)
  BY <1>2
<1>5. \A k \in DOMAIN msg.ext : msg.ext[k][1] # i => k \in DOMAIN r.ext /\ r.ext[k] = msg.ext[k]
  BY <1>2
<1> QED
  BY <1>2, <1>3, <1>4, <1>5 DEF Quits, Channels

LEMMA QuitsExternal ==
    ASSUME NEW i, NEW m, Quits(i, m), NEW keys, NEW n
    PROVE  Quits(i, CancelExternal(m, keys, i, n))
<1> DEFINE r == CancelExternal(m, keys, i, n)
<1>1. /\ MessagesOK(r, Nodes, Hosts, Waiters) /\ r.box = m.box /\ r.buf = m.buf /\ r.blocked = m.blocked
      /\ DOMAIN r.ext \subseteq DOMAIN m.ext /\ \A k \in DOMAIN r.ext : r.ext[k] = m.ext[k]
      /\ \A k \in DOMAIN m.ext : m.ext[k] # <<i, n, k.bnd>> => k \in DOMAIN r.ext
  BY CancelExternalOf DEF Quits
<1> HIDE DEF r
<1>2. \A k \in DOMAIN m.ext : m.ext[k][1] # i => k \in DOMAIN r.ext /\ r.ext[k] = m.ext[k]
  BY <1>1
<1> QED
  BY <1>1, <1>2 DEF Quits, Channels, r

\* A step after which the coroutine listens to nothing.
LEMMA QuitStep ==
    ASSUME TypeOK, NEW i \in DOMAIN co, turn' = i, Moved(i), Spawns(i), Awaits(i), Quits(i, msg'),
           (co'[i].st \notin {"receive", "task", "call"}) \/ (co' = co /\ msg' = msg),
           plan' = plan, UNCHANGED <<root, status, left>>, panicked' \in BOOLEAN,
           cancelled \subseteq cancelled', cancelled' \subseteq DOMAIN co,
           hist' \in Seq(Nodes), ToSet(hist) \subseteq ToSet(hist')
    PROVE  TypeOK' /\ Step(i)
<1>1. OthersHeard(i)
  BY DEF OthersHeard, Quits
<1>2. OwnHeard(i)
  BY DEF OwnHeard
<1>3. /\ MessagesOK(msg', Nodes, Hosts, Waiters)
      /\ BufferedSendsAreInHistory => BufferedSendsAreInHistory'
  BY DEF Quits, BufferedSendsAreInHistory
<1> QED
  BY <1>1, <1>2, <1>3, StepDone

\* The same where the coroutine only becomes c.
LEMMA QuitBecomes ==
    ASSUME TypeOK, NEW i \in DOMAIN co, turn' = i, NEW c \in Coroutines, CoroutineOK(c, i, Len(co)),
           Becomes(i, c), c.under = co[i].under, c.st \notin {"receive", "task", "call"}, Awaits(i),
           Quits(i, msg'), UNCHANGED <<plan, root, status, panicked, left>>,
           cancelled \subseteq cancelled', cancelled' \subseteq DOMAIN co,
           hist' \in Seq(Nodes), ToSet(hist) \subseteq ToSet(hist')
    PROVE  TypeOK' /\ Step(i)
<1>1. Moved(i) /\ Spawns(i) /\ co'[i] = c
  BY BecomesStep
<1>2. panicked' \in BOOLEAN
  BY DEF TypeOK
<1> QED
  BY <1>1, <1>2, QuitStep

LEMMA SameHistory ==
    ASSUME TypeOK, hist' = hist
    PROVE  hist' \in Seq(Nodes) /\ ToSet(hist) \subseteq ToSet(hist')
BY DEF TypeOK

LEMMA SameCancelled ==
    ASSUME TypeOK, cancelled' = cancelled
    PROVE  cancelled \subseteq cancelled' /\ cancelled' \subseteq DOMAIN co
BY DEF TypeOK

\* Coroutine i goes on with its list, with result r.
LEMMA GoesOn ==
    ASSUME TypeOK, NEW i \in DOMAIN co, co[i].st # "over", NEW r \in Results \cup {None}
    PROVE  LET e == [co[i] EXCEPT !.st = "run", !.res = r] IN
           /\ e \in Coroutines /\ CoroutineOK(e, i, Len(co)) /\ e.under = co[i].under /\ e.st = "run"
           /\ e.child = co[i].child
<1> DEFINE x == co[i]
           e == [x EXCEPT !.st = "run", !.res = r]
<1>1. x \in Coroutines
  BY CoParts
<1> HIDE DEF x
<1>2. e \in Coroutines
  BY <1>1 DEF Coroutines
<1>3. /\ e.st = "run" /\ e.under = x.under /\ e.errs = x.errs /\ e.out = x.out /\ e.raised = x.raised
      /\ e.child = x.child
  BY <1>1 DEF Coroutines
<1> HIDE DEF e
<1>4. CoroutineOK(e, i, Len(co))
  BY <1>3, KeepsOK DEF x
<1> QED
  BY <1>2, <1>3, <1>4 DEF x, e

LEMMA ReceivedStep ==
    ASSUME TypeOK, NEW i \in DOMAIN co, turn' = i, Received(i)
    PROVE  TypeOK' /\ Step(i)
<1> DEFINE c == [co[i] EXCEPT !.st = "run"]
<1>1. co[i].st = "receive" /\ co[i].res \in Results \cup {None} /\ co[i] \in Coroutines
  BY CoParts DEF Received
<1> DEFINE r == co[i].res
<1>2. c = [co[i] EXCEPT !.st = "run", !.res = r] /\ r \in Results \cup {None}
  BY <1>1 DEF Coroutines
<1> HIDE DEF c, r
<1>3. c \in Coroutines /\ CoroutineOK(c, i, Len(co)) /\ c.under = co[i].under /\ c.st = "run"
  BY <1>1, <1>2, GoesOn
<1>4. Becomes(i, c) /\ UNCHANGED <<plan, cancelled, root, status, panicked, left>>
  BY DEF Received, c
<1>5. Quits(i, msg')
  <2> DEFINE n == co[i].n
             m == [msg EXCEPT !.box = @ \ {<<i, n, 0>>}]
             keys == {Key(co[i].host, 0)}
  <2> HIDE DEF n
  <2>1. Quits(i, m)
    BY QuitsNothing, QuitsBox
  <2> HIDE DEF m, keys
  <2>2. Quits(i, CancelExternal(m, keys, i, n))
    BY <2>1, QuitsExternal
  <2> QED
    BY <2>2 DEF Received, Waiter, n, m, keys
<1>6. hist' \in Seq(Nodes) /\ ToSet(hist) \subseteq ToSet(hist')
  <2>1. co[i].host \in Nodes
    BY <1>1, CoTyped DEF CoroutineOK
  <2> QED
    BY <2>1, HistoryGrows DEF Received
<1>7. Awaits(i)
  BY <1>1 DEF Awaits
<1> QED
  BY <1>3, <1>4, <1>5, <1>6, <1>7, SameCancelled, QuitBecomes

\* The boundaries of a task or a sub-workflow are registered under the new number
\* of its wait.
LEMMA AddsHeard ==
    ASSUME TypeOK, NEW i \in DOMAIN co, plan' = plan, NEW host \in Hosts, NEW bnds \in Seq(Paths(plan)),
           NEW n \in Nat, n # co[i].n, msg' = AddBoundaries(msg, host, bnds, i, n),
           co'[i].st \in {"task", "call"}, co'[i].n = n, co'[i].host = host, co'[i].bnds = bnds
    PROVE  /\ OthersHeard(i) /\ OwnHeard(i) /\ MessagesOK(msg', Nodes, Hosts, Waiters)
           /\ ToSet(msg'.buf) \subseteq ToSet(msg.buf)
<1> DEFINE r == AddBoundaries(msg, host, bnds, i, n)
           keys == ExternalKeys(host, bnds)
<1>1. MessagesOK(msg, Nodes, Hosts, Waiters)
  BY DEF TypeOK
<1>2. \A j \in DOMAIN bnds : <<i, n, j>> \in Waiters
  <2>1. DOMAIN bnds \subseteq Nat
    OBVIOUS
  <2> QED
    BY <2>1, OwnWaiter
<1>3. /\ MessagesOK(r, Nodes, Hosts, Waiters) /\ msg.box \subseteq r.box /\ ToSet(r.buf) \subseteq ToSet(msg.buf)
      /\ Channels(r) = Channels(msg) \cup {<<i, n, j>> : j \in OfKind(bnds, "message")}
      /\ DOMAIN r.ext = DOMAIN msg.ext \cup keys
      /\ \A k \in DOMAIN r.ext : r.ext[k] = IF k \in keys THEN <<i, n, k.bnd>> ELSE msg.ext[k]
  BY <1>1, <1>2, AddBoundariesOf
<1>4. r = msg'
  OBVIOUS
<1> HIDE DEF r
<1>5. /\ \A j : ListensTo(i, j, "external")' => j \in OfKind(bnds, "external")
      /\ \A j : ListensTo(i, j, "message")' => j \in OfKind(bnds, "message")
      /\ \A j \in OfKind(bnds, "external") : j \in 0..Len(bnds) /\ j # 0 /\ ListensTo(i, j, "external")'
  BY DEF ListensTo, OfKind
<1>6. \A k \in keys : NewKey(i, k)
  BY <1>5 DEF NewKey, ExternalKeys
<1>7. \A j \in OfKind(bnds, "external") : Key(host, j) \in keys /\ Key(host, j).bnd = j
  BY DEF ExternalKeys, Key
<1>8. OthersHeard(i)
  BY <1>3, <1>4, <1>6 DEF OthersHeard
<1>9. OwnHeard(i)
  <2>1. \A j : Waiter(i, j)' = <<i, n, j>>
    BY DEF Waiter
  <2>2. \A j \in 0..Len(co'[i].bnds) : ListensTo(i, j, "message")' => Waiter(i, j)' \in Channels(msg')
    BY <1>3, <1>4, <1>5, <2>1
  <2>3. \A j \in 0..Len(co'[i].bnds) : ListensTo(i, j, "external")' =>
           Key(co'[i].host, j) \in DOMAIN msg'.ext /\ msg'.ext[Key(co'[i].host, j)] = Waiter(i, j)'
    BY <1>3, <1>4, <1>5, <1>7, <2>1
  <2> QED
    BY <2>2, <2>3 DEF OwnHeard
<1> QED
  BY <1>3, <1>4, <1>8, <1>9

LEMMA AwaitTaskStep ==
    ASSUME TypeOK, NEW i \in DOMAIN co, turn' = i, AwaitTask(i)
    PROVE  TypeOK' /\ Step(i)
<1>1. /\ co[i].st = "create" /\ co[i] \in Coroutines /\ CoroutineOK(co[i], i, Len(co)) /\ co[i].n \in Nat
      /\ co[i].host \in Hosts /\ co[i].bnds \in Seq(Paths(plan))
  BY CoParts DEF AwaitTask
<1>2. UNCHANGED <<plan, cancelled, hist, root, status, panicked, left>>
  BY DEF AwaitTask
<1>3. Awaits(i)
  BY <1>1 DEF Awaits
<1>4. CASE Becomes(i, Over(co[i], "abandoned")) /\ UNCHANGED msg
  <2> DEFINE c == Over(co[i], "abandoned")
  <2>1. c \in Coroutines /\ CoroutineOK(c, i, Len(co)) /\ c.under = co[i].under /\ c.st = "over"
    BY <1>1, OverOf
  <2>2. Becomes(i, c)
    BY <1>4
  <2> HIDE DEF c
  <2> QED
    BY <1>2, <1>3, <1>4, <2>1, <2>2, PlainStep
<1> DEFINE x == co[i]
           c == [x EXCEPT !.st = "task", !.got = None, !.n = @ + 1]
<1>5. CASE msg' = AddBoundaries(msg, c.host, c.bnds, i, c.n) /\ Becomes(i, c)
  <2>1. x.n + 1 \in Nat /\ x \in Coroutines /\ x.n + 1 # x.n
    BY <1>1
  <2>2. x.host \in Nodes
    BY <1>1 DEF CoroutineOK
  <2> HIDE DEF x
  <2>3. c \in Coroutines
    BY <2>1 DEF Coroutines
  <2>4. /\ c.st = "task" /\ c.under = x.under /\ c.errs = x.errs /\ c.out = x.out /\ c.raised = x.raised
        /\ c.n = x.n + 1 /\ c.host = x.host /\ c.bnds = x.bnds
    BY <2>1 DEF Coroutines
  <2> HIDE DEF c
  <2>5. CoroutineOK(c, i, Len(co))
    BY <1>1, <2>2, <2>4, KeepsOK DEF x
  <2>6. Moved(i) /\ Spawns(i) /\ co'[i] = c
    BY <1>5, <2>3, <2>4, <2>5, BecomesStep DEF x
  <2> DEFINE h == c.host
             b == c.bnds
             n == c.n
  <2>7. h \in Hosts /\ b \in Seq(Paths(plan)) /\ n \in Nat /\ n # co[i].n
    BY <1>1, <2>1, <2>4 DEF x
  <2>8. msg' = AddBoundaries(msg, h, b, i, n) /\ co'[i].n = n /\ co'[i].host = h /\ co'[i].bnds = b
    BY <1>5, <2>6
  <2> HIDE DEF h, b, n
  <2>9. /\ OthersHeard(i) /\ OwnHeard(i) /\ MessagesOK(msg', Nodes, Hosts, Waiters)
        /\ ToSet(msg'.buf) \subseteq ToSet(msg.buf)
    BY <1>2, <2>4, <2>6, <2>7, <2>8, AddsHeard
  <2>10. BufferedSendsAreInHistory => BufferedSendsAreInHistory'
    BY <1>2, <2>9 DEF BufferedSendsAreInHistory
  <2>11. panicked' \in BOOLEAN
    BY <1>2 DEF TypeOK
  <2> QED
    BY <1>2, <1>3, <2>6, <2>9, <2>10, <2>11, SameHistory, SameCancelled, StepDone
<1> QED
  BY <1>4, <1>5 DEF AwaitTask

LEMMA ResolveStep ==
    ASSUME TypeOK, NEW i \in DOMAIN co, turn' = i, Resolve(i)
    PROVE  TypeOK' /\ Step(i)
<1>1. /\ co[i].st \in {"task", "hosttask"} /\ co[i] \in Coroutines /\ CoroutineOK(co[i], i, Len(co))
      /\ co[i].st # "over"
  BY CoParts DEF Resolve
<1>2. UNCHANGED <<plan, cancelled, root, status, panicked, left>> /\ Quits(i, msg')
  BY QuitsBoundaries DEF Resolve
<1>3. Awaits(i)
  BY <1>1 DEF Awaits
<1>4. ASSUME NEW out \in Codes \cup {"error"}, Becomes(i, Over(co[i], out)), UNCHANGED hist
      PROVE  TypeOK' /\ Step(i)
  <2> DEFINE c == Over(co[i], out)
  <2>1. c \in Coroutines /\ CoroutineOK(c, i, Len(co)) /\ c.under = co[i].under /\ c.st = "over"
    BY <1>1, OverOf
  <2>2. Becomes(i, c)
    BY <1>4
  <2> HIDE DEF c
  <2> QED
    BY <1>2, <1>3, <1>4, <2>1, <2>2, SameHistory, SameCancelled, QuitBecomes
<1>5. CASE /\ co[i].got \in Results /\ hist' = Append(hist, co[i].host)
           /\ Becomes(i, [co[i] EXCEPT !.st = "run", !.res = co[i].got])
  <2> DEFINE r == co[i].got
             c == [co[i] EXCEPT !.st = "run", !.res = r]
  <2>1. r \in Results \cup {None} /\ Becomes(i, c)
    BY <1>5
  <2> HIDE DEF r
  <2>2. c \in Coroutines /\ CoroutineOK(c, i, Len(co)) /\ c.under = co[i].under /\ c.st = "run"
    BY <1>1, <2>1, GoesOn
  <2> HIDE DEF c
  <2>3. hist' \in Seq(Nodes) /\ ToSet(hist) \subseteq ToSet(hist')
    <3>1. co[i].host \in Nodes
      BY <1>1 DEF CoroutineOK
    <3> QED
      BY <1>5, <3>1, HistoryGrows
  <2> QED
    BY <1>2, <1>3, <2>1, <2>2, <2>3, SameCancelled, QuitBecomes
<1> QED
  BY <1>4, <1>5 DEF Resolve

LEMMA AbandonStep ==
    ASSUME TypeOK, NEW i \in DOMAIN co, turn' = i, Abandon(i)
    PROVE  TypeOK' /\ Step(i)
<1>1. co[i].st = "task" /\ co[i] \in Coroutines /\ CoroutineOK(co[i], i, Len(co))
  BY CoParts DEF Abandon
<1>2. UNCHANGED <<plan, cancelled, hist, root, status, panicked, left>> /\ Quits(i, msg')
  BY QuitsBoundaries DEF Abandon
<1>3. Awaits(i)
  BY <1>1 DEF Awaits
<1> DEFINE c == Over(co[i], "abandoned")
<1>4. c \in Coroutines /\ CoroutineOK(c, i, Len(co)) /\ c.under = co[i].under /\ c.st = "over"
  BY <1>1, OverOf
<1>5. Becomes(i, c)
  BY DEF Abandon
<1> HIDE DEF c
<1> QED
  BY <1>2, <1>3, <1>4, <1>5, SameHistory, SameCancelled, QuitBecomes

\* A path: its steps or its target.
IsPath(f) == f.steps \in Lists(plan) /\ f.target \in Targets(plan)

LEMMA FiredTodoOf ==
    ASSUME TypeOK, NEW f, IsPath(f), NEW rest \in Seq(Items)
    PROVE  FiredTodo(f, rest) \in Seq(Items)
<1>1. f.steps \in Seq(Items)
  BY PlanTyped DEF TypeOK, IsPath
<1>2. CASE f.target = None
  BY <1>1, <1>2 DEF FiredTodo
<1>3. CASE f.target # None
  <2> DEFINE d == f.target
  <2>1. d \in DOMAIN plan.depts
    BY <1>3 DEF IsPath, Targets
  <2> HIDE DEF d
  <2>2. <<Dept(d, 1)>> \in Seq(Items)
    BY <2>1, DeptItem
  <2>3. <<Dept(d, 1)>> \o rest \in Seq(Items)
    BY <2>2, ConcatItems
  <2> QED
    BY <1>1, <2>3 DEF FiredTodo, d
<1> QED
  BY <1>2, <1>3

LEMMA OnPathOf ==
    ASSUME TypeOK, NEW i \in DOMAIN co, co[i].st # "over", NEW f, IsPath(f)
    PROVE  LET e == OnPath(co[i], f) IN
           /\ e \in Coroutines /\ CoroutineOK(e, i, Len(co)) /\ e.under = co[i].under /\ e.st = "run"
           /\ e.child = co[i].child
<1> DEFINE x == co[i]
           t == FiredTodo(f, x.todo)
           r == IF f.steps # <<>> THEN None ELSE x.res
           e == OnPath(x, f)
<1>1. x \in Coroutines /\ x.todo \in Seq(Items) /\ r \in Results \cup {None}
  BY CoParts
<1>2. t \in Seq(Items)
  BY <1>1, FiredTodoOf
<1>3. e = [x EXCEPT !.st = "run", !.todo = t, !.res = r]
  BY DEF OnPath
<1> HIDE DEF x, t, r, e
<1>4. e \in Coroutines
  BY <1>1, <1>2, <1>3 DEF Coroutines
<1>5. /\ e.st = "run" /\ e.under = x.under /\ e.errs = x.errs /\ e.out = x.out /\ e.raised = x.raised
      /\ e.child = x.child
  BY <1>1, <1>3 DEF Coroutines
<1>6. CoroutineOK(e, i, Len(co))
  BY <1>5, KeepsOK DEF x
<1> QED
  BY <1>4, <1>5, <1>6 DEF x, e

LEMMA BoundaryIsPath ==
    ASSUME TypeOK, NEW i \in DOMAIN co, NEW j \in DOMAIN co[i].bnds
    PROVE  IsPath(co[i].bnds[j])
<1>1. co[i].bnds \in Seq(Paths(plan))
  BY CoParts
<1>2. co[i].bnds[j] \in Paths(plan)
  BY <1>1
<1> QED
  BY <1>2 DEF Paths, IsPath

LEMMA FiredIn ==
    ASSUME TypeOK, NEW i \in DOMAIN co, NEW S, S \subseteq DOMAIN co[i].bnds, S # {}
    PROVE  Min(S) \in S /\ Min(S) \in DOMAIN co[i].bnds
<1>1. co[i].bnds \in Seq(Paths(plan))
  BY CoParts
<1>2. S \subseteq Nat
  BY <1>1
<1> QED
  BY <1>2, MinOf

\* Coroutine i becomes c, and a path runs beside it.
LEMMA SpawnStep ==
    ASSUME TypeOK, NEW i \in DOMAIN co, NEW c \in Coroutines, CoroutineOK(c, i, Len(co)),
           c.under = co[i].under, NEW f, IsPath(f), co' = Spawned([co EXCEPT ![i] = c], i, f)
    PROVE  Moved(i) /\ Spawns(i) /\ co'[i] = c
<1> DEFINE cs == [co EXCEPT ![i] = c]
           d == Coroutine(FiredTodo(f, <<>>), co[i].under, <<>>)
<1>0. co \in Seq(Coroutines) /\ i \in 1..Len(co) /\ DOMAIN co = 1..Len(co) /\ Len(co) \in Nat
  BY CoTyped DEF CoTypes
<1>1. /\ cs \in Seq(Coroutines) /\ Len(cs) = Len(co)
      /\ \A j \in 1..Len(co) : cs[j] = IF j = i THEN c ELSE co[j]
  BY <1>0, ExceptSeq
<1>2. co' = cs \/ co' = Append(cs, d)
  BY DEF Spawned
<1> HIDE DEF cs
<1>3. CoTypes(cs)
  BY <1>0, <1>1, CoTyped DEF CoTypes
<1>4. co[i].under \subseteq 1..Len(co)
  BY CoTyped DEF CoroutineOK
<1>5. d \in Coroutines /\ CoroutineOK(d, Len(cs) + 1, Len(cs) + 1) /\ d.st = "run" /\ d.under = co[i].under
  <2> DEFINE s == FiredTodo(f, <<>>)
             u == co[i].under
             many == Len(cs) + 1
  <2>1. s \in Seq(Items)
    <3>1. <<>> \in Seq(Items)
      OBVIOUS
    <3> QED
      BY <3>1, FiredTodoOf
  <2>2. u \subseteq 1..many /\ many \in Nat /\ <<>> \in Seq(ErrorPaths(plan))
    BY <1>0, <1>1, <1>4
  <2> HIDE DEF s, u, many
  <2>3. Coroutine(s, u, <<>>) \in Coroutines /\ CoroutineOK(Coroutine(s, u, <<>>), many, many)
    BY <2>1, <2>2, CoroutineOf
  <2>4. Coroutine(s, u, <<>>).st = "run" /\ Coroutine(s, u, <<>>).under = u
    BY DEF Coroutine
  <2> QED
    BY <2>3, <2>4 DEF s, u, many
<1> HIDE DEF d
<1>6. CASE co' = cs
  <2>0. CoTypes(co') /\ Len(co) <= Len(co')
    BY <1>0, <1>1, <1>3, <1>6
  <2>3. co'[i] = c /\ \A k \in DOMAIN co \ {i} : co'[k] = co[k]
    BY <1>0, <1>1, <1>6
  <2>1. Moved(i)
    BY <2>0, <2>3 DEF Moved
  <2>2. DOMAIN co' = DOMAIN co
    BY <1>0, <1>1, <1>6
  <2> QED
    BY <1>0, <1>1, <1>6, <2>1, <2>2 DEF Spawns
<1>7. CASE co' = Append(cs, d)
  <2>1. /\ CoTypes(co') /\ Len(co') = Len(co) + 1 /\ DOMAIN co' = 1..(Len(co) + 1) /\ co'[Len(co) + 1] = d
        /\ \A k \in 1..Len(co) : co'[k] = cs[k]
    <3> DEFINE as == Append(cs, d)
    <3>1. /\ CoTypes(as) /\ Len(as) = Len(cs) + 1 /\ DOMAIN as = 1..(Len(cs) + 1) /\ as[Len(cs) + 1] = d
          /\ \A k \in 1..Len(cs) : as[k] = cs[k]
      BY <1>3, <1>5, CoAppend
    <3>2. as = co'
      BY <1>7
    <3> HIDE DEF as
    <3> QED
      BY <1>1, <3>1, <3>2
  <2>5. co'[i] = c /\ \A k \in DOMAIN co \ {i} : co'[k] = co[k]
    BY <1>0, <1>1, <2>1
  <2>6. Len(co) <= Len(co')
    BY <1>0, <2>1
  <2>2. Moved(i) /\ co'[i] = c
    BY <2>1, <2>5, <2>6 DEF Moved
  <2>3. DOMAIN co' \ DOMAIN co = {Len(co) + 1} /\ Len(co) + 1 \notin co[i].under
    BY <1>0, <1>4, <2>1
  <2>4. Spawns(i)
    BY <1>5, <2>1, <2>3 DEF Spawns
  <2> QED
    BY <2>2, <2>4
<1> QED
  BY <1>2, <1>6, <1>7

LEMMA TaskBoundaryStep ==
    ASSUME TypeOK, NEW i \in DOMAIN co, turn' = i, Runnable(i), TaskBoundary(i)
    PROVE  TypeOK' /\ Step(i)
<1> DEFINE j == Min(FiredOf(i))
           f == co[i].bnds[j]
<1>1. /\ co[i].st = "task" /\ co[i].got = None /\ ~Cancelled(i) /\ co[i] \in Coroutines
      /\ CoroutineOK(co[i], i, Len(co))
  BY CoParts DEF TaskBoundary
<1>2. FiredOf(i) # {}
  <2>1. i # 0
    BY CoParts
  <2> QED
    BY <1>1, <2>1 DEF Runnable
<1>3. j \in DOMAIN co[i].bnds
  <2>1. FiredOf(i) \subseteq DOMAIN co[i].bnds
    BY DEF FiredOf
  <2> QED
    BY <1>2, <2>1, FiredIn
<1>4. IsPath(f)
  BY <1>3, BoundaryIsPath
<1>5. UNCHANGED <<plan, cancelled, hist, root, status, panicked, left>>
  BY DEF TaskBoundary
<1>6. Quits(i, msg')
  <2> DEFINE m == Unregistered(i)
             n == co[i].n
             jj == j
  <2>1. Quits(i, m)
    BY QuitsBoundaries
  <2> HIDE DEF m, n, jj
  <2>2. Quits(i, [m EXCEPT !.box = @ \ {<<i, n, jj>>}])
    BY <2>1, QuitsBox
  <2> QED
    BY <2>2 DEF TaskBoundary, Waiter, m, n, jj
<1>7. Awaits(i)
  BY <1>1 DEF Awaits
<1>8. \/ Becomes(i, OnPath(co[i], f))
      \/ co' = Spawned([co EXCEPT ![i].st = "hosttask", ![i].bnds = <<>>], i, f)
  BY DEF TaskBoundary
<1> HIDE DEF f
<1>9. CASE Becomes(i, OnPath(co[i], f))
  <2> DEFINE c == OnPath(co[i], f)
  <2>1. c \in Coroutines /\ CoroutineOK(c, i, Len(co)) /\ c.under = co[i].under /\ c.st = "run"
    BY <1>1, <1>4, OnPathOf
  <2>2. Becomes(i, c)
    BY <1>9
  <2> HIDE DEF c
  <2> QED
    BY <1>5, <1>6, <1>7, <2>1, <2>2, SameHistory, SameCancelled, QuitBecomes
<1>10. CASE co' = Spawned([co EXCEPT ![i].st = "hosttask", ![i].bnds = <<>>], i, f)
  <2> DEFINE x == co[i]
             c == [x EXCEPT !.st = "hosttask", !.bnds = <<>>]
  <2>1. [co EXCEPT ![i].st = "hosttask", ![i].bnds = <<>>] = [co EXCEPT ![i] = c]
    BY DEF TypeOK
  <2>2. x \in Coroutines /\ x.host \in Nodes /\ <<>> \in Seq(Paths(plan))
    BY <1>1 DEF CoroutineOK
  <2> HIDE DEF x
  <2>3. c \in Coroutines
    BY <2>2 DEF Coroutines
  <2>4. /\ c.st = "hosttask" /\ c.under = x.under /\ c.errs = x.errs /\ c.out = x.out /\ c.raised = x.raised
        /\ c.host = x.host
    BY <2>2 DEF Coroutines
  <2> HIDE DEF c
  <2>5. CoroutineOK(c, i, Len(co))
    BY <1>1, <2>2, <2>4, KeepsOK DEF x
  <2>6. co' = Spawned([co EXCEPT ![i] = c], i, f) /\ c.under = co[i].under
    BY <1>10, <2>1, <2>4 DEF x
  <2>7. Moved(i) /\ Spawns(i) /\ co'[i] = c
    BY <1>4, <2>3, <2>5, <2>6, SpawnStep
  <2>8. panicked' \in BOOLEAN
    BY <1>5 DEF TypeOK
  <2> QED
    BY <1>5, <1>6, <1>7, <2>4, <2>7, <2>8, SameHistory, SameCancelled, QuitStep
<1> QED
  BY <1>8, <1>9, <1>10

LEMMA SelectOf ==
    ASSUME NEW B, NEW branches \in Seq(B), NEW res
    PROVE  SelectBranch(branches, res) \in DOMAIN branches \cup {0, -1}
<1> DEFINE cond == {j \in DOMAIN branches : branches[j].cond # {}}
           true == {j \in cond : res \in branches[j].cond}
           else == DOMAIN branches \ cond
<1>1. /\ true \subseteq Nat /\ else \subseteq Nat /\ true \subseteq DOMAIN branches /\ else \subseteq DOMAIN branches
  OBVIOUS
<1>2. SelectBranch(branches, res) = IF cond # {} /\ res = "unreadable" THEN -1
         ELSE IF true # {} THEN Min(true) ELSE IF else # {} THEN Min(else) ELSE 0
  BY DEF SelectBranch
<1> HIDE DEF cond, true, else
<1>3. true # {} => Min(true) \in true
  BY <1>1, MinOf
<1>4. else # {} => Min(else) \in else
  BY <1>1, MinOf
<1> QED
  BY <1>1, <1>2, <1>3, <1>4

LEMMA FromOf ==
    ASSUME NEW d \in DOMAIN plan.depts, NEW at \in Nat
    PROVE  From(d, at) \in Items
<1> DEFINE a == IF at = 0 THEN 1 ELSE at
<1>1. a \in Nat \ {0}
  OBVIOUS
<1>2. From(d, at) = Dept(d, a)
  BY DEF From
<1> HIDE DEF a
<1> QED
  BY <1>1, <1>2, DeptItem

LEMMA RetItem ==
    ASSUME NEW r \in Results \cup {None}
    PROVE  [k |-> "ret", saved |-> r] \in Items
BY DEF Items

LEMMA NextCycle ==
    ASSUME NEW item \in Items, item.k = "excl", ~Exhausted(item.cycle)
    PROVE  [item EXCEPT !.cycle = @ + 1] \in Items
<1>1. item \in [k: {"excl"}, branches: Seq(Branches(plan)), cycle: 0..MaxCycles]
  BY ItemOf
<1>2. item.cycle + 1 \in 0..MaxCycles
  BY <1>1, RunAssumption DEF Exhausted
<1>3. [item EXCEPT !.cycle = @ + 1] \in [k: {"excl"}, branches: Seq(Branches(plan)), cycle: 0..MaxCycles]
  BY <1>1, <1>2
<1> QED
  BY <1>3 DEF Items, Steps

\* Reverts and routes: what the history loses, the buffer loses too.
LEMMA GoingBack ==
    ASSUME TypeOK, NEW node, hist' = PopTo(hist, node), msg' = ResetSpan(msg, Popped(hist, node))
    PROVE  /\ hist' \in Seq(Nodes) /\ MessagesOK(msg', Nodes, Hosts, Waiters)
           /\ msg'.box = msg.box /\ msg'.blocked = msg.blocked /\ msg'.ext = msg.ext
           /\ BufferedSendsAreInHistory => BufferedSendsAreInHistory'
<1> DEFINE span == Popped(hist, node)
           r == ResetSpan(msg, span)
<1>1. hist \in Seq(Nodes) /\ MessagesOK(msg, Nodes, Hosts, Waiters)
  BY DEF TypeOK
<1>2. PopTo(hist, node) \in Seq(Nodes) /\ ToSet(hist) \ Popped(hist, node) \subseteq ToSet(PopTo(hist, node))
  BY <1>1, PopToOf
<1> HIDE DEF span
<1>3. /\ MessagesOK(r, Nodes, Hosts, Waiters) /\ r.ext = msg.ext /\ r.box = msg.box /\ r.blocked = msg.blocked
      /\ ToSet(r.buf) = ToSet(msg.buf) \ span
  BY <1>1, ResetSpanOf
<1>4. msg' = r
  BY DEF span
<1> HIDE DEF r
<1>5. BufferedSendsAreInHistory => BufferedSendsAreInHistory'
  BY <1>2, <1>3, <1>4 DEF BufferedSendsAreInHistory, span
<1> QED
  BY <1>2, <1>3, <1>4, <1>5

LEMMA ExclusiveStep ==
    ASSUME TypeOK, NEW i \in DOMAIN co, turn' = i, Exclusive(i)
    PROVE  TypeOK' /\ Step(i)
<1> DEFINE item == Head1(i)
           pick == SelectBranch(item.branches, co[i].res)
           rest == IF item.cycle = 0 THEN <<[k |-> "ret", saved |-> co[i].res]>> \o Rest(i) ELSE Rest(i)
           b == item.branches[pick]
           goes(todo, res) == Becomes(i, [co[i] EXCEPT !.todo = todo, !.res = res])
           fails == \/ pick = -1
                    \/ pick = 0 /\ item.cycle = 0
                    \/ pick > 0 /\ b.revert # None /\ Exhausted(item.cycle)
<1>1. /\ co[i] \in Coroutines /\ CoroutineOK(co[i], i, Len(co)) /\ co[i].st = "run"
      /\ item \in Items /\ item.k = "excl" /\ Rest(i) \in Seq(Items) /\ co[i].res \in Results \cup {None}
  BY AtTyped DEF Exclusive
<1>2. item.branches \in Seq(Branches(plan)) /\ item.cycle \in 0..MaxCycles
  BY <1>1, ItemOf
<1>3. pick \in DOMAIN item.branches \cup {0, -1}
  <2> DEFINE bs == item.branches
             r == co[i].res
  <2>1. bs \in Seq(Branches(plan))
    BY <1>2
  <2> HIDE DEF bs, r
  <2>2. SelectBranch(bs, r) \in DOMAIN bs \cup {0, -1}
    BY <2>1, SelectOf
  <2> QED
    BY <2>2 DEF bs, r
<1>4. rest \in Seq(Items)
  <2> DEFINE ret == [k |-> "ret", saved |-> co[i].res]
  <2>1. ret \in Items
    BY <1>1, RetItem
  <2>2. <<ret>> \in Seq(Items)
    BY <2>1
  <2> HIDE DEF ret
  <2>3. <<ret>> \o Rest(i) \in Seq(Items)
    BY <1>1, <2>2, ConcatItems
  <2> QED
    BY <1>1, <2>3 DEF ret
<1>5. Awaits(i) /\ UNCHANGED <<plan, cancelled, root, status, panicked, left>>
  BY <1>1 DEF Awaits, Exclusive
<1>6. ASSUME NEW t \in Seq(Items), NEW r \in Results \cup {None}
      PROVE  LET c == [co[i] EXCEPT !.todo = t, !.res = r] IN
             c \in Coroutines /\ CoroutineOK(c, i, Len(co)) /\ c.under = co[i].under /\ c.st = "run"
  <2> DEFINE x == co[i]
             many == Len(co)
  <2>1. x \in Coroutines /\ CoroutineOK(x, i, many) /\ x.st = "run"
    BY <1>1
  <2> HIDE DEF x, many
  <2> DEFINE c == [x EXCEPT !.todo = t, !.res = r]
  <2>2. c \in Coroutines /\ CoroutineOK(c, i, many) /\ c.under = x.under /\ c.st = "run"
    BY <2>1, TodoSet
  <2> QED
    BY <2>2 DEF x, many
<1>7. ASSUME NEW t \in Seq(Items), NEW r \in Results \cup {None}, goes(t, r), UNCHANGED <<msg, hist>>
      PROVE  TypeOK' /\ Step(i)
  <2> DEFINE c == [co[i] EXCEPT !.todo = t, !.res = r]
  <2>1. c \in Coroutines /\ CoroutineOK(c, i, Len(co)) /\ c.under = co[i].under /\ c.st = "run"
    BY <1>6
  <2>2. Becomes(i, c)
    BY <1>7
  <2> HIDE DEF c
  <2> QED
    BY <1>5, <1>7, <2>1, <2>2, PlainStep
<1>8. CASE Becomes(i, Over(co[i], "error")) /\ UNCHANGED <<msg, hist>>
  <2> DEFINE o == Over(co[i], "error")
  <2>1. o \in Coroutines /\ CoroutineOK(o, i, Len(co)) /\ o.under = co[i].under /\ o.st = "over"
    BY <1>1, OverOf
  <2>2. Becomes(i, o)
    BY <1>8
  <2> HIDE DEF o
  <2> QED
    BY <1>5, <1>8, <2>1, <2>2, PlainStep
<1>9. CASE goes(rest, co[i].res) /\ UNCHANGED <<msg, hist>>
  <2> DEFINE r == co[i].res
  <2>1. goes(rest, r) /\ r \in Results \cup {None}
    BY <1>1, <1>9
  <2> HIDE DEF rest, r
  <2> QED
    BY <1>4, <1>7, <1>9, <2>1
<1>b. ASSUME pick > 0
      PROVE  /\ b.steps \in Seq(Items) /\ b.target \in Targets(plan) /\ b.revert \in Targets(plan) /\ b.at \in Nat
  <2>1. pick \in DOMAIN item.branches
    BY <1>2, <1>3, <1>b
  <2>2. b \in Branches(plan)
    BY <1>2, <2>1
  <2>3. /\ b.steps \in Lists(plan) /\ b.target \in Targets(plan) /\ b.revert \in Targets(plan) /\ b.at \in Nat
    BY <2>2 DEF Branches
  <2> QED
    BY <2>3, PlanTyped DEF TypeOK
<1>10. CASE /\ pick > 0 /\ ~fails /\ b.revert # None
            /\ hist' = PopTo(hist, <<b.revert, b.at>>)
            /\ msg' = ResetSpan(msg, Popped(hist, <<b.revert, b.at>>))
            /\ goes(<<From(b.revert, b.at), [item EXCEPT !.cycle = @ + 1]>> \o rest, None)
  <2> DEFINE again == [item EXCEPT !.cycle = @ + 1]
             from == From(b.revert, b.at)
             t == <<from, again>> \o rest
             node == <<b.revert, b.at>>
             c == [co[i] EXCEPT !.todo = t, !.res = None]
  <2>1. again \in Items
    <3>1. ~Exhausted(item.cycle)
      BY <1>10
    <3> HIDE DEF item
    <3> QED
      BY <1>1, <3>1, NextCycle
  <2>2. from \in Items
    <3>1. b.revert \in DOMAIN plan.depts /\ b.at \in Nat
      BY <1>10, <1>b DEF Targets
    <3> HIDE DEF b
    <3> QED
      BY <3>1, FromOf
  <2>3. t \in Seq(Items)
    <3> HIDE DEF again, from, rest
    <3>1. <<from, again>> \in Seq(Items)
      BY <2>1, <2>2
    <3> QED
      BY <1>4, <3>1, ConcatItems
  <2>4. Becomes(i, c) /\ hist' = PopTo(hist, node) /\ msg' = ResetSpan(msg, Popped(hist, node))
    BY <1>10
  <2> HIDE DEF t, node
  <2>5. c \in Coroutines /\ CoroutineOK(c, i, Len(co)) /\ c.under = co[i].under /\ c.st = "run"
    BY <1>6, <2>3
  <2> HIDE DEF c
  <2>6. Moved(i) /\ Spawns(i) /\ co'[i] = c
    BY <2>4, <2>5, BecomesStep
  <2>7. /\ hist' \in Seq(Nodes) /\ MessagesOK(msg', Nodes, Hosts, Waiters)
        /\ msg'.box = msg.box /\ msg'.blocked = msg.blocked /\ msg'.ext = msg.ext
        /\ BufferedSendsAreInHistory => BufferedSendsAreInHistory'
    BY <2>4, GoingBack
  <2>8. OthersHeard(i) /\ OwnHeard(i)
    BY <2>5, <2>6, <2>7 DEF OthersHeard, OwnHeard, Channels
  <2>9. panicked' \in BOOLEAN
    BY <1>5 DEF TypeOK
  <2> QED
    BY <1>5, <2>6, <2>7, <2>8, <2>9, SameCancelled, StepDone
<1>11. CASE /\ pick > 0 /\ UNCHANGED <<msg, hist>>
            /\ \/ b.steps # <<>> /\ goes(b.steps \o (IF b.ends THEN <<>> ELSE rest), None)
               \/ goes(<<>>, co[i].res)
               \/ goes(rest, co[i].res)
               \/ b.target # None /\ goes(<<From(b.target, b.at)>> \o rest, None)
  <2>1. CASE goes(b.steps \o (IF b.ends THEN <<>> ELSE rest), None)
    <3> DEFINE t == IF b.ends THEN <<>> ELSE rest
               s == b.steps
    <3>1. t \in Seq(Items) /\ s \in Seq(Items)
      BY <1>4, <1>11, <1>b
    <3> DEFINE u == s \o t
    <3>2. goes(u, None)
      BY <2>1
    <3> HIDE DEF t, s
    <3>3. u \in Seq(Items)
      BY <3>1, ConcatItems
    <3> HIDE DEF u
    <3> QED
      BY <1>7, <1>11, <3>2, <3>3
  <2>2. CASE goes(<<>>, co[i].res)
    <3> DEFINE t == <<>>
               r == co[i].res
    <3>1. t \in Seq(Items) /\ goes(t, r) /\ r \in Results \cup {None}
      BY <1>1, <2>2
    <3> HIDE DEF t, r
    <3> QED
      BY <1>7, <1>11, <3>1
  <2>3. CASE b.target # None /\ goes(<<From(b.target, b.at)>> \o rest, None)
    <3> DEFINE from == From(b.target, b.at)
               t == <<from>> \o rest
    <3>1. from \in Items
      <4>1. b.target \in DOMAIN plan.depts /\ b.at \in Nat
        BY <1>11, <1>b, <2>3 DEF Targets
      <4> HIDE DEF b
      <4> QED
        BY <4>1, FromOf
    <3>2. goes(t, None)
      BY <2>3
    <3>3. t \in Seq(Items)
      <4> HIDE DEF from, rest
      <4>1. <<from>> \in Seq(Items)
        BY <3>1
      <4> QED
        BY <1>4, <4>1, ConcatItems
    <3> HIDE DEF t
    <3> QED
      BY <1>7, <1>11, <3>2, <3>3
  <2> QED
    BY <1>9, <1>11, <2>1, <2>2, <2>3
<1>12. \/ Becomes(i, Over(co[i], "error")) /\ UNCHANGED <<msg, hist>>
       \/ goes(rest, co[i].res) /\ UNCHANGED <<msg, hist>>
       \/ /\ pick > 0 /\ ~fails /\ b.revert # None
          /\ hist' = PopTo(hist, <<b.revert, b.at>>)
          /\ msg' = ResetSpan(msg, Popped(hist, <<b.revert, b.at>>))
          /\ goes(<<From(b.revert, b.at), [item EXCEPT !.cycle = @ + 1]>> \o rest, None)
       \/ /\ pick > 0 /\ UNCHANGED <<msg, hist>>
          /\ \/ b.steps # <<>> /\ goes(b.steps \o (IF b.ends THEN <<>> ELSE rest), None)
             \/ goes(<<>>, co[i].res)
             \/ goes(rest, co[i].res)
             \/ b.target # None /\ goes(<<From(b.target, b.at)>> \o rest, None)
  BY DEF Exclusive
<1> QED
  BY <1>8, <1>9, <1>10, <1>11, <1>12

LEMMA CallStep ==
    ASSUME TypeOK, NEW i \in DOMAIN co, turn' = i, Call(i)
    PROVE  TypeOK' /\ Step(i)
<1> DEFINE item == Head1(i)
           body == Len(co) + 1
           x == co[i]
           c == [x EXCEPT !.todo = Rest(i), !.st = "call", !.n = @ + 1, !.child = body,
                          !.host = <<item.name, 0>>, !.bnds = item.bnds, !.got = None]
           d == Coroutine(item.body, x.under \cup {body}, item.errs)
           cs == [co EXCEPT ![i] = c]
<1>1. /\ x \in Coroutines /\ CoroutineOK(x, i, Len(co)) /\ x.st = "run"
      /\ item \in Items /\ item.k = "call" /\ Rest(i) \in Seq(Items)
  BY AtTyped DEF Call
<1>2. /\ item.name \in STRING /\ item.body \in Lists(plan) /\ item.bnds \in Seq(Paths(plan))
      /\ item.errs \in Seq(ErrorPaths(plan))
  BY <1>1, ItemOf
<1>3. item.body \in Seq(Items) /\ <<item.name, 0>> \in Hosts
  BY <1>2, PlanTyped DEF TypeOK, Hosts
<1>4. /\ co \in Seq(Coroutines) /\ i \in 1..Len(co) /\ DOMAIN co = 1..Len(co) /\ Len(co) \in Nat
      /\ body \in Nat /\ x.n \in Nat /\ x.n + 1 \in Nat /\ x.n + 1 # x.n
  <2>1. co \in Seq(Coroutines) /\ i \in 1..Len(co) /\ DOMAIN co = 1..Len(co) /\ Len(co) \in Nat
    BY CoTyped DEF CoTypes
  <2>2. x.n \in Nat
    BY CoParts
  <2> QED
    BY <2>1, <2>2
<1>5. co' = Append(cs, d) /\ msg' = AddBoundaries(msg, c.host, c.bnds, i, c.n)
  BY DEF Call
<1>6. UNCHANGED <<plan, cancelled, hist, root, status, panicked, left>>
  BY DEF Call
<1>7. Awaits(i)
  BY <1>1 DEF Awaits
<1>8. x.under \subseteq 1..Len(co) /\ x.under \cup {body} \subseteq 1..body /\ body \notin x.under
  BY <1>1, <1>4 DEF CoroutineOK
<1>9. d \in Coroutines /\ CoroutineOK(d, body, body) /\ d.st = "run" /\ d.under = x.under \cup {body}
  <2> DEFINE s == item.body
             u == x.under \cup {body}
             e == item.errs
  <2>1. s \in Seq(Items) /\ u \subseteq 1..body /\ body \in Nat /\ e \in Seq(ErrorPaths(plan))
    BY <1>2, <1>3, <1>4, <1>8
  <2> HIDE DEF s, u, body, e
  <2>2. Coroutine(s, u, e) \in Coroutines /\ CoroutineOK(Coroutine(s, u, e), body, body)
    BY <2>1, CoroutineOf
  <2>3. Coroutine(s, u, e).st = "run" /\ Coroutine(s, u, e).under = u
    BY DEF Coroutine
  <2> QED
    BY <2>2, <2>3 DEF s, u, e
<1> HIDE DEF item, d
<1>10. c \in Coroutines
  <2> HIDE DEF body, x
  <2> QED
    BY <1>1, <1>2, <1>3, <1>4 DEF Coroutines
<1>11. /\ c.st = "call" /\ c.under = x.under /\ c.errs = x.errs /\ c.out = x.out /\ c.raised = x.raised
       /\ c.n = x.n + 1 /\ c.host = <<item.name, 0>> /\ c.bnds = item.bnds /\ c.child = body
  <2> HIDE DEF body, x
  <2> QED
    BY <1>1 DEF Coroutines
<1> HIDE DEF c
<1>12. CoroutineOK(c, i, body)
  BY <1>1, <1>4, <1>8, <1>11 DEF CoroutineOK
<1>13. /\ cs \in Seq(Coroutines) /\ Len(cs) = Len(co)
       /\ \A j \in 1..Len(co) : cs[j] = IF j = i THEN c ELSE co[j]
  BY <1>4, <1>10, ExceptSeq
<1> HIDE DEF cs
<1>14. /\ co' \in Seq(Coroutines) /\ Len(co') = body /\ co'[body] = d /\ \A k \in 1..Len(co) : co'[k] = cs[k]
  <2> DEFINE as == Append(cs, d)
  <2>1. /\ as \in Seq(Coroutines) /\ Len(as) = Len(cs) + 1 /\ as[Len(cs) + 1] = d
        /\ \A k \in 1..Len(cs) : as[k] = cs[k]
    BY <1>9, <1>13, AppendProperties
  <2> QED
    BY <1>5, <1>13, <2>1
<1>15. /\ co'[i] = c /\ \A k \in DOMAIN co \ {i} : co'[k] = co[k]
  BY <1>4, <1>13, <1>14
<1>16. \A k \in DOMAIN co \ {i} : CoroutineOK(co[k], k, body)
  <2>1. \A k \in DOMAIN co : CoroutineOK(co[k], k, Len(co))
    BY CoTyped
  <2> QED
    BY <1>4, <2>1 DEF CoroutineOK
<1>17. CoTypes(co')
  <2>1. \A k \in 1..body : k = body \/ k = i \/ k \in DOMAIN co \ {i}
    BY <1>4
  <2>2. \A k \in 1..body : CoroutineOK(co'[k], k, body)
    BY <1>9, <1>12, <1>14, <1>15, <1>16, <2>1
  <2> QED
    BY <1>14, <2>2 DEF CoTypes
<1>18. Moved(i)
  <2>1. Len(co) <= Len(co')
    BY <1>4, <1>14
  <2> QED
    BY <1>11, <1>15, <1>17, <2>1 DEF Moved
<1>19. Spawns(i)
  <2>1. DOMAIN co' \ DOMAIN co = {body}
    BY <1>4, <1>14
  <2> QED
    BY <1>9, <1>11, <1>14, <1>15, <2>1 DEF Spawns
<1>20. /\ OthersHeard(i) /\ OwnHeard(i) /\ MessagesOK(msg', Nodes, Hosts, Waiters)
       /\ ToSet(msg'.buf) \subseteq ToSet(msg.buf)
  <2> DEFINE h == c.host
             b == c.bnds
             n == c.n
  <2>1. h \in Hosts /\ b \in Seq(Paths(plan)) /\ n \in Nat /\ n # co[i].n
    BY <1>2, <1>3, <1>4, <1>11
  <2>2. /\ msg' = AddBoundaries(msg, h, b, i, n) /\ co'[i].n = n /\ co'[i].host = h /\ co'[i].bnds = b
        /\ co'[i].st = "call"
    BY <1>5, <1>11, <1>15
  <2> HIDE DEF h, b, n
  <2> QED
    BY <1>6, <2>1, <2>2, AddsHeard
<1>21. BufferedSendsAreInHistory => BufferedSendsAreInHistory'
  BY <1>6, <1>20 DEF BufferedSendsAreInHistory
<1>22. panicked' \in BOOLEAN
  BY <1>6 DEF TypeOK
<1> QED
  BY <1>6, <1>7, <1>18, <1>19, <1>20, <1>21, <1>22, SameHistory, SameCancelled, StepDone

\* The body of a sub-workflow is a coroutine, and has an outcome once it is over.
LEMMA BodyOf ==
    ASSUME TypeOK, NEW i \in DOMAIN co, co[i].st \in {"call", "wind", "host"}
    PROVE  /\ co[i].child \in DOMAIN co /\ co[i].child # i
           /\ co[co[i].child].st = "over" => co[co[i].child].out \in Codes \cup {"ok", "abandoned", "error"}
<1>1. co[i].child \in DOMAIN co /\ co[i].child # i
  BY CoTyped DEF CoroutineOK
<1> DEFINE o == co[i].child
<1>2. /\ co[o].out \in Codes \cup {None, "ok", "abandoned", "error"} /\ CoroutineOK(co[o], o, Len(co))
  <2> HIDE DEF o
  <2>1. o \in DOMAIN co
    BY <1>1 DEF o
  <2> QED
    BY <2>1, CoParts
<1> QED
  BY <1>1, <1>2 DEF CoroutineOK

LEMMA EndCallStep ==
    ASSUME TypeOK, NEW i \in DOMAIN co, turn' = i, EndCall(i)
    PROVE  TypeOK' /\ Step(i)
<1> DEFINE out == co[co[i].child].out
           c == IF out = "ok" THEN [co[i] EXCEPT !.st = "run"] ELSE Over(co[i], out)
<1>1. /\ co[i].st \in {"call", "host"} /\ co[co[i].child].st = "over" /\ co[i] \in Coroutines
      /\ CoroutineOK(co[i], i, Len(co)) /\ co[i].res \in Results \cup {None}
  BY CoParts DEF EndCall, DoneReady
<1>2. out \in Codes \cup {"ok", "abandoned", "error"}
  BY <1>1, BodyOf
<1>3. Becomes(i, c) /\ UNCHANGED <<plan, cancelled, hist, root, status, panicked, left>>
  BY DEF EndCall
<1>4. Quits(i, msg')
  BY QuitsNothing, QuitsBoundaries DEF EndCall
<1>5. /\ c \in Coroutines /\ CoroutineOK(c, i, Len(co)) /\ c.under = co[i].under /\ c.child = co[i].child
      /\ c.st \notin {"receive", "task", "call"} /\ (out = "ok" \/ (c.st = "over" /\ c.out = out))
  <2>1. CASE out = "ok"
    <3> DEFINE r == co[i].res
               g == [co[i] EXCEPT !.st = "run", !.res = r]
    <3>1. c = g /\ r \in Results \cup {None}
      BY <1>1, <2>1 DEF Coroutines
    <3> HIDE DEF r
    <3>2. /\ g \in Coroutines /\ CoroutineOK(g, i, Len(co)) /\ g.under = co[i].under /\ g.st = "run"
          /\ g.child = co[i].child
      BY <1>1, <3>1, GoesOn
    <3> HIDE DEF c, g
    <3> QED
      BY <2>1, <3>1, <3>2
  <2>2. CASE out # "ok"
    <3> DEFINE a == out
               o == Over(co[i], a)
    <3>1. c = o /\ a \in Codes \cup {"ok", "abandoned", "error"}
      BY <1>2, <2>2
    <3> HIDE DEF a
    <3>2. /\ o \in Coroutines /\ CoroutineOK(o, i, Len(co)) /\ o.under = co[i].under /\ o.st = "over"
          /\ o.child = co[i].child /\ o.out = a
      BY <1>1, <3>1, OverOf
    <3> HIDE DEF c, o
    <3> QED
      BY <3>1, <3>2 DEF a
  <2> QED
    BY <2>1, <2>2
<1> HIDE DEF c
<1>6. Awaits(i)
  <2>1. co'[i] = c
    BY <1>3, <1>5, BecomesStep
  <2> QED
    BY <1>5, <2>1 DEF Awaits
<1> QED
  BY <1>3, <1>4, <1>5, <1>6, SameHistory, SameCancelled, QuitBecomes

LEMMA ErrorBoundaryStep ==
    ASSUME TypeOK, NEW i \in DOMAIN co, turn' = i, ErrorBoundary(i)
    PROVE  TypeOK' /\ Step(i)
<1> DEFINE o == co[i].child
           j == MatchErrorPath(co[o].errs, co[o].out)
           f == co[o].errs[j]
           c == OnPath(co[i], f)
<1>1. co[i].st = "call" /\ co[o].raised
  BY DEF ErrorBoundary, ErrReady
<1>2. o \in DOMAIN co
  BY <1>1, BodyOf
<1>3. co[o].errs \in Seq(ErrorPaths(plan)) /\ CoroutineOK(co[o], o, Len(co))
  <2> HIDE DEF o
  <2> QED
    BY <1>2, CoParts
<1>4. j \in DOMAIN co[o].errs
  BY <1>1, <1>3 DEF CoroutineOK
<1>5. f \in ErrorPaths(plan)
  <2> HIDE DEF j, o
  <2> QED
    BY <1>3, <1>4
<1>6. IsPath(f)
  <2> HIDE DEF f
  <2> QED
    BY <1>5 DEF ErrorPaths, IsPath
<1>7. Becomes(i, c) /\ cancelled' = cancelled \cup {o} /\ UNCHANGED <<plan, msg, hist, root, status, panicked, left>>
  BY DEF ErrorBoundary
<1>8. /\ c \in Coroutines /\ CoroutineOK(c, i, Len(co)) /\ c.under = co[i].under /\ c.st = "run"
      /\ c.child = co[i].child
  <2> HIDE DEF f
  <2> QED
    BY <1>1, <1>6, OnPathOf
<1> HIDE DEF c
<1>9. Awaits(i)
  <2>1. co'[i] = c
    BY <1>7, <1>8, BecomesStep
  <2> QED
    BY <1>7, <1>8, <2>1 DEF Awaits
<1>10. Quits(i, msg')
  BY <1>7, QuitsNothing
<1>11. cancelled \subseteq cancelled' /\ cancelled' \subseteq DOMAIN co
  BY <1>2, <1>7 DEF TypeOK
<1> QED
  BY <1>7, <1>8, <1>9, <1>10, <1>11, SameHistory, QuitBecomes

LEMMA WindDownStep ==
    ASSUME TypeOK, NEW i \in DOMAIN co, turn' = i, WindDown(i)
    PROVE  TypeOK' /\ Step(i)
<1> DEFINE f == co[i].bnds[co[i].fired]
           p == OnPath(co[i], f)
           c == [p EXCEPT !.got = None]
<1>1. co[i].st = "wind" /\ CoroutineOK(co[i], i, Len(co))
  BY CoParts DEF WindDown
<1>2. IsPath(f)
  <2>1. co[i].fired \in DOMAIN co[i].bnds
    BY <1>1 DEF CoroutineOK
  <2> QED
    BY <2>1, BoundaryIsPath
<1>3. Becomes(i, c) /\ UNCHANGED <<plan, cancelled, msg, hist, root, status, panicked, left>>
  BY DEF WindDown
<1> HIDE DEF f
<1>4. /\ p \in Coroutines /\ CoroutineOK(p, i, Len(co)) /\ p.under = co[i].under /\ p.st = "run"
  BY <1>1, <1>2, OnPathOf
<1> HIDE DEF p
<1>5. c \in Coroutines /\ c.under = p.under /\ c.st = p.st
  BY <1>4 DEF Coroutines
<1>6. CoroutineOK(c, i, Len(co))
  <2>1. /\ c.host = p.host /\ c.child = p.child /\ c.fired = p.fired /\ c.bnds = p.bnds /\ c.raised = p.raised
        /\ c.errs = p.errs /\ c.out = p.out
    BY <1>4 DEF Coroutines
  <2> HIDE DEF c
  <2> QED
    BY <1>4, <1>5, <2>1 DEF CoroutineOK
<1>7. Awaits(i)
  BY <1>1 DEF Awaits
<1> HIDE DEF c
<1> QED
  BY <1>3, <1>4, <1>5, <1>6, <1>7, PlainStep

LEMMA CallBoundaryStep ==
    ASSUME TypeOK, NEW i \in DOMAIN co, turn' = i, CallBoundary(i)
    PROVE  TypeOK' /\ Step(i)
<1> DEFINE ready == FiredOf(i) \cup (IF Cancelled(i) THEN TimersOf(i) ELSE {})
           j == Min(ready)
           f == co[i].bnds[j]
           x == co[i]
<1>1. x.st = "call" /\ x \in Coroutines /\ CoroutineOK(x, i, Len(co))
  BY CoParts DEF CallBoundary
<1>2. j \in DOMAIN co[i].bnds /\ j \in Nat
  <2>1. ready \subseteq DOMAIN co[i].bnds
    BY DEF FiredOf, TimersOf, OfKind
  <2>2. ready # {} /\ co[i].bnds \in Seq(Paths(plan))
    BY CoParts DEF CallBoundary
  <2>3. j \in DOMAIN co[i].bnds
    <3> HIDE DEF ready
    <3> QED
      BY <2>1, <2>2, FiredIn
  <2> QED
    BY <2>2, <2>3
<1>3. IsPath(f)
  BY <1>2, BoundaryIsPath
<1>4. msg' = [msg EXCEPT !.box = @ \ {Waiter(i, j)}] /\ UNCHANGED <<plan, hist, root, status, left>>
  BY DEF CallBoundary
<1>5. Quits(i, msg')
  <2> DEFINE n == co[i].n
             jj == j
  <2> HIDE DEF n, jj
  <2>1. Quits(i, [msg EXCEPT !.box = @ \ {<<i, n, jj>>}])
    BY QuitsNothing, QuitsBox
  <2> QED
    BY <1>4, <2>1 DEF Waiter, n, jj
<1>6. x.child \in DOMAIN co /\ x.child \in (i + 1)..Len(co)
  BY <1>1, BodyOf DEF CoroutineOK
<1>7. \/ j \notin FiredOf(i) /\ panicked' = TRUE /\ UNCHANGED <<co, cancelled>>
      \/ /\ cancelled' = cancelled \cup {x.child} /\ UNCHANGED panicked
         /\ Becomes(i, [x EXCEPT !.st = "wind", !.fired = j])
      \/ co' = Spawned([co EXCEPT ![i].st = "host"], i, f) /\ UNCHANGED <<cancelled, panicked>>
  BY DEF CallBoundary
<1>8. CASE j \notin FiredOf(i) /\ panicked' = TRUE /\ UNCHANGED <<co, cancelled>>
  <2>1. Waiter(i, j) \notin msg.box
    BY <1>2, <1>8 DEF FiredOf
  <2>2. msg' = msg
    <3>1. MessagesOK(msg, Nodes, Hosts, Waiters)
      BY DEF TypeOK
    <3>2. msg.box \ {Waiter(i, j)} = msg.box
      BY <2>1
    <3> QED
      BY <1>4, <3>1, <3>2 DEF MessagesOK
  <2>3. Moved(i) /\ Spawns(i)
    BY <1>8, CoTyped DEF Moved, Spawns
  <2>4. Awaits(i)
    BY <1>1, <1>8 DEF Awaits
  <2>5. panicked' \in BOOLEAN
    BY <1>8
  <2> QED
    BY <1>4, <1>5, <1>8, <2>2, <2>3, <2>4, <2>5, SameHistory, SameCancelled, QuitStep
<1>9. CASE /\ cancelled' = cancelled \cup {x.child} /\ UNCHANGED panicked
           /\ Becomes(i, [x EXCEPT !.st = "wind", !.fired = j])
  <2> DEFINE c == [x EXCEPT !.st = "wind", !.fired = j]
  <2>1. Becomes(i, c)
    BY <1>9
  <2> HIDE DEF j, x
  <2>2. c \in Coroutines
    BY <1>1, <1>2 DEF Coroutines
  <2>3. /\ c.st = "wind" /\ c.under = x.under /\ c.errs = x.errs /\ c.out = x.out /\ c.raised = x.raised
        /\ c.child = x.child /\ c.fired = j /\ c.bnds = x.bnds
    BY <1>1 DEF Coroutines
  <2> HIDE DEF c
  <2>4. CoroutineOK(c, i, Len(co))
    BY <1>1, <1>2, <1>6, <2>3, KeepsOK DEF x
  <2>5. c.under = co[i].under /\ c.child = co[i].child
    BY <2>3 DEF x
  <2>6. co'[i] = c
    BY <2>1, <2>2, <2>4, <2>5, BecomesStep
  <2>7. Awaits(i)
    BY <1>9, <2>3, <2>6 DEF Awaits, x
  <2>8. cancelled \subseteq cancelled' /\ cancelled' \subseteq DOMAIN co
    BY <1>6, <1>9 DEF TypeOK
  <2> QED
    BY <1>4, <1>5, <1>9, <2>1, <2>2, <2>3, <2>4, <2>5, <2>7, <2>8, SameHistory, QuitBecomes
<1>10. CASE co' = Spawned([co EXCEPT ![i].st = "host"], i, f) /\ UNCHANGED <<cancelled, panicked>>
  <2> DEFINE c == [x EXCEPT !.st = "host"]
  <2>1. [co EXCEPT ![i].st = "host"] = [co EXCEPT ![i] = c]
    BY DEF TypeOK
  <2> HIDE DEF f, x
  <2>3. c \in Coroutines
    BY <1>1 DEF Coroutines
  <2>4. /\ c.st = "host" /\ c.under = x.under /\ c.errs = x.errs /\ c.out = x.out /\ c.raised = x.raised
        /\ c.child = x.child
    BY <1>1 DEF Coroutines
  <2> HIDE DEF c
  <2>5. CoroutineOK(c, i, Len(co))
    BY <1>1, <1>6, <2>4, KeepsOK DEF x
  <2>6. co' = Spawned([co EXCEPT ![i] = c], i, f) /\ c.under = co[i].under
    BY <1>10, <2>1, <2>4 DEF x
  <2>7. Moved(i) /\ Spawns(i) /\ co'[i] = c
    BY <1>3, <2>3, <2>5, <2>6, SpawnStep
  <2>8. panicked' \in BOOLEAN
    BY <1>10 DEF TypeOK
  <2>9. Awaits(i)
    BY <2>4, <2>7 DEF Awaits, x
  <2> QED
    BY <1>4, <1>5, <1>10, <2>4, <2>7, <2>8, <2>9, SameHistory, SameCancelled, QuitStep
<1> QED
  BY <1>7, <1>8, <1>9, <1>10

LEMMA CoroutineSteps ==
    ASSUME TypeOK, NEW i \in DOMAIN co, turn' = i, Runnable(i),
           \/ StepList(i) \/ RunStage(i) \/ Received(i) \/ AwaitTask(i) \/ Resolve(i) \/ Abandon(i)
           \/ TaskBoundary(i) \/ Exclusive(i) \/ Call(i) \/ EndCall(i) \/ CallBoundary(i)
           \/ ErrorBoundary(i) \/ WindDown(i)
    PROVE  TypeOK' /\ Step(i)
BY StepListStep, RunStageStep, ReceivedStep, AwaitTaskStep, ResolveStep, AbandonStep, TaskBoundaryStep,
   ExclusiveStep, CallStep, EndCallStep, CallBoundaryStep, ErrorBoundaryStep, WindDownStep

(***************************************************************************)
(* The top-level loop and what comes from outside.                         *)
(***************************************************************************)
\* The loop waits for a route to be recorded: the run it left is cancelled.
RoutedRunIsCancelled == root.op = "redirect" => root.run \in cancelled

\* A coroutine is where it was, and waits as it did.
Stays(k) ==
    /\ co'[k].st = co[k].st /\ co'[k].n = co[k].n /\ co'[k].host = co[k].host /\ co'[k].bnds = co[k].bnds
    /\ co'[k].under = co[k].under /\ co'[k].child = co[k].child /\ co'[k].out = co[k].out

OuterStep ==
    /\ plan' = plan
    /\ \A k \in DOMAIN co : k \in DOMAIN co' /\ Stays(k)
    /\ \A k \in DOMAIN co' \ DOMAIN co : co'[k].st = "run" /\ co'[k].under = {k} /\ root'.run = k
    /\ cancelled \subseteq cancelled' /\ (root'.run = root.run \/ root.run \in cancelled')
    /\ RoutedRunIsCancelled'
    /\ Channels(msg) \subseteq Channels(msg') /\ msg.box \subseteq msg'.box
    /\ \A key \in DOMAIN msg.ext :
         \/ key \in DOMAIN msg'.ext /\ msg'.ext[key] = msg.ext[key]
         \/ msg.ext[key] \in msg'.box
    /\ BufferedSendsAreInHistory => BufferedSendsAreInHistory'

LEMMA RootParts ==
    ASSUME TypeOK
    PROVE  /\ root \in [op: {"run", "redirect", "over"}, run: DOMAIN co, steps: Seq(Steps(plan, {0}))]
           /\ root.run \in DOMAIN co /\ root.steps \in Seq(Steps(plan, {0}))
           /\ DOMAIN co = 1..Len(co) /\ Len(co) \in Nat /\ CoTypes(co) /\ cancelled \subseteq DOMAIN co
           /\ hist \in Seq(Nodes) /\ MessagesOK(msg, Nodes, Hosts, Waiters) /\ panicked \in BOOLEAN
           /\ left \in 0..plan.routes /\ plan.routes \in Nat
           /\ status \in {"RUNNING", "COMPLETED", "FAILED", "TERMINATED"}
<1>1. DOMAIN co = 1..Len(co) /\ Len(co) \in Nat /\ CoTypes(co)
  BY CoTyped
<1>2. plan.routes \in Nat
  BY RunAssumption DEF TypeOK
<1> QED
  BY <1>1, <1>2 DEF TypeOK

\* Only the activity or the result of coroutine i came.
LEMMA GotStep ==
    ASSUME TypeOK, RoutedRunIsCancelled, NEW i \in DOMAIN co, turn' = 0, co[i].st # "over",
           NEW g \in Results \cup Codes \cup {"created", "timeout"}, Becomes(i, [co[i] EXCEPT !.got = g]),
           UNCHANGED <<plan, cancelled, msg, hist, root, status, panicked, left>>
    PROVE  TypeOK' /\ OuterStep
<1> DEFINE x == co[i]
           c == [x EXCEPT !.got = g]
<1>1. x \in Coroutines /\ CoroutineOK(x, i, Len(co)) /\ Becomes(i, c)
  BY CoParts
<1> HIDE DEF x
<1>2. c \in Coroutines
  BY <1>1 DEF Coroutines
<1>3. /\ c.st = x.st /\ c.under = x.under /\ c.errs = x.errs /\ c.out = x.out /\ c.raised = x.raised
      /\ c.child = x.child /\ c.fired = x.fired /\ c.bnds = x.bnds /\ c.host = x.host /\ c.n = x.n
  BY <1>1 DEF Coroutines
<1> HIDE DEF c
<1>4. CoroutineOK(c, i, Len(co))
  BY <1>1, <1>3 DEF CoroutineOK
<1>5. Moved(i) /\ Len(co') = Len(co) /\ DOMAIN co' = DOMAIN co /\ co'[i] = c
  BY <1>1, <1>2, <1>3, <1>4, BecomesMoved DEF x
<1>6. \A k \in DOMAIN co : Stays(k)
  BY <1>3, <1>5 DEF Stays, Moved, x
<1>7. TypeOK'
  <2>1. Waiters' = Waiters
    BY <1>5 DEF Waiters
  <2>2. turn' \in 0..Len(co') /\ Len(co) <= Len(co')
    BY <1>5, RootParts
  <2>3. CoTypes(co')
    BY <1>5 DEF Moved
  <2> QED
    BY <1>5, <2>1, <2>2, <2>3, RootParts, TypeStep
<1>8. BufferedSendsAreInHistory => BufferedSendsAreInHistory'
  BY DEF BufferedSendsAreInHistory
<1>9. RoutedRunIsCancelled'
  BY DEF RoutedRunIsCancelled
<1> QED
  BY <1>5, <1>6, <1>7, <1>8, <1>9 DEF OuterStep

\* The coroutines are as they were.
LEMMA SameCoroutines ==
    ASSUME TypeOK, UNCHANGED <<plan, co>>, turn' = 0, cancelled' \subseteq DOMAIN co, hist' \in Seq(Nodes),
           MessagesOK(msg', Nodes, Hosts, Waiters), panicked' \in BOOLEAN, left' \in 0..plan.routes,
           status' \in {"RUNNING", "COMPLETED", "FAILED", "TERMINATED"},
           root' \in [op: {"run", "redirect", "over"}, run: DOMAIN co, steps: Seq(Steps(plan, {0}))],
           cancelled \subseteq cancelled', root'.run = root.run, RoutedRunIsCancelled',
           Channels(msg) \subseteq Channels(msg'), msg.box \subseteq msg'.box,
           \A key \in DOMAIN msg.ext :
             \/ key \in DOMAIN msg'.ext /\ msg'.ext[key] = msg.ext[key]
             \/ msg.ext[key] \in msg'.box,
           BufferedSendsAreInHistory => BufferedSendsAreInHistory'
    PROVE  TypeOK' /\ OuterStep
<1>1. Waiters' = Waiters /\ turn' \in 0..Len(co') /\ Len(co) <= Len(co') /\ CoTypes(co')
  BY RootParts DEF Waiters
<1>2. TypeOK'
  BY <1>1, TypeStep
<1>3. \A k \in DOMAIN co : k \in DOMAIN co' /\ Stays(k)
  BY DEF Stays
<1> QED
  BY <1>2, <1>3 DEF OuterStep

\* The root record after the loop did something else.
LEMMA RootSet ==
    ASSUME TypeOK, NEW op \in {"run", "redirect", "over"}, NEW steps \in Seq(Steps(plan, {0})), NEW D,
           NEW run \in D
    PROVE  LET r == [root EXCEPT !.op = op, !.steps = steps, !.run = run] IN
           /\ r \in [op: {"run", "redirect", "over"}, run: D, steps: Seq(Steps(plan, {0}))]
           /\ r.op = op /\ r.run = run /\ r.steps = steps
<1>1. root \in [op: {"run", "redirect", "over"}, run: DOMAIN co, steps: Seq(Steps(plan, {0}))]
  BY RootParts
<1> QED
  BY <1>1

LEMMA SameTalk ==
    ASSUME TypeOK, UNCHANGED <<msg, hist>>
    PROVE  /\ MessagesOK(msg', Nodes, Hosts, Waiters) /\ hist' \in Seq(Nodes)
           /\ Channels(msg) \subseteq Channels(msg') /\ msg.box \subseteq msg'.box
           /\ \A key \in DOMAIN msg.ext :
                \/ key \in DOMAIN msg'.ext /\ msg'.ext[key] = msg.ext[key]
                \/ msg.ext[key] \in msg'.box
           /\ BufferedSendsAreInHistory => BufferedSendsAreInHistory'
BY RootParts DEF BufferedSendsAreInHistory

\* The loop is over: the run ended, or the instance is cancelled.
LEMMA EndsStep ==
    ASSUME TypeOK, turn' = 0, cancelled' = cancelled \cup {root.run},
           status' \in {"COMPLETED", "FAILED", "TERMINATED"}, root' = [root EXCEPT !.op = "over"],
           UNCHANGED <<plan, co, msg, hist, panicked, left>>
    PROVE  TypeOK' /\ OuterStep
<1>1. /\ root' \in [op: {"run", "redirect", "over"}, run: DOMAIN co, steps: Seq(Steps(plan, {0}))]
      /\ root'.op = "over" /\ root'.run = root.run
  BY RootParts
<1>2. RoutedRunIsCancelled'
  BY <1>1 DEF RoutedRunIsCancelled
<1>3. /\ cancelled \subseteq cancelled' /\ cancelled' \subseteq DOMAIN co /\ panicked' \in BOOLEAN
      /\ left' \in 0..plan.routes /\ status' \in {"RUNNING", "COMPLETED", "FAILED", "TERMINATED"}
  BY RootParts
<1> QED
  BY <1>1, <1>2, <1>3, SameTalk, SameCoroutines

LEMMA TimerFiresStep ==
    ASSUME TypeOK, RoutedRunIsCancelled, turn' = 0, NEW i \in DOMAIN co, NEW j \in DOMAIN co[i].bnds,
           TimerFires(i, j)
    PROVE  TypeOK' /\ OuterStep
<1> DEFINE b == msg.box \cup {Waiter(i, j)}
           r == [msg EXCEPT !.box = b]
<1>1. b \subseteq Waiters
  <2>1. co[i].n \in Nat /\ co[i].bnds \in Seq(Paths(plan))
    BY CoParts
  <2>2. j \in Nat
    BY <2>1
  <2>3. Waiter(i, j) \in Waiters
    BY <2>1, <2>2, OwnWaiter DEF Waiter
  <2> QED
    BY <2>3, RootParts DEF MessagesOK
<1>2. msg.box \subseteq b /\ msg' = r /\ UNCHANGED <<plan, co, cancelled, hist, root, status, panicked, left>>
  BY DEF TimerFires
<1> HIDE DEF b
<1>3. MessagesOK(r, Nodes, Hosts, Waiters) /\ r.ext = msg.ext /\ r.box = b /\ r.buf = msg.buf /\ r.blocked = msg.blocked
  <2>1. MessagesOK(msg, Nodes, Hosts, Waiters)
    BY RootParts
  <2> QED
    BY <1>1, <2>1, BoxOf
<1> HIDE DEF r
<1>4. /\ Channels(msg) \subseteq Channels(msg') /\ msg.box \subseteq msg'.box /\ msg'.ext = msg.ext
      /\ BufferedSendsAreInHistory => BufferedSendsAreInHistory'
  BY <1>2, <1>3 DEF Channels, BufferedSendsAreInHistory
<1>5. RoutedRunIsCancelled' /\ hist' \in Seq(Nodes)
  BY <1>2, RootParts DEF RoutedRunIsCancelled
<1> QED
  BY <1>2, <1>3, <1>4, <1>5, RootParts, SameCoroutines

LEMMA ExternalAnswerStep ==
    ASSUME TypeOK, RoutedRunIsCancelled, turn' = 0, NEW key \in DOMAIN msg.ext, ExternalAnswer(key)
    PROVE  TypeOK' /\ OuterStep
<1> DEFINE keys == {key}
           m == Forgotten(msg, keys)
           b == m.box \cup {msg.ext[key]}
           r == [m EXCEPT !.box = b]
<1>1. key \in keys /\ \A k \in keys : k = key
  OBVIOUS
<1>2. msg' = r /\ UNCHANGED <<plan, co, cancelled, hist, root, status, panicked, left>>
  BY DEF ExternalAnswer
<1> HIDE DEF keys
<1>3. /\ MessagesOK(m, Nodes, Hosts, Waiters) /\ m.box = msg.box /\ m.buf = msg.buf /\ m.blocked = msg.blocked
      /\ DOMAIN m.ext = DOMAIN msg.ext \ keys /\ \A k \in DOMAIN m.ext : m.ext[k] = msg.ext[k]
  BY RootParts, ForgottenOf
<1> HIDE DEF m
<1>4. b \subseteq Waiters /\ msg.box \subseteq b /\ msg.ext[key] \in b
  BY <1>3, RootParts DEF MessagesOK
<1> HIDE DEF b
<1>5. MessagesOK(r, Nodes, Hosts, Waiters) /\ r.ext = m.ext /\ r.box = b /\ r.buf = m.buf /\ r.blocked = m.blocked
  BY <1>3, <1>4, BoxOf
<1> HIDE DEF r
<1>6. /\ Channels(msg) \subseteq Channels(msg') /\ msg.box \subseteq msg'.box
      /\ BufferedSendsAreInHistory => BufferedSendsAreInHistory'
  BY <1>2, <1>3, <1>4, <1>5 DEF Channels, BufferedSendsAreInHistory
<1>7. \A k \in DOMAIN msg.ext :
        \/ k \in DOMAIN msg'.ext /\ msg'.ext[k] = msg.ext[k]
        \/ msg.ext[k] \in msg'.box
  BY <1>1, <1>2, <1>3, <1>4, <1>5
<1>8. RoutedRunIsCancelled' /\ hist' \in Seq(Nodes)
  BY <1>2, RootParts DEF RoutedRunIsCancelled
<1> QED
  BY <1>2, <1>5, <1>6, <1>7, <1>8, RootParts, SameCoroutines

\* The loop starts a run, and the one before it is cancelled.
LEMMA NewRunStep ==
    ASSUME TypeOK, turn' = 0, plan' = plan, co' = NewRun(root.steps),
           root' = [root EXCEPT !.op = "run", !.run = Len(co')],
           cancelled \subseteq cancelled', cancelled' \subseteq DOMAIN co, root.run \in cancelled',
           UNCHANGED <<msg, hist, status, panicked>>, left' \in 0..plan.routes
    PROVE  TypeOK' /\ OuterStep
<1> DEFINE new == Len(co) + 1
           s == root.steps
           u == {new}
           d == Coroutine(s, u, <<>>)
<1>1. /\ root.run \in DOMAIN co /\ s \in Seq(Steps(plan, {0})) /\ DOMAIN co = 1..Len(co) /\ Len(co) \in Nat
      /\ CoTypes(co) /\ new \in Nat /\ u \subseteq 1..new /\ <<>> \in Seq(ErrorPaths(plan))
  BY RootParts
<1>2. s \in Seq(Items)
  BY <1>1, PlanTyped DEF TypeOK
<1>3. co' = Append(co, d)
  BY DEF NewRun
<1>4. d \in Coroutines /\ CoroutineOK(d, new, new) /\ d.st = "run" /\ d.under = {new}
  <2> HIDE DEF new, s
  <2>1. d.st = "run" /\ d.under = u
    BY DEF Coroutine
  <2> HIDE DEF u
  <2>2. d \in Coroutines /\ CoroutineOK(d, new, new)
    BY <1>1, <1>2, CoroutineOf
  <2> QED
    BY <2>1, <2>2 DEF u
<1> HIDE DEF d
<1>5. /\ CoTypes(co') /\ Len(co') = new /\ DOMAIN co' = 1..new /\ co'[new] = d
      /\ \A k \in DOMAIN co : co'[k] = co[k]
  <2> DEFINE as == Append(co, d)
  <2>1. /\ CoTypes(as) /\ Len(as) = Len(co) + 1 /\ DOMAIN as = 1..(Len(co) + 1) /\ as[Len(co) + 1] = d
        /\ \A k \in 1..Len(co) : as[k] = co[k]
    BY <1>1, <1>4, CoAppend
  <2>2. as = co'
    BY <1>3
  <2> HIDE DEF as
  <2> QED
    BY <1>1, <2>1, <2>2
<1>6. /\ root' \in [op: {"run", "redirect", "over"}, run: DOMAIN co', steps: Seq(Steps(plan, {0}))]
      /\ root'.op = "run" /\ root'.run = new
  <2>1. new \in DOMAIN co'
    BY <1>1, <1>5
  <2>2. root \in [op: {"run", "redirect", "over"}, run: DOMAIN co, steps: Seq(Steps(plan, {0}))]
    BY RootParts
  <2> QED
    BY <1>5, <2>1, <2>2
<1>7. Len(co) <= Len(co') /\ turn' \in 0..Len(co') /\ DOMAIN co \subseteq DOMAIN co' /\ DOMAIN co' \ DOMAIN co = {new}
  BY <1>1, <1>5
<1>8. Waiters \subseteq Waiters'
  BY <1>7 DEF Waiters
<1>9. MessagesOK(msg', Nodes, Hosts, Waiters') /\ hist' \in Seq(Nodes)
  <2>1. MessagesOK(msg', Nodes, Hosts, Waiters)
    BY RootParts
  <2> QED
    BY <1>8, <2>1, RootParts, MessagesGrow
<1>10. TypeOK'
  <2>1. cancelled' \subseteq DOMAIN co'
    BY <1>7
  <2> QED
    BY <1>5, <1>6, <1>7, <1>9, <2>1, RootParts, TypeStep
<1>11. \A k \in DOMAIN co : k \in DOMAIN co' /\ Stays(k)
  BY <1>5, <1>7 DEF Stays
<1>12. RoutedRunIsCancelled'
  BY <1>6 DEF RoutedRunIsCancelled
<1> QED
  BY <1>4, <1>5, <1>6, <1>7, <1>10, <1>11, <1>12, SameTalk DEF OuterStep

\* A route: the run is cancelled and the steps to go on with are known.
LEMMA RoutedStep ==
    ASSUME TypeOK, turn' = 0, UNCHANGED <<plan, co, status, panicked>>, left' \in 0..plan.routes,
           cancelled' = cancelled \cup {root.run}, NEW steps \in Seq(Steps(plan, {0})),
           root' = [root EXCEPT !.op = "redirect", !.steps = steps],
           hist' \in Seq(Nodes), MessagesOK(msg', Nodes, Hosts, Waiters),
           msg'.box = msg.box, msg'.blocked = msg.blocked, msg'.ext = msg.ext,
           BufferedSendsAreInHistory => BufferedSendsAreInHistory'
    PROVE  TypeOK' /\ OuterStep
<1>1. /\ root' \in [op: {"run", "redirect", "over"}, run: DOMAIN co, steps: Seq(Steps(plan, {0}))]
      /\ root'.op = "redirect" /\ root'.run = root.run
  <2>1. root \in [op: {"run", "redirect", "over"}, run: DOMAIN co, steps: Seq(Steps(plan, {0}))]
    BY RootParts
  <2> QED
    BY <2>1
<1>2. RoutedRunIsCancelled' /\ cancelled \subseteq cancelled' /\ cancelled' \subseteq DOMAIN co
  BY <1>1, RootParts DEF RoutedRunIsCancelled
<1>3. Channels(msg) \subseteq Channels(msg') /\ msg.box \subseteq msg'.box
  BY DEF Channels
<1> QED
  BY <1>1, <1>2, <1>3, RootParts, SameCoroutines

LEMMA RouteLeft ==
    ASSUME TypeOK, left > 0, left' = left - 1
    PROVE  left' \in 0..plan.routes
BY RootParts

LEMMA ForceForwardStep ==
    ASSUME TypeOK, turn' = 0, NEW d \in DOMAIN plan.depts, ForceForward(d)
    PROVE  TypeOK' /\ OuterStep
<1>1. PICK steps \in Redirects(plan, d) : root' = [root EXCEPT !.op = "redirect", !.steps = steps]
  BY DEF ForceForward
<1>2. steps \in Seq(Steps(plan, {0}))
  BY PlanTyped DEF TypeOK
<1>3. /\ cancelled' = cancelled \cup {root.run} /\ UNCHANGED <<plan, co, msg, hist, status, panicked>>
      /\ left' \in 0..plan.routes
  BY RouteLeft DEF ForceForward
<1> QED
  BY <1>1, <1>2, <1>3, SameTalk, RoutedStep

LEMMA ForceBackStep ==
    ASSUME TypeOK, turn' = 0, ForceBack
    PROVE  TypeOK' /\ OuterStep
<1>1. /\ cancelled' = cancelled \cup {root.run} /\ UNCHANGED <<plan, status, panicked>> /\ root.op = "run"
      /\ left' \in 0..plan.routes
  BY RouteLeft DEF ForceBack
<1>2. CASE /\ co' = NewRun(root.steps) /\ root' = [root EXCEPT !.run = Len(co')] /\ UNCHANGED <<msg, hist>>
  <2>1. root' = [root EXCEPT !.op = "run", !.run = Len(co')]
    BY <1>1, <1>2, RootParts
  <2>2. cancelled \subseteq cancelled' /\ cancelled' \subseteq DOMAIN co /\ root.run \in cancelled'
    BY <1>1, RootParts
  <2> QED
    BY <1>1, <1>2, <2>1, <2>2, NewRunStep
<1>3. CASE /\ hist # <<>> /\ hist' = PopTo(hist, Last(hist)) /\ msg' = ResetSpan(msg, Popped(hist, Last(hist)))
           /\ \E steps \in Redirects(plan, Last(hist)[1]) :
                root' = [root EXCEPT !.op = "redirect", !.steps = steps]
           /\ UNCHANGED co
  <2> DEFINE node == Last(hist)
  <2>1. node \in Nodes
    <3>1. hist \in Seq(Nodes)
      BY RootParts
    <3>2. Len(hist) \in 1..Len(hist)
      BY <1>3, <3>1
    <3> QED
      BY <3>1, <3>2 DEF Last
  <2>2. hist' = PopTo(hist, node) /\ msg' = ResetSpan(msg, Popped(hist, node))
    BY <1>3
  <2>3. PICK steps \in Redirects(plan, node[1]) : root' = [root EXCEPT !.op = "redirect", !.steps = steps]
    BY <1>3
  <2> HIDE DEF node
  <2>4. steps \in Seq(Steps(plan, {0}))
    BY <2>1, NodeHost, PlanTyped DEF TypeOK
  <2>5. /\ hist' \in Seq(Nodes) /\ MessagesOK(msg', Nodes, Hosts, Waiters)
        /\ msg'.box = msg.box /\ msg'.blocked = msg.blocked /\ msg'.ext = msg.ext
        /\ BufferedSendsAreInHistory => BufferedSendsAreInHistory'
    BY <2>2, GoingBack
  <2> QED
    BY <1>1, <1>3, <2>3, <2>4, <2>5, RoutedStep
<1> QED
  BY <1>2, <1>3 DEF ForceBack

LEMMA RedirectedStep ==
    ASSUME TypeOK, RoutedRunIsCancelled, turn' = 0, Redirected
    PROVE  TypeOK' /\ OuterStep
<1>1. /\ co' = NewRun(root.steps) /\ root' = [root EXCEPT !.op = "run", !.run = Len(co')]
      /\ UNCHANGED <<plan, cancelled, msg, hist, status, panicked, left>>
      /\ root.op = "redirect"
  BY DEF Redirected
<1>2. /\ cancelled \subseteq cancelled' /\ cancelled' \subseteq DOMAIN co /\ root.run \in cancelled'
      /\ left' \in 0..plan.routes
  BY <1>1, RootParts DEF RoutedRunIsCancelled
<1> QED
  BY <1>1, <1>2, NewRunStep

LEMMA InitTyped ==
    ASSUME Init
    PROVE  TypeOK
<1> DEFINE s == plan.steps
           u == {1}
           d == Coroutine(s, u, <<>>)
<1>1. plan \in Plans /\ co = <<d>> /\ root = [op |-> "run", run |-> 1, steps |-> s]
  BY DEF Init
<1>2. s \in Seq(Steps(plan, {0})) /\ s \in Seq(Items) /\ <<>> \in Seq(ErrorPaths(plan)) /\ u \subseteq 1..1
  BY <1>1, PlanTyped
<1>3. d \in Coroutines /\ CoroutineOK(d, 1, 1)
  <2> HIDE DEF s, u
  <2> QED
    BY <1>2, CoroutineOf
<1> HIDE DEF d
<1>4. co \in Seq(Coroutines) /\ Len(co) = 1 /\ DOMAIN co = {1} /\ co[1] = d
  BY <1>1, <1>3
<1>5. root \in [op: {"run", "redirect", "over"}, run: DOMAIN co, steps: Seq(Steps(plan, {0}))]
  BY <1>1, <1>2, <1>4
<1>6. MessagesOK(msg, Nodes, Hosts, Waiters)
  <2>1. /\ msg.buf = <<>> /\ msg.blocked = <<>> /\ msg.box = {} /\ msg.ext = <<>>
        /\ msg = [buf |-> <<>>, blocked |-> <<>>, box |-> {}, ext |-> <<>>]
    BY DEF Init
  <2>2. DOMAIN msg.ext = {} /\ msg.ext = [k \in DOMAIN msg.ext |-> msg.ext[k]]
    BY <2>1
  <2> QED
    BY <2>1, <2>2 DEF MessagesOK
<1>7. plan.routes \in Nat
  BY <1>1, RunAssumption
<1>9. hist \in Seq(Nodes)
  BY DEF Init
<1>8. /\ turn \in 0..Len(co) /\ cancelled \subseteq DOMAIN co
      /\ status \in {"RUNNING", "COMPLETED", "FAILED", "TERMINATED"}
  BY <1>4 DEF Init
<1>11. panicked \in BOOLEAN
  BY DEF Init
<1>10. left \in 0..plan.routes
  BY <1>7 DEF Init
<1> QED
  BY <1>1, <1>3, <1>4, <1>5, <1>6, <1>8, <1>9, <1>10, <1>11 DEF TypeOK

\* A task is completed only under a context nobody cancelled.
Done(i) == co[i].st \in {"task", "hosttask"} /\ hist' # hist => ~Cancelled(i)

LEMMA CompletedUncancelled ==
    ASSUME NEW i,
           \/ StepList(i) \/ RunStage(i) \/ Received(i) \/ AwaitTask(i) \/ Resolve(i) \/ Abandon(i)
           \/ TaskBoundary(i) \/ Exclusive(i) \/ Call(i) \/ EndCall(i) \/ CallBoundary(i)
           \/ ErrorBoundary(i) \/ WindDown(i)
    PROVE  Done(i)
<1>1. CASE StepList(i) \/ RunStage(i) \/ Exclusive(i) \/ Call(i)
  BY <1>1 DEF StepList, RunStage, Exclusive, Call, AtItem, Done
<1>2. CASE Resolve(i)
  BY <1>2 DEF Resolve, Done
<1>3. CASE Received(i) \/ AwaitTask(i) \/ Abandon(i) \/ TaskBoundary(i)
  BY <1>3 DEF Received, AwaitTask, Abandon, TaskBoundary, Done
<1>4. CASE EndCall(i) \/ CallBoundary(i) \/ ErrorBoundary(i) \/ WindDown(i)
  BY <1>4 DEF EndCall, CallBoundary, ErrorBoundary, WindDown, Done
<1> QED
  BY <1>1, <1>2, <1>3, <1>4

\* Every step is one of a coroutine that can go on, or one of the loop and of what
\* comes from outside.
LEMMA EveryStep ==
    ASSUME TypeOK, RoutedRunIsCancelled, Next
    PROVE  /\ TypeOK' /\ RoutedRunIsCancelled'
           /\ OuterStep \/ \E i \in DOMAIN co : Step(i) /\ co[i].st # "over" /\ Done(i)
<1>1. CASE Scheduled(0) /\ EndRun /\ turn' = 0
  <2>1. status' \in {"COMPLETED", "FAILED", "TERMINATED"}
    BY <1>1 DEF EndRun
  <2> QED
    BY <1>1, <2>1, EndsStep DEF EndRun, OuterStep
<1>2. ASSUME NEW i \in DOMAIN co, Scheduled(i), turn' = i,
             \/ StepList(i) \/ RunStage(i) \/ Received(i) \/ AwaitTask(i) \/ Resolve(i) \/ Abandon(i)
             \/ TaskBoundary(i) \/ Exclusive(i) \/ Call(i) \/ EndCall(i) \/ CallBoundary(i)
             \/ ErrorBoundary(i) \/ WindDown(i)
      PROVE  TypeOK' /\ RoutedRunIsCancelled' /\ \E k \in DOMAIN co : Step(k) /\ co[k].st # "over" /\ Done(k)
  <2>1. Runnable(i) /\ i # 0
    BY <1>2, CoTyped DEF Scheduled
  <2>2. TypeOK' /\ Step(i)
    BY <1>2, <2>1, CoroutineSteps
  <2>3. co[i].st # "over"
    BY <2>1 DEF Runnable
  <2>4. RoutedRunIsCancelled'
    BY <2>2 DEF Step, RoutedRunIsCancelled
  <2> QED
    BY <1>2, <2>2, <2>3, <2>4, CompletedUncancelled
<1>3. ASSUME turn' = 0, Redirected
      PROVE  TypeOK' /\ OuterStep
  BY <1>3, RedirectedStep
<1>4. ASSUME turn' = 0, NEW i \in DOMAIN co, CreateTask(i)
      PROVE  TypeOK' /\ OuterStep
  BY <1>4, GotStep DEF CreateTask
<1>5. ASSUME turn' = 0, NEW i \in DOMAIN co, WindTimeout(i)
      PROVE  TypeOK' /\ OuterStep
  BY <1>5, GotStep DEF WindTimeout
<1>6. ASSUME turn' = 0, NEW i \in DOMAIN co, NEW r \in plan.returns, TaskResult(i, r)
      PROVE  TypeOK' /\ OuterStep
  <2>1. r \in Results \cup Codes
    BY RunAssumption DEF TypeOK
  <2> QED
    BY <1>6, <2>1, GotStep DEF TaskResult
<1>7. ASSUME turn' = 0, CancelInstance
      PROVE  TypeOK' /\ OuterStep
  BY <1>7, EndsStep DEF CancelInstance
<1>8. CASE CoroutineStep
  BY <1>1, <1>2, <1>8 DEF CoroutineStep, OuterStep
<1>9. CASE Activity
  BY <1>3, <1>4, <1>9 DEF Activity, Outside, OuterStep
<1>10. CASE Timeout
  BY <1>5, <1>10 DEF Timeout, Outside, OuterStep
<1>11. CASE Arrival
  <2>1. turn' = 0
    BY <1>11 DEF Arrival, Outside
  <2>2. ASSUME NEW i \in DOMAIN co, NEW j \in DOMAIN co[i].bnds, TimerFires(i, j)
        PROVE  TypeOK' /\ OuterStep
    BY <2>1, <2>2, TimerFiresStep
  <2>3. ASSUME NEW key \in DOMAIN msg.ext, ExternalAnswer(key)
        PROVE  TypeOK' /\ OuterStep
    BY <2>1, <2>3, ExternalAnswerStep
  <2>4. ASSUME NEW d \in DOMAIN plan.depts, ForceForward(d)
        PROVE  TypeOK' /\ OuterStep
    BY <2>1, <2>4, ForceForwardStep
  <2>5. ASSUME ForceBack
        PROVE  TypeOK' /\ OuterStep
    BY <2>1, <2>5, ForceBackStep
  <2>6. TypeOK' /\ OuterStep
    BY <1>6, <1>7, <1>11, <2>1, <2>2, <2>3, <2>4, <2>5 DEF Arrival
  <2> QED
    BY <2>6 DEF OuterStep
<1> QED
  BY <1>8, <1>9, <1>10, <1>11 DEF Next

\* Nothing changes.
LEMMA Stutter ==
    ASSUME TypeOK, UNCHANGED vars
    PROVE  /\ TypeOK' /\ UNCHANGED <<plan, co, turn, cancelled, msg, hist, root, status, panicked, left>>
<1>1. UNCHANGED <<plan, co, turn, cancelled, msg, hist, root, status, panicked, left>>
  BY DEF vars
<1>2. Len(co) <= Len(co') /\ Waiters' = Waiters /\ CoTypes(co') /\ turn' \in 0..Len(co')
  BY <1>1, RootParts DEF Waiters, TypeOK
<1> QED
  BY <1>1, <1>2, RootParts, TypeStep

\* The inductive invariant of the types.
LEMMA RunsAreTyped == Spec => [](TypeOK /\ RoutedRunIsCancelled)
<1> DEFINE Inv == TypeOK /\ RoutedRunIsCancelled
<1>1. Init => Inv
  <2>1. Init => RoutedRunIsCancelled
    BY DEF Init, RoutedRunIsCancelled
  <2> QED
    BY <2>1, InitTyped
<1>2. Inv /\ [Next]_vars => Inv'
  <2>1. Inv /\ Next => Inv'
    BY EveryStep
  <2>2. Inv /\ UNCHANGED vars => Inv'
    BY Stutter DEF RoutedRunIsCancelled
  <2> QED
    BY <2>1, <2>2
<1> QED
  BY <1>1, <1>2, PTL DEF Spec

\* Every coroutine, channel and node stays what the interpreter can hold: at a
\* step of any coroutine, at an event, and at a route that re-enters the plan.
THEOREM RunTypeCorrect == Spec => []TypeOK
BY RunsAreTyped, PTL

\* A send that waits in the buffer is one the history still has, however often
\* gateways revert and routes go back (ResetSpan, message_buffer.go:57).
THEOREM BufferFollowsHistory == Spec => []BufferedSendsAreInHistory
<1>1. Init => BufferedSendsAreInHistory
  BY DEF Init, BufferedSendsAreInHistory, ToSet
<1>2. TypeOK /\ RoutedRunIsCancelled /\ BufferedSendsAreInHistory /\ [Next]_vars => BufferedSendsAreInHistory'
  <2>1. TypeOK /\ RoutedRunIsCancelled /\ BufferedSendsAreInHistory /\ Next => BufferedSendsAreInHistory'
    BY EveryStep DEF Step, OuterStep
  <2>2. BufferedSendsAreInHistory /\ UNCHANGED vars => BufferedSendsAreInHistory'
    BY DEF vars, BufferedSendsAreInHistory
  <2> QED
    BY <2>1, <2>2
<1> QED
  BY <1>1, <1>2, RunsAreTyped, PTL DEF Spec

(***************************************************************************)
(* What goes on, goes on in the plan.                                      *)
(***************************************************************************)
\* Whoever a coroutine runs under is cancelled or attached.
UnderAttached == \A i \in DOMAIN co : \A o \in co[i].under : o \in cancelled \/ Attached(o)

\* A coroutine with an outcome is over.
LEMMA OutcomeOver ==
    ASSUME TypeOK, NEW i \in DOMAIN co
    PROVE  (co[i].st = "over" <=> co[i].out # None) /\ (co[i].out = "ok" => co[i].st = "over")
<1>1. CoroutineOK(co[i], i, Len(co))
  BY CoTyped
<1> QED
  BY <1>1, RunAssumption DEF CoroutineOK

LEMMA AttachedKept ==
    ASSUME TypeOK, NEW i \in DOMAIN co, Step(i), co[i].st # "over", NEW o \in DOMAIN co, Attached(o)
    PROVE  o \in cancelled' \/ Attached(o)'
<1>1. /\ \A k \in DOMAIN co \ {i} : co'[k] = co[k]
      /\ DOMAIN co \subseteq DOMAIN co' /\ root' = root /\ Awaits(i)
  <2>1. DOMAIN co = 1..Len(co) /\ Len(co) \in Nat /\ Step(i) /\ Moved(i)
    BY CoTyped DEF Step
  <2>2. DOMAIN co' = 1..Len(co') /\ Len(co) <= Len(co') /\ Len(co') \in Nat
    BY <2>1 DEF Moved, CoTypes
  <2> QED
    BY <2>1, <2>2 DEF Step, Moved
<1>2. CASE o = root.run
  BY <1>1, <1>2 DEF Attached
<1>3. CASE co[o].out = "ok"
  <2>1. o # i
    BY <1>3, OutcomeOver
  <2> QED
    BY <1>1, <1>3, <2>1 DEF Attached
<1>4. ASSUME NEW p \in DOMAIN co, co[p].child = o, co[p].st = "over" => co[p].out = co[o].out,
             co[p].st \in {"call", "host", "over"}
      PROVE  o \in cancelled' \/ Attached(o)'
  <2>1. CASE p # i
    <3>1. co'[p] = co[p] /\ p \in DOMAIN co'
      BY <1>1, <2>1
    <3>2. co'[p].st = "over" => co'[p].out = co'[o].out
      <4>1. ASSUME co[p].st = "over"
            PROVE  co'[o] = co[o]
        <5>1. co[o].out # None
          BY <1>4, <4>1, OutcomeOver
        <5>2. o # i
          BY <5>1, OutcomeOver
        <5> QED
          BY <1>1, <5>2
      <4> QED
        BY <1>4, <3>1, <4>1
    <3> QED
      BY <1>4, <3>1, <3>2 DEF Attached
  <2>2. CASE p = i
    <3>1. co[i].st \in {"call", "host"} /\ co[i].child = o
      BY <1>4, <2>2
    <3>2. o # i
      BY <3>1, BodyOf
    <3>3. co'[o] = co[o] /\ i \in DOMAIN co'
      BY <1>1, <3>2
    <3>4. /\ co'[i].child = o
          /\ \/ o \in cancelled' \/ co'[i].st \in {"call", "host"} \/ co[o].out = "ok"
             \/ co'[i].st = "over" /\ co'[i].out = co[o].out
      BY <1>1, <3>1 DEF Awaits
    <3> QED
      BY <1>3, <3>3, <3>4 DEF Attached
  <2> QED
    BY <2>1, <2>2
<1> QED
  BY <1>2, <1>3, <1>4 DEF Attached

LEMMA UnderIn ==
    ASSUME TypeOK, NEW i \in DOMAIN co, NEW o \in co[i].under
    PROVE  o \in DOMAIN co
BY CoTyped DEF CoroutineOK

LEMMA UnderStep ==
    ASSUME TypeOK, UnderAttached, NEW i \in DOMAIN co, Step(i), co[i].st # "over"
    PROVE  UnderAttached'
<1>1. ASSUME NEW k \in DOMAIN co, NEW o \in co[k].under
      PROVE  o \in cancelled' \/ Attached(o)'
  <2>1. o \in cancelled \/ Attached(o)
    BY DEF UnderAttached
  <2> QED
    BY <2>1, UnderIn, AttachedKept DEF Step
<1>2. ASSUME NEW k \in DOMAIN co', NEW o \in co'[k].under
      PROVE  o \in cancelled' \/ Attached(o)'
  <2>1. CASE k \in DOMAIN co
    <3>1. co'[k].under = co[k].under
      BY <2>1 DEF Step, Moved
    <3> QED
      BY <1>1, <2>1, <3>1
  <2>2. CASE k \notin DOMAIN co
    <3>1. co'[k].under \subseteq co[i].under \cup {k} /\ (k \in co'[k].under => co'[i].child = k /\ co'[i].st = "call")
      BY <2>2 DEF Step, Spawns
    <3>2. CASE o \in co[i].under
      BY <1>1, <3>2
    <3>3. CASE o = k
      <4>1. co'[i].child = k /\ co'[i].st = "call" /\ i \in DOMAIN co'
        <5>1. DOMAIN co = 1..Len(co) /\ DOMAIN co' = 1..Len(co') /\ Len(co) <= Len(co') /\ Len(co) \in Nat /\ Len(co') \in Nat
          BY CoTyped DEF Step, Moved, CoTypes
        <5> QED
          BY <3>1, <3>3, <5>1
      <4> QED
        BY <3>3, <4>1 DEF Attached
    <3> QED
      BY <3>1, <3>2, <3>3
  <2> QED
    BY <2>1, <2>2
<1> QED
  BY <1>2 DEF UnderAttached

LEMMA UnderOuter ==
    ASSUME TypeOK, UnderAttached, OuterStep
    PROVE  UnderAttached'
<1>1. ASSUME NEW k \in DOMAIN co, NEW o \in co[k].under
      PROVE  o \in cancelled' \/ Attached(o)'
  <2>1. o \in cancelled \/ Attached(o)
    BY DEF UnderAttached
  <2>2. o \in DOMAIN co
    BY UnderIn
  <2>3. /\ cancelled \subseteq cancelled' /\ (root'.run = root.run \/ root.run \in cancelled')
        /\ \A p \in DOMAIN co : p \in DOMAIN co' /\ Stays(p)
    BY DEF OuterStep
  <2>4. CASE Attached(o)
    <3>1. CASE o = root.run
      BY <2>3, <3>1 DEF Attached
    <3>2. CASE co[o].out = "ok"
      BY <2>2, <2>3, <3>2 DEF Attached, Stays
    <3>3. ASSUME NEW p \in DOMAIN co, co[p].child = o, co[p].st = "over" => co[p].out = co[o].out,
                 co[p].st \in {"call", "host", "over"}
          PROVE  Attached(o)'
      <4>1. p \in DOMAIN co' /\ Stays(p) /\ Stays(o)
        BY <2>2, <2>3
      <4> QED
        BY <3>3, <4>1 DEF Attached, Stays
    <3> QED
      BY <2>4, <3>1, <3>2, <3>3 DEF Attached
  <2> QED
    BY <2>1, <2>3, <2>4
<1>2. ASSUME NEW k \in DOMAIN co', NEW o \in co'[k].under
      PROVE  o \in cancelled' \/ Attached(o)'
  <2>1. CASE k \in DOMAIN co
    <3>1. co'[k].under = co[k].under
      BY <2>1 DEF OuterStep, Stays
    <3> QED
      BY <1>1, <2>1, <3>1
  <2>2. CASE k \notin DOMAIN co
    <3>1. co'[k].under = {k} /\ root'.run = k
      BY <2>2 DEF OuterStep
    <3> QED
      BY <1>2, <3>1 DEF Attached
  <2> QED
    BY <2>1, <2>2
<1> QED
  BY <1>2 DEF UnderAttached

\* A task is completed only where the plan still is, whatever was interrupted,
\* routed or cancelled before: who completes it is under nothing but the current
\* run and bodies that are awaited or ended in due course.
THEOREM LeftWorkStopsForEveryPlan == Spec => LeftWorkStops
<1> DEFINE Inv == TypeOK /\ RoutedRunIsCancelled /\ UnderAttached
           Stops == \A i \in DOMAIN co :
                      co[i].st \in {"task", "hosttask"} /\ co'[i].st = "run" /\ hist' # hist
                        => \A o \in co[i].under : Attached(o)
<1>1. Init => UnderAttached
  <2>1. Init => DOMAIN co = {1} /\ co[1].under = {1} /\ root.run = 1
    BY DEF Init, Coroutine
  <2> QED
    BY <2>1 DEF UnderAttached, Attached
<1>2. Inv /\ [Next]_vars => UnderAttached'
  <2>1. Inv /\ Next => UnderAttached'
    BY EveryStep, UnderStep, UnderOuter
  <2>2. Inv /\ UNCHANGED vars => UnderAttached'
    BY DEF vars, UnderAttached, Attached
  <2> QED
    BY <2>1, <2>2
<1>3. Inv /\ [Next]_vars => [Stops]_vars
  <2> SUFFICES ASSUME Inv, Next, NEW i \in DOMAIN co, co[i].st \in {"task", "hosttask"},
                      co'[i].st = "run", hist' # hist, NEW o \in co[i].under
               PROVE  Attached(o)
    OBVIOUS
  <2>1. CASE OuterStep
    BY <2>1 DEF OuterStep, Stays
  <2>2. ASSUME NEW k \in DOMAIN co, Step(k), Done(k)
        PROVE  ~Cancelled(i)
    <3>1. k = i
      BY <2>2 DEF Step, Moved
    <3> QED
      BY <2>2, <3>1 DEF Done
  <2>3. ~Cancelled(i) => Attached(o)
    BY DEF UnderAttached, Cancelled
  <2> QED
    BY <2>1, <2>2, <2>3, EveryStep
<1> QED
  BY <1>1, <1>2, <1>3, RunsAreTyped, PTL DEF Spec, LeftWorkStops

(***************************************************************************)
(* Waits.                                                                  *)
(***************************************************************************)
\* Every channel at which a coroutine waits for a message is queued or served.
MessageWaitsAreQueued ==
    \A i \in DOMAIN co : \A j \in 0..Len(co[i].bnds) :
        ListensTo(i, j, "message") => Waiter(i, j) \in Channels(msg)

\* An answer under the key of a wait that still counts goes to it.
OutsideWaitsHaveTheirKey ==
    \A i \in DOMAIN co : \A j \in 0..Len(co[i].bnds) :
        LiveWait(i, j, "external") =>
            LET key == Key(co[i].host, j) IN key \in DOMAIN msg.ext /\ msg.ext[key] = Waiter(i, j)

\* A coroutine that stays listens to the same channels.
LEMMA ListensAsBefore ==
    ASSUME plan' = plan, NEW k, co'[k].st = co[k].st, co'[k].host = co[k].host, co'[k].bnds = co[k].bnds,
           co'[k].n = co[k].n, NEW j, NEW kind
    PROVE  (ListensTo(k, j, kind)' <=> ListensTo(k, j, kind)) /\ Waiter(k, j)' = Waiter(k, j)
BY DEF ListensTo, Waiter

\* What runs listens to nothing.
LEMMA RunningListensNot ==
    ASSUME NEW k, co'[k].st \notin {"receive", "task", "call"}, NEW j, NEW kind
    PROVE  ~ListensTo(k, j, kind)'
BY DEF ListensTo

LEMMA StepDomain ==
    ASSUME TypeOK, NEW i \in DOMAIN co, Step(i)
    PROVE  /\ DOMAIN co \subseteq DOMAIN co' /\ plan' = plan /\ cancelled \subseteq cancelled'
           /\ \A k \in DOMAIN co \ {i} : co'[k] = co[k]
           /\ \A k \in DOMAIN co' \ DOMAIN co : co'[k].st = "run"
           /\ co'[i].under = co[i].under /\ OthersHeard(i) /\ OwnHeard(i)
<1>1. DOMAIN co = 1..Len(co) /\ DOMAIN co' = 1..Len(co') /\ Len(co) <= Len(co') /\ Len(co) \in Nat /\ Len(co') \in Nat
  BY CoTyped DEF Step, Moved, CoTypes
<1> QED
  BY <1>1 DEF Step, Moved, Spawns

LEMMA QueuedStep ==
    ASSUME TypeOK, MessageWaitsAreQueued, NEW i \in DOMAIN co, Step(i)
    PROVE  MessageWaitsAreQueued'
<1> SUFFICES ASSUME NEW k \in DOMAIN co', NEW j \in 0..Len(co'[k].bnds), ListensTo(k, j, "message")'
             PROVE  Waiter(k, j)' \in Channels(msg')
  BY DEF MessageWaitsAreQueued, Channels
<1>1. CASE k \notin DOMAIN co
  BY <1>1, StepDomain, RunningListensNot
<1>2. CASE k \in DOMAIN co /\ k # i
  <2>1. co'[k] = co[k] /\ plan' = plan
    BY <1>2, StepDomain
  <2>2. ListensTo(k, j, "message") /\ Waiter(k, j)' = Waiter(k, j)
    BY <2>1, ListensAsBefore
  <2>3. Waiter(k, j) \in Channels(msg) /\ Waiter(k, j)[1] = k
    BY <1>2, <2>1, <2>2 DEF MessageWaitsAreQueued, Waiter
  <2> QED
    BY <1>2, <2>2, <2>3, StepDomain DEF OthersHeard
<1>3. CASE k = i
  <2>1. CASE co' = co /\ msg' = msg
    <3>1. ListensTo(k, j, "message") /\ Waiter(k, j)' = Waiter(k, j)
      BY <2>1, StepDomain, ListensAsBefore
    <3> QED
      BY <1>3, <2>1, <3>1 DEF MessageWaitsAreQueued
  <2>2. co'[i].st \in {"receive", "task", "call"}
    BY <1>3, RunningListensNot
  <2> QED
    BY <1>3, <2>1, <2>2, StepDomain DEF OwnHeard
<1> QED
  BY <1>1, <1>2, <1>3

LEMMA QueuedOuter ==
    ASSUME TypeOK, MessageWaitsAreQueued, OuterStep
    PROVE  MessageWaitsAreQueued'
<1> SUFFICES ASSUME NEW k \in DOMAIN co', NEW j \in 0..Len(co'[k].bnds), ListensTo(k, j, "message")'
             PROVE  Waiter(k, j)' \in Channels(msg')
  BY DEF MessageWaitsAreQueued, Channels
<1>1. k \in DOMAIN co
  BY RunningListensNot DEF OuterStep
<1>2. Stays(k) /\ plan' = plan
  BY <1>1 DEF OuterStep
<1>3. ListensTo(k, j, "message") /\ Waiter(k, j)' = Waiter(k, j)
  BY <1>2, ListensAsBefore DEF Stays
<1>4. Waiter(k, j) \in Channels(msg)
  BY <1>1, <1>2, <1>3 DEF MessageWaitsAreQueued, Stays
<1> QED
  BY <1>3, <1>4 DEF OuterStep

\* No coroutine takes the key of another.
Apart == \A x, i \in DOMAIN co : x # i => ~TakesKey(x, i)

LEMMA KeyStep ==
    ASSUME TypeOK, OutsideWaitsHaveTheirKey, NEW i \in DOMAIN co, Step(i), Apart
    PROVE  OutsideWaitsHaveTheirKey'
<1> SUFFICES ASSUME NEW k \in DOMAIN co', NEW j \in 0..Len(co'[k].bnds), LiveWait(k, j, "external")'
             PROVE  Key(co'[k].host, j) \in DOMAIN msg'.ext /\ msg'.ext[Key(co'[k].host, j)] = Waiter(k, j)'
  BY DEF OutsideWaitsHaveTheirKey, Key
<1>0. ListensTo(k, j, "external")' /\ ~Cancelled(k)' /\ Waiter(k, j)' \notin msg'.box
  BY DEF LiveWait
<1>1. CASE k \notin DOMAIN co
  BY <1>0, <1>1, StepDomain, RunningListensNot
<1>2. CASE k \in DOMAIN co /\ k # i
  <2> DEFINE key == Key(co[k].host, j)
  <2>1. co'[k] = co[k] /\ plan' = plan
    BY <1>2, StepDomain
  <2>2. ListensTo(k, j, "external") /\ Waiter(k, j)' = Waiter(k, j) /\ Waiter(k, j)[1] = k
    BY <1>0, <2>1, ListensAsBefore DEF Waiter
  <2>3. ~Cancelled(k)
    BY <1>0, <2>1, StepDomain DEF Cancelled
  <2>4. Waiter(k, j) \notin msg.box
    BY <1>0, <1>2, <2>2, StepDomain DEF OthersHeard
  <2>5. LiveWait(k, j, "external") /\ j \in 0..Len(co[k].bnds)
    BY <2>1, <2>2, <2>3, <2>4 DEF LiveWait
  <2>6. key \in DOMAIN msg.ext /\ msg.ext[key] = Waiter(k, j)
    BY <1>2, <2>5 DEF OutsideWaitsHaveTheirKey
  <2>7. ~NewKey(i, key)
    <3> SUFFICES ASSUME NewKey(i, key) PROVE FALSE
      OBVIOUS
    <3>1. PICK y \in 0..Len(co'[i].bnds) : ListensTo(i, y, "external")' /\ key = Key(co'[i].host, y)
      BY DEF NewKey
    <3>2. co'[i].n # co[i].n
      BY DEF NewKey
    <3>3. TakesKey(i, k)
      BY <2>5, <3>1, <3>2 DEF TakesKey
    <3> QED
      BY <1>2, <3>3 DEF Apart
  <2>8. key \in DOMAIN msg'.ext /\ msg'.ext[key] = msg.ext[key]
    <3> HIDE DEF key
    <3> QED
      BY <1>2, <2>2, <2>6, <2>7, StepDomain DEF OthersHeard
  <2> QED
    BY <2>1, <2>2, <2>6, <2>8
<1>3. CASE k = i
  <2>1. CASE co' = co /\ msg' = msg
    <3>1. ListensTo(k, j, "external") /\ Waiter(k, j)' = Waiter(k, j)
      BY <1>0, <2>1, StepDomain, ListensAsBefore
    <3>2. ~Cancelled(k)
      BY <1>0, <2>1, StepDomain DEF Cancelled
    <3>3. LiveWait(k, j, "external")
      BY <1>0, <2>1, <3>1, <3>2 DEF LiveWait
    <3> QED
      BY <1>3, <2>1, <3>1, <3>3 DEF OutsideWaitsHaveTheirKey
  <2>2. co'[i].st \in {"receive", "task", "call"}
    BY <1>0, <1>3, RunningListensNot
  <2> QED
    BY <1>0, <1>3, <2>1, <2>2, StepDomain DEF OwnHeard
<1> QED
  BY <1>1, <1>2, <1>3

LEMMA KeyOuter ==
    ASSUME TypeOK, OutsideWaitsHaveTheirKey, OuterStep
    PROVE  OutsideWaitsHaveTheirKey'
<1> SUFFICES ASSUME NEW k \in DOMAIN co', NEW j \in 0..Len(co'[k].bnds), LiveWait(k, j, "external")'
             PROVE  Key(co'[k].host, j) \in DOMAIN msg'.ext /\ msg'.ext[Key(co'[k].host, j)] = Waiter(k, j)'
  BY DEF OutsideWaitsHaveTheirKey, Key
<1>0. ListensTo(k, j, "external")' /\ ~Cancelled(k)' /\ Waiter(k, j)' \notin msg'.box
  BY DEF LiveWait
<1>1. k \in DOMAIN co
  BY <1>0, RunningListensNot DEF OuterStep
<1>2. Stays(k) /\ plan' = plan /\ cancelled \subseteq cancelled' /\ msg.box \subseteq msg'.box
  BY <1>1 DEF OuterStep
<1>3. ListensTo(k, j, "external") /\ Waiter(k, j)' = Waiter(k, j)
  BY <1>0, <1>2, ListensAsBefore DEF Stays
<1>4. LiveWait(k, j, "external") /\ j \in 0..Len(co[k].bnds)
  BY <1>0, <1>2, <1>3 DEF LiveWait, Cancelled, Stays
<1> DEFINE key == Key(co[k].host, j)
<1>5. key \in DOMAIN msg.ext /\ msg.ext[key] = Waiter(k, j)
  BY <1>1, <1>4 DEF OutsideWaitsHaveTheirKey
<1>6. key \in DOMAIN msg'.ext /\ msg'.ext[key] = msg.ext[key]
  <2> HIDE DEF key
  <2> QED
    BY <1>0, <1>3, <1>5 DEF OuterStep
<1>7. key = Key(co'[k].host, j)
  BY <1>2 DEF Stays
<1> QED
  BY <1>3, <1>5, <1>6, <1>7

\* A message wait is never forgotten, in any plan: its channel is queued until a
\* message is put in it.
THEOREM MessageWaitsStayQueued == Spec => []MessageWaitsAreQueued
<1>1. Init => MessageWaitsAreQueued
  <2>1. Init => DOMAIN co = {1} /\ co[1].st = "run"
    BY DEF Init, Coroutine
  <2> QED
    BY <2>1 DEF MessageWaitsAreQueued, ListensTo
<1>2. TypeOK /\ RoutedRunIsCancelled /\ MessageWaitsAreQueued /\ [Next]_vars => MessageWaitsAreQueued'
  <2>1. TypeOK /\ RoutedRunIsCancelled /\ MessageWaitsAreQueued /\ Next => MessageWaitsAreQueued'
    BY EveryStep, QueuedStep, QueuedOuter
  <2>2. MessageWaitsAreQueued /\ UNCHANGED vars => MessageWaitsAreQueued'
    BY DEF vars, MessageWaitsAreQueued, ListensTo, Waiter, Channels
  <2> QED
    BY <2>1, <2>2
<1> QED
  BY <1>1, <1>2, RunsAreTyped, PTL DEF Spec

\* Where no two coroutines come to wait under one key, every wait that still
\* counts can be reached: routes, reverts, boundaries and the clean-up of runs that
\* were left take no channel and no key from it.
THEOREM LiveWaitsStayReachable == Spec /\ KeysApart => []LiveWaitsAreReachable
<1>1. Init => OutsideWaitsHaveTheirKey
  <2>1. Init => DOMAIN co = {1} /\ co[1].st = "run"
    BY DEF Init, Coroutine
  <2> QED
    BY <2>1 DEF OutsideWaitsHaveTheirKey, LiveWait, ListensTo
<1>2. TypeOK /\ RoutedRunIsCancelled /\ OutsideWaitsHaveTheirKey /\ [Next]_vars /\ [Apart]_vars
        => OutsideWaitsHaveTheirKey'
  <2>1. OutsideWaitsHaveTheirKey /\ UNCHANGED vars => OutsideWaitsHaveTheirKey'
    BY DEF vars, OutsideWaitsHaveTheirKey, LiveWait, ListensTo, Waiter, Cancelled, Key
  <2>2. TypeOK /\ RoutedRunIsCancelled /\ OutsideWaitsHaveTheirKey /\ Next /\ Apart
          => OutsideWaitsHaveTheirKey'
    BY EveryStep, KeyStep, KeyOuter
  <2> QED
    BY <2>1, <2>2
<1>3. MessageWaitsAreQueued /\ OutsideWaitsHaveTheirKey => LiveWaitsAreReachable
  <2>1. ASSUME MessageWaitsAreQueued, NEW i \in DOMAIN co, NEW j \in 0..Len(co[i].bnds), LiveWait(i, j, "message")
        PROVE  Waiter(i, j) \in ToSet(msg.blocked)
    BY <2>1 DEF MessageWaitsAreQueued, LiveWait, Channels
  <2> QED
    BY <2>1 DEF OutsideWaitsHaveTheirKey, LiveWaitsAreReachable
<1> QED
  BY <1>1, <1>2, <1>3, RunsAreTyped, MessageWaitsStayQueued, PTL DEF Spec, KeysApart, Apart

=============================================================================
