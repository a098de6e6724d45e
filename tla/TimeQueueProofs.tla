--------------------------- MODULE TimeQueueProofs ---------------------------
(***************************************************************************)
(* The promises of TimeQueue for any number of players, processes, nodes   *)
(* and any limits. Every step changes the list in one of six ways          *)
(* (QueueStep); each of those keeps the order and links no node twice.     *)
(***************************************************************************)
EXTENDS TimeQueue, ListsProofs

-----------------------------------------------------------------------------
(* What the operators of TimeNodes do, for lists of any length.            *)

\* add_event()'s walk ends at one place: the first where it may stop.
LEMMA InsertPosProperties ==
    ASSUME NEW S, NEW q \in Seq(S), NEW d
    PROVE  /\ InsertPos(q, d) \in 1 .. Len(q) + 1
           /\ Stops(q, d, InsertPos(q, d))
           /\ \A j \in 1 .. InsertPos(q, d) - 1 : ~ Stops(q, d, j)
<1> DEFINE T == {k \in 1 .. Len(q) + 1 : Stops(q, d, k)}
<1>1. T \in SUBSET Nat /\ Len(q) + 1 \in T
  BY DEF Stops
<1>2. PICK m \in T : \A k \in T : m <= k
  BY <1>1, LeastNat
<1>3. /\ m \in 1 .. Len(q) + 1 /\ Stops(q, d, m)
      /\ \A j \in 1 .. m - 1 : ~ Stops(q, d, j)
  BY <1>2
<1> QED BY <1>3, Zenon DEF InsertPos

\* free_timenode() after unlinking: the nodes that stay are those not in gone.
LEMMA NodesOfWithout ==
    ASSUME NEW S, NEW q \in Seq(S), NEW gone
    PROVE  NodesOf(Without(q, gone)) = NodesOf(q) \ gone
<1> DEFINE r == Without(q, gone)
<1>1. r \in Seq(S)
  BY WithoutProperties
<1>2. PICK f : KeptBy(f, r, q, gone, Len(q))
  BY WithoutProperties
<1> HIDE DEF r
<1>3. ASSUME NEW i \in 1 .. Len(r) PROVE r[i] \in NodesOf(q) \ gone
  <2>1. f[i] \in 1 .. Len(q) /\ r[i] = q[f[i]] /\ r[i] \notin gone
    BY <1>1, <1>2 DEF KeptBy
  <2> QED BY <2>1 DEF NodesOf
<1>4. ASSUME NEW j \in 1 .. Len(q), q[j] \notin gone PROVE q[j] \in NodesOf(r)
  <2>1. PICK i \in 1 .. Len(r) : f[i] = j
    BY <1>2, <1>4 DEF KeptBy
  <2>2. r[i] = q[j]
    BY <1>2, <2>1 DEF KeptBy
  <2> QED BY <2>2 DEF NodesOf
<1>5. NodesOf(r) = NodesOf(q) \ gone
  BY <1>3, <1>4, Zenon DEF NodesOf
<1> QED BY <1>5 DEF r

\* add_event() moves the nodes from the place it finds on by one and no other.
LEMMA InsertNodeProperties ==
    ASSUME NEW S, NEW q \in Seq(S), NEW n \in S
    PROVE  /\ InsertPos(q, n.when) \in 1 .. Len(q) + 1
           /\ InsertNode(q, n) \in Seq(S)
           /\ Len(InsertNode(q, n)) = Len(q) + 1
           /\ \A i \in 1 .. Len(q) + 1 :
                 InsertNode(q, n)[i] = IF i < InsertPos(q, n.when) THEN q[i]
                                       ELSE IF i = InsertPos(q, n.when) THEN n
                                       ELSE q[i - 1]
<1> DEFINE k == InsertPos(q, n.when)
<1>1. k \in 1 .. Len(q) + 1
  BY InsertPosProperties
<1> HIDE DEF k
<1>2. /\ InsertAt(q, k, n) \in Seq(S)
      /\ Len(InsertAt(q, k, n)) = Len(q) + 1
      /\ \A i \in 1 .. Len(q) + 1 :
            InsertAt(q, k, n)[i] = IF i < k THEN q[i]
                                   ELSE IF i = k THEN n ELSE q[i - 1]
  BY <1>1, InsertAtProperties
<1>3. InsertNode(q, n) = InsertAt(q, k, n)
  BY DEF InsertNode, k
<1> QED BY <1>1, <1>2, <1>3 DEF k

\* add_event() adds the new node to the list and loses none.
LEMMA NodesOfInsertNode ==
    ASSUME NEW S, NEW q \in Seq(S), NEW n \in S
    PROVE  NodesOf(InsertNode(q, n)) = NodesOf(q) \cup {n}
<1> DEFINE k == InsertPos(q, n.when)
           r == InsertNode(q, n)
<1>1. /\ k \in 1 .. Len(q) + 1
      /\ r \in Seq(S)
      /\ Len(r) = Len(q) + 1
      /\ \A i \in 1 .. Len(q) + 1 :
            r[i] = IF i < k THEN q[i] ELSE IF i = k THEN n ELSE q[i - 1]
  BY InsertNodeProperties
<1> HIDE DEF k, r
<1>2. ASSUME NEW i \in 1 .. Len(r) PROVE r[i] \in NodesOf(q) \cup {n}
  <2>1. CASE i < k
    BY <1>1, <2>1 DEF NodesOf
  <2>2. CASE i = k
    BY <1>1, <2>2
  <2>3. CASE i > k
    <3>1. i - 1 \in 1 .. Len(q) /\ r[i] = q[i - 1]
      BY <1>1, <2>3
    <3> QED BY <3>1 DEF NodesOf
  <2> QED BY <1>1, <2>1, <2>2, <2>3
<1>3. ASSUME NEW j \in 1 .. Len(q) PROVE q[j] \in NodesOf(r)
  <2>1. CASE j < k
    <3>1. j \in 1 .. Len(r) /\ r[j] = q[j]
      BY <1>1, <2>1
    <3> QED BY <3>1 DEF NodesOf
  <2>2. CASE j >= k
    <3>1. j + 1 \in 1 .. Len(r) /\ r[j + 1] = q[j]
      BY <1>1, <2>2
    <3> QED BY <3>1 DEF NodesOf
  <2> QED BY <1>1, <2>1, <2>2
<1>4. n \in NodesOf(r)
  <2>1. k \in 1 .. Len(r) /\ r[k] = n
    BY <1>1
  <2> QED BY <2>1 DEF NodesOf
<1>5. NodesOf(r) = NodesOf(q) \cup {n}
  BY <1>2, <1>3, <1>4, Zenon DEF NodesOf
<1> QED BY <1>5 DEF r

-----------------------------------------------------------------------------
(* Every operation keeps the order of the times.                           *)

\* Unlinking nodes leaves the others in the order of their times.
LEMMA WithoutInOrder ==
    ASSUME NEW S, NEW q \in Seq(S), NEW gone, InOrder(q)
    PROVE  InOrder(Without(q, gone))
<1> DEFINE r == Without(q, gone)
<1>1. PICK f : KeptBy(f, r, q, gone, Len(q))
  BY WithoutProperties
<1> HIDE DEF r
<1>2. ASSUME NEW i \in 1 .. Len(r), NEW j \in 1 .. Len(r), i < j
      PROVE  /\ IsRead(r[i]) => IsRead(r[j])
             /\ IsRead(r[j]) \/ r[i].when <= r[j].when
  <2>1. /\ f[i] \in 1 .. Len(q) /\ f[j] \in 1 .. Len(q) /\ f[i] < f[j]
        /\ r[i] = q[f[i]] /\ r[j] = q[f[j]]
    BY <1>1, <1>2 DEF KeptBy
  <2> QED BY <2>1 DEF InOrder
<1>3. InOrder(r)
  BY <1>2 DEF InOrder
<1> QED BY <1>3 DEF r

\* add_event() puts a node that is not a READ where the order of the times has
\* it, before the READs.
LEMMA InsertInOrder ==
    ASSUME NEW S, \A m \in S : m.when \in Nat,
           NEW q \in Seq(S), NEW n \in S, ~ IsRead(n), InOrder(q)
    PROVE  InOrder(InsertNode(q, n))
<1> DEFINE d == n.when
           k == InsertPos(q, d)
           r == InsertNode(q, n)
<1>1. /\ k \in 1 .. Len(q) + 1
      /\ r \in Seq(S)
      /\ Len(r) = Len(q) + 1
      /\ \A i \in 1 .. Len(q) + 1 :
            r[i] = IF i < k THEN q[i] ELSE IF i = k THEN n ELSE q[i - 1]
  BY InsertNodeProperties
<1>2. Stops(q, d, k) /\ \A j \in 1 .. k - 1 : ~ Stops(q, d, j)
  BY InsertPosProperties
<1>3. d \in Nat /\ \A i \in 1 .. Len(q) : q[i].when \in Nat
  OBVIOUS
<1> HIDE DEF d, k, r
<1>4. \A i \in 1 .. k - 1 : ~ IsRead(q[i]) /\ q[i].when <= d
  <2> TAKE i \in 1 .. k - 1
  <2>1. i \in 1 .. Len(q) /\ ~ Stops(q, d, i)
    BY <1>1, <1>2
  <2> QED BY <1>3, <2>1 DEF Stops
<1>5. \A i \in k .. Len(q) : IsRead(q[i]) \/ d <= q[i].when
  <2> TAKE i \in k .. Len(q)
  <2>1. k \in 1 .. Len(q) /\ i \in 1 .. Len(q) /\ (IsRead(q[k]) \/ d < q[k].when)
    BY <1>1, <1>2 DEF Stops
  <2>2. CASE i = k
    BY <1>3, <2>1, <2>2
  <2>3. CASE k < i
    <3>1. /\ IsRead(q[k]) => IsRead(q[i])
          /\ IsRead(q[i]) \/ q[k].when <= q[i].when
      BY <2>1, <2>3 DEF InOrder
    <3>2. q[k].when \in Nat /\ q[i].when \in Nat /\ d \in Nat
      BY <1>3, <2>1
    <3> QED BY <2>1, <3>1, <3>2
  <2> QED BY <2>1, <2>2, <2>3
<1>6. ASSUME NEW i \in 1 .. Len(r), NEW j \in 1 .. Len(r), i < j
      PROVE  /\ IsRead(r[i]) => IsRead(r[j])
             /\ IsRead(r[j]) \/ r[i].when <= r[j].when
  <2>1. CASE j < k
    <3>1. i \in 1 .. Len(q) /\ j \in 1 .. Len(q) /\ r[i] = q[i] /\ r[j] = q[j]
      BY <1>1, <1>6, <2>1
    <3> QED BY <1>6, <3>1 DEF InOrder
  <2>2. CASE j = k
    <3>1. r[i] = q[i] /\ r[j] = n /\ i \in 1 .. k - 1
      BY <1>1, <1>6, <2>2
    <3> QED BY <1>4, <3>1 DEF d
  <2>3. CASE j > k /\ i < k
    <3>1. /\ r[i] = q[i] /\ r[j] = q[j - 1]
          /\ i \in 1 .. Len(q) /\ j - 1 \in 1 .. Len(q) /\ i < j - 1
      BY <1>1, <1>6, <2>3
    <3> QED BY <3>1 DEF InOrder
  <2>4. CASE j > k /\ i = k
    <3>1. r[i] = n /\ r[j] = q[j - 1] /\ j - 1 \in k .. Len(q)
      BY <1>1, <1>6, <2>4
    <3> QED BY <1>5, <3>1 DEF d
  <2>5. CASE j > k /\ i > k
    <3>1. /\ r[i] = q[i - 1] /\ r[j] = q[j - 1] /\ i - 1 < j - 1
          /\ i - 1 \in 1 .. Len(q) /\ j - 1 \in 1 .. Len(q)
      BY <1>1, <1>6, <2>5
    <3> QED BY <3>1 DEF InOrder
  <2> QED BY <1>1, <1>6, <2>1, <2>2, <2>3, <2>4, <2>5
<1>7. InOrder(r)
  BY <1>6 DEF InOrder
<1> QED BY <1>7 DEF r

\* A READ at the tail, one node less at the head, a second gone by.
LEMMA AppendReadInOrder ==
    ASSUME NEW S, NEW q \in Seq(S), NEW n \in S, IsRead(n), InOrder(q)
    PROVE  InOrder(Append(q, n))
<1> DEFINE r == Append(q, n)
<1>1. /\ r \in Seq(S) /\ Len(r) = Len(q) + 1 /\ r[Len(q) + 1] = n
      /\ \A i \in 1 .. Len(q) : r[i] = q[i]
  BY AppendProperties
<1> HIDE DEF r
<1>2. ASSUME NEW i \in 1 .. Len(r), NEW j \in 1 .. Len(r), i < j
      PROVE  /\ IsRead(r[i]) => IsRead(r[j])
             /\ IsRead(r[j]) \/ r[i].when <= r[j].when
  <2>1. CASE j = Len(q) + 1
    BY <1>1, <2>1
  <2>2. CASE j \in 1 .. Len(q)
    <3>1. i \in 1 .. Len(q) /\ r[i] = q[i] /\ r[j] = q[j]
      BY <1>1, <1>2, <2>2
    <3> QED BY <1>2, <2>2, <3>1 DEF InOrder
  <2> QED BY <1>1, <2>1, <2>2
<1> QED BY <1>2 DEF InOrder, r

\* next_timequeue_event() takes the head: what is left is in order.
LEMMA TailInOrder ==
    ASSUME NEW S, NEW q \in Seq(S), q # << >>, InOrder(q)
    PROVE  InOrder(Tail(q))
<1>1. /\ Len(Tail(q)) = Len(q) - 1
      /\ \A i \in 1 .. Len(q) - 1 : Tail(q)[i] = q[i + 1]
  BY HeadTailProperties
<1>2. ASSUME NEW i \in 1 .. Len(Tail(q)), NEW j \in 1 .. Len(Tail(q)), i < j
      PROVE  /\ IsRead(Tail(q)[i]) => IsRead(Tail(q)[j])
             /\ IsRead(Tail(q)[j]) \/ Tail(q)[i].when <= Tail(q)[j].when
  <2>1. /\ i + 1 \in 1 .. Len(q) /\ j + 1 \in 1 .. Len(q) /\ i + 1 < j + 1
        /\ Tail(q)[i] = q[i + 1] /\ Tail(q)[j] = q[j + 1]
    BY <1>1, <1>2
  <2> QED BY <2>1 DEF InOrder
<1> QED BY <1>2 DEF InOrder

-----------------------------------------------------------------------------
(* No operation links a node twice.                                        *)

\* Unlinking links no node twice.
LEMMA WithoutNoNodeTwice ==
    ASSUME NEW S, NEW q \in Seq(S), NEW gone, NoNodeTwice(q)
    PROVE  NoNodeTwice(Without(q, gone))
<1> DEFINE r == Without(q, gone)
<1>1. PICK f : KeptBy(f, r, q, gone, Len(q))
  BY WithoutProperties
<1>2. r \in Seq(S)
  BY WithoutProperties
<1> HIDE DEF r
<1>3. ASSUME NEW i \in 1 .. Len(r), NEW j \in 1 .. Len(r), r[i].addr = r[j].addr
      PROVE  i = j
  <2>1. /\ f[i] \in 1 .. Len(q) /\ f[j] \in 1 .. Len(q)
        /\ r[i] = q[f[i]] /\ r[j] = q[f[j]]
    BY <1>1 DEF KeptBy
  <2>2. f[i] = f[j]
    BY <1>3, <2>1 DEF NoNodeTwice
  <2>3. ~ (i < j) /\ ~ (j < i)
    BY <1>1, <2>1, <2>2 DEF KeptBy
  <2> QED BY <1>2, <2>3
<1> QED BY <1>3 DEF NoNodeTwice, r

\* add_event() links a struct that was not in the list: none is there twice.
LEMMA InsertNoNodeTwice ==
    ASSUME NEW S, NEW q \in Seq(S), NEW n \in S
    PROVE  NoNodeTwice(q) /\ n.addr \notin AddrsOf(q) => NoNodeTwice(InsertNode(q, n))
<1> DEFINE k == InsertPos(q, n.when)
           r == InsertNode(q, n)
<1>1. /\ k \in 1 .. Len(q) + 1
      /\ r \in Seq(S)
      /\ Len(r) = Len(q) + 1
      /\ \A i \in 1 .. Len(q) + 1 :
            r[i] = IF i < k THEN q[i] ELSE IF i = k THEN n ELSE q[i - 1]
  BY InsertNodeProperties
<1> SUFFICES ASSUME NoNodeTwice(q), n.addr \notin AddrsOf(q) PROVE NoNodeTwice(r)
  OBVIOUS
<1>2. \A i \in 1 .. Len(q) : q[i].addr # n.addr
  BY DEF AddrsOf, NodesOf
<1> HIDE DEF k, r
<1>3. ASSUME NEW i \in 1 .. Len(r), NEW j \in 1 .. Len(r),
             r[i].addr = r[j].addr, i < j
      PROVE  FALSE
  <2>1. CASE j < k
    <3>1. i \in 1 .. Len(q) /\ j \in 1 .. Len(q) /\ r[i] = q[i] /\ r[j] = q[j]
      BY <1>1, <1>3, <2>1
    <3> QED BY <1>3, <3>1 DEF NoNodeTwice
  <2>2. CASE j = k
    <3>1. r[i] = q[i] /\ r[j] = n /\ i \in 1 .. Len(q)
      BY <1>1, <1>3, <2>2
    <3> QED BY <1>2, <1>3, <3>1
  <2>3. CASE j > k /\ i < k
    <3>1. /\ r[i] = q[i] /\ r[j] = q[j - 1]
          /\ i \in 1 .. Len(q) /\ j - 1 \in 1 .. Len(q) /\ i # j - 1
      BY <1>1, <1>3, <2>3
    <3> QED BY <1>3, <3>1 DEF NoNodeTwice
  <2>4. CASE j > k /\ i = k
    <3>1. r[i] = n /\ r[j] = q[j - 1] /\ j - 1 \in 1 .. Len(q)
      BY <1>1, <1>3, <2>4
    <3> QED BY <1>2, <1>3, <3>1
  <2>5. CASE j > k /\ i > k
    <3>1. /\ r[i] = q[i - 1] /\ r[j] = q[j - 1] /\ i - 1 # j - 1
          /\ i - 1 \in 1 .. Len(q) /\ j - 1 \in 1 .. Len(q)
      BY <1>1, <1>3, <2>5
    <3> QED BY <1>3, <3>1 DEF NoNodeTwice
  <2> QED BY <1>1, <1>3, <2>1, <2>2, <2>3, <2>4, <2>5
<1>4. \A i, j \in 1 .. Len(r) : i < j \/ j < i \/ i = j
  BY <1>1
<1>5. NoNodeTwice(r)
  BY <1>3, <1>4 DEF NoNodeTwice
<1> QED BY <1>5 DEF r

-----------------------------------------------------------------------------
\* What the fields of a struct timenode may hold.
LEMMA NodeFields ==
    ASSUME NEW n \in Node
    PROVE  /\ n.when \in 0 .. MaxDelay /\ n.when \in Nat
           /\ n.addr \in Addrs /\ n.uid \in Players
           /\ n.pid \in Pids /\ n.sub \in Subtypes
<1>1. n.when \in 0 .. MaxDelay
  BY DEF Node
<1>2. n.when \in Nat
  BY <1>1, BoundsAssumption
<1> QED BY <1>1, <1>2 DEF Node

\* A second that goes by takes one off the time a node has left, down to 0, and
\* leaves the rest of it and its place.
LEMMA OlderProperties ==
    ASSUME NEW q \in Seq(Node)
    PROVE  /\ Older(q) \in Seq(Node)
           /\ Len(Older(q)) = Len(q)
           /\ \A i \in 1 .. Len(q) :
                 /\ Older(q)[i].addr = q[i].addr /\ Older(q)[i].sub = q[i].sub
                 /\ Older(q)[i].uid = q[i].uid /\ Older(q)[i].pid = q[i].pid
                 /\ Older(q)[i].when = IF q[i].when = 0 THEN 0 ELSE q[i].when - 1
<1>1. \A i \in 1 .. Len(q) : q[i] \in Node
  OBVIOUS
<1> DEFINE aged(n) == [n EXCEPT !.when = IF @ = 0 THEN 0 ELSE @ - 1]
<1>2. ASSUME NEW n \in Node
      PROVE  /\ aged(n) \in Node
             /\ aged(n).addr = n.addr /\ aged(n).sub = n.sub
             /\ aged(n).uid = n.uid /\ aged(n).pid = n.pid
             /\ aged(n).when = IF n.when = 0 THEN 0 ELSE n.when - 1
  <2>1. n.when \in 0 .. MaxDelay
    BY DEF Node
  <2>2. (IF n.when = 0 THEN 0 ELSE n.when - 1) \in 0 .. MaxDelay
    BY <2>1, BoundsAssumption
  <2> QED BY <2>2 DEF Node
<1> HIDE DEF aged
<1>3. Older(q) = [i \in 1 .. Len(q) |-> aged(q[i])]
  BY DEF Older, aged
<1>4. \A i \in 1 .. Len(q) : aged(q[i]) \in Node
  BY <1>1, <1>2
<1> QED BY <1>1, <1>2, <1>3, <1>4

\* A second that goes by leaves the list in order.
LEMMA OlderInOrder ==
    ASSUME NEW q \in Seq(Node), InOrder(q)
    PROVE  InOrder(Older(q))
<1> DEFINE r == Older(q)
<1>1. /\ r \in Seq(Node) /\ Len(r) = Len(q)
      /\ \A i \in 1 .. Len(q) :
            /\ r[i].sub = q[i].sub
            /\ r[i].when = IF q[i].when = 0 THEN 0 ELSE q[i].when - 1
  BY OlderProperties
<1>2. \A i \in 1 .. Len(q) : q[i].when \in Nat
  BY NodeFields
<1> HIDE DEF r
<1>3. ASSUME NEW i \in 1 .. Len(r), NEW j \in 1 .. Len(r), i < j
      PROVE  /\ IsRead(r[i]) => IsRead(r[j])
             /\ IsRead(r[j]) \/ r[i].when <= r[j].when
  <2>1. /\ IsRead(q[i]) => IsRead(q[j])
        /\ IsRead(q[j]) \/ q[i].when <= q[j].when
    BY <1>1, <1>3 DEF InOrder
  <2>2. q[i].when \in Nat /\ q[j].when \in Nat
    BY <1>1, <1>2
  <2>3. /\ r[i].sub = q[i].sub /\ r[j].sub = q[j].sub
        /\ r[i].when = IF q[i].when = 0 THEN 0 ELSE q[i].when - 1
        /\ r[j].when = IF q[j].when = 0 THEN 0 ELSE q[j].when - 1
    BY <1>1
  <2> QED BY <2>1, <2>2, <2>3 DEF IsRead
<1> QED BY <1>3 DEF InOrder, r

\* next_timequeue_event()'s walk ends where it should: what it counts is due,
\* within the limit, and followed by a node that is not due unless the limit or
\* the list ends it.
LEMMA DueRunProperties ==
    ASSUME NEW q \in Seq(Node), NEW limit \in Nat
    PROVE  LET n == DueRun(q, limit)
           IN  /\ n \in 0 .. Len(q) /\ n <= limit
               /\ \A i \in 1 .. n : q[i].when = 0
               /\ n < Len(q) /\ n < limit => q[n + 1].when > 0
<1> DEFINE T == {n \in 0 .. Len(q) : n = Len(q) \/ n = limit \/ q[n + 1].when > 0}
<1>1. T \in SUBSET Nat /\ Len(q) \in T
  OBVIOUS
<1>2. PICK m \in T : \A k \in T : m <= k
  BY <1>1, LeastNat
<1>3. \A i \in 1 .. Len(q) : q[i].when \in Nat
  BY NodeFields
<1>4. m \in 0 .. Len(q) /\ (m = Len(q) \/ m = limit \/ q[m + 1].when > 0)
  BY <1>2
<1>5. m <= limit
  <2> SUFFICES ASSUME limit < m PROVE FALSE
    BY <1>4
  <2>1. limit \in T
    BY <1>4
  <2> HIDE DEF T
  <2>2. m <= limit
    BY <1>2, <2>1
  <2> QED BY <1>4, <2>2
<1>6. \A i \in 1 .. m : q[i].when = 0
  <2> TAKE i \in 1 .. m
  <2>1. i - 1 \in 0 .. Len(q) /\ ~ (m <= i - 1)
    BY <1>4
  <2>2. i - 1 \notin T
    <3> HIDE DEF T
    <3> QED BY <1>2, <2>1
  <2>3. ~ (q[i - 1 + 1].when > 0) /\ i \in 1 .. Len(q) /\ i - 1 + 1 = i
    BY <1>4, <2>1, <2>2
  <2> QED BY <1>3, <2>3
<1>7. \E n \in 0 .. Len(q) :
         /\ n <= limit
         /\ \A i \in 1 .. n : q[i].when = 0
         /\ n < Len(q) /\ n < limit => q[n + 1].when > 0
  BY <1>4, <1>5, <1>6
<1> QED BY <1>7, Zenon DEF DueRun

-----------------------------------------------------------------------------
(* The six things a step may do to the list.                               *)
QueueStep ==
    \/ tq' = tq
    \/ tq' = Older(tq)
    \/ \E n \in Node : /\ IsRead(n) /\ n.addr \notin AddrsOf(tq)
                       /\ tq' = Append(tq, n)
    \/ \E gone : tq' = Without(tq, gone)
    \/ \E n \in Node, q \in Seq(Node) :
          /\ q = tq \/ \E gone : q = Without(tq, gone)
          /\ ~ IsRead(n) /\ n.addr \notin AddrsOf(q)
          /\ n.sub = "TIMER" \/ n.addr \notin AddrsOf(tq)
          /\ tq' = InsertNode(q, n)
    \/ tq # << >> /\ tq' = Tail(tq)

\* Whatever function of timequeue.c is called, the list changes in one of the
\* ways QueueStep names.
LEMMA StepIsQueueStep == TypeOK /\ [Next]_vars => QueueStep
<1> SUFFICES ASSUME TypeOK, [Next]_vars PROVE QueueStep
  OBVIOUS
<1>1. CASE UNCHANGED vars
  BY <1>1 DEF vars, QueueStep
<1>2. CASE Tick
  BY <1>2 DEF Tick, QueueStep
<1>3. ASSUME NEW p \in Pids, NEW a \in Addrs, AddRead(p, a) PROVE QueueStep
  <2> DEFINE n == [addr |-> a, sub |-> "READ", when |-> 0,
                   uid |-> UidOf[p], pid |-> p, id |-> NoId]
  <2>1. n \in Node
    BY PlayersAssumption, BoundsAssumption DEF Node, Subtypes
  <2>2. IsRead(n) /\ n.addr \notin AddrsOf(tq) /\ tq' = Append(tq, n)
    BY <1>3 DEF AddRead, IsRead
  <2> QED BY <2>1, <2>2 DEF QueueStep
<1>4. ASSUME NEW p \in Pids, NEW a \in Addrs, NEW d \in 0 .. MaxDelay,
             NEW sub \in {"QUEUE", "MPI", "DELAY"}, AddEvent(p, sub, d, a)
      PROVE  QueueStep
  <2> DEFINE n == [addr |-> a, sub |-> sub, when |-> d,
                   uid |-> UidOf[p], pid |-> p, id |-> NoId]
  <2>1. n \in Node
    BY PlayersAssumption DEF Node, Subtypes
  <2>2. ~ IsRead(n) /\ n.addr \notin AddrsOf(tq)
    BY <1>4 DEF AddEvent, IsRead
  <2>3. tq' = Without(tq, TimersOf(tq, p)) \/ tq' = InsertNode(tq, n)
    BY <1>4 DEF AddEvent, Unlink
  <2>4. tq \in Seq(Node)
    BY DEF TypeOK
  <2> QED BY <2>1, <2>2, <2>3, <2>4 DEF QueueStep
<1>5. ASSUME NEW p \in Pids, NEW a \in Addrs, NEW d \in 0 .. MaxDelay,
             NEW id \in Ids, TimerStart(p, d, id, a)
      PROVE  QueueStep
  <2> DEFINE old == {n \in TimersOf(tq, p) : n.id = Trunc30[id]}
             q   == Without(tq, old)
             n   == [addr |-> a, sub |-> "TIMER", when |-> d,
                     uid |-> UidOf[p], pid |-> p, id |-> Trunc32[id]]
  <2>1. n \in Node
    BY PlayersAssumption, IdsAssumption DEF Node, Subtypes
  <2>2. q \in Seq(Node)
    BY WithoutProperties DEF TypeOK
  <2>3. n.addr \notin AddrsOf(q) /\ ~ IsRead(n) /\ n.sub = "TIMER"
    BY <1>5 DEF TimerStart, IsRead
  <2>4. tq' = Without(tq, TimersOf(tq, p)) \/ tq' = InsertNode(q, n)
    BY <1>5 DEF TimerStart, Unlink
  <2> QED BY <2>1, <2>2, <2>3, <2>4 DEF QueueStep
<1>6. ASSUME NEW p \in Pids, NEW id \in Ids, TimerStop(p, id) PROVE QueueStep
  BY <1>6 DEF TimerStop, Unlink, QueueStep
<1>7. ASSUME NEW p \in Pids, ProcessExit(p) PROVE QueueStep
  BY <1>7 DEF ProcessExit, Unlink, QueueStep
<1>8. ASSUME NEW p \in Pids, NEW waiting \in BOOLEAN, NEW command \in BOOLEAN,
             DequeueProcess(p, waiting, command)
      PROVE  QueueStep
  BY <1>8 DEF DequeueProcess, Unlink, QueueStep
<1>9. ASSUME NEW matching, DequeueProg(matching) PROVE QueueStep
  BY <1>9 DEF DequeueProg, Unlink, QueueStep
<1>10. CASE DequeueAll
  BY <1>10 DEF DequeueAll, Unlink, QueueStep
<1>11. CASE BeginPass
  <2>1. tq # << >>
    <3>1. DueRun(tq, RunLimit) \in 0 .. Len(tq) /\ DueRun(tq, RunLimit) > 0
      BY <1>11, DueRunProperties, BoundsAssumption DEF BeginPass, TypeOK
    <3> QED BY <3>1
  <2> QED BY <1>11, <2>1 DEF BeginPass, TakeHead, QueueStep
<1>12. CASE RunHead
  BY <1>12 DEF RunHead, PassGoesOn, TakeHead, QueueStep
<1>13. CASE EndPass
  BY <1>13 DEF EndPass, QueueStep
<1>14. ASSUME NEW u \in Players, NEW dies \in BOOLEAN, HandleRead(u, dies)
       PROVE  QueueStep
  BY <1>14 DEF HandleRead, Unlink, QueueStep
<1>15. CASE HandleReadEnds
  BY <1>15 DEF HandleReadEnds, QueueStep
<1> QED BY <1>1, <1>2, <1>3, <1>4, <1>5, <1>6, <1>7, <1>8, <1>9, <1>10, <1>11,
           <1>12, <1>13, <1>14, <1>15 DEF Next, ProgramStep, Kill, Pass, ReadLine

-----------------------------------------------------------------------------
\* None of those ways puts a node of a wrong shape in the list, breaks the order
\* or links a struct twice.
LEMMA QueueStepKeepsList ==
    ASSUME tq \in Seq(Node), InOrder(tq), NoNodeTwice(tq), QueueStep
    PROVE  tq' \in Seq(Node) /\ InOrder(tq') /\ NoNodeTwice(tq')
<1>0. \A n \in Node : n.when \in Nat
  BY NodeFields
<1>1. CASE tq' = tq
  BY <1>1
<1>2. CASE tq' = Older(tq)
  <2>1. tq' \in Seq(Node) /\ InOrder(tq')
    BY <1>2, OlderProperties, OlderInOrder
  <2>2. NoNodeTwice(tq')
    <3>1. /\ Len(tq') = Len(tq)
          /\ \A i \in 1 .. Len(tq) : tq'[i].addr = tq[i].addr
      BY <1>2, OlderProperties
    <3> QED BY <3>1 DEF NoNodeTwice
  <2> QED BY <2>1, <2>2
<1>3. ASSUME NEW n \in Node, IsRead(n), n.addr \notin AddrsOf(tq), tq' = Append(tq, n)
      PROVE  tq' \in Seq(Node) /\ InOrder(tq') /\ NoNodeTwice(tq')
  <2>1. /\ tq' \in Seq(Node) /\ Len(tq') = Len(tq) + 1 /\ tq'[Len(tq) + 1] = n
        /\ \A i \in 1 .. Len(tq) : tq'[i] = tq[i]
    BY <1>3, AppendProperties
  <2>2. InOrder(tq')
    BY <1>3, AppendReadInOrder
  <2>3. \A i \in 1 .. Len(tq) : tq[i].addr # n.addr
    BY <1>3 DEF AddrsOf, NodesOf
  <2>4. NoNodeTwice(tq')
    <3> SUFFICES ASSUME NEW i \in 1 .. Len(tq'), NEW j \in 1 .. Len(tq'),
                        tq'[i].addr = tq'[j].addr
                 PROVE  i = j
      BY DEF NoNodeTwice
    <3>1. CASE i = Len(tq) + 1 \/ j = Len(tq) + 1
      BY <2>1, <2>3, <3>1
    <3>2. CASE i \in 1 .. Len(tq) /\ j \in 1 .. Len(tq)
      BY <2>1, <3>2 DEF NoNodeTwice
    <3> QED BY <2>1, <3>1, <3>2
  <2> QED BY <2>1, <2>2, <2>4
<1>4. ASSUME NEW gone, tq' = Without(tq, gone)
      PROVE  tq' \in Seq(Node) /\ InOrder(tq') /\ NoNodeTwice(tq')
  BY <1>4, WithoutProperties, WithoutInOrder, WithoutNoNodeTwice
<1>5. ASSUME NEW n \in Node, NEW q \in Seq(Node),
             q = tq \/ \E gone : q = Without(tq, gone),
             ~ IsRead(n), n.addr \notin AddrsOf(q), tq' = InsertNode(q, n)
      PROVE  tq' \in Seq(Node) /\ InOrder(tq') /\ NoNodeTwice(tq')
  <2>1. InOrder(q) /\ NoNodeTwice(q)
    BY <1>5, WithoutInOrder, WithoutNoNodeTwice
  <2>2. tq' \in Seq(Node)
    BY <1>5, InsertNodeProperties
  <2>3. InOrder(tq')
    BY <1>0, <1>5, <2>1, InsertInOrder
  <2>4. NoNodeTwice(tq')
    BY <1>5, <2>1, InsertNoNodeTwice
  <2> QED BY <2>2, <2>3, <2>4
<1>6. CASE tq # << >> /\ tq' = Tail(tq)
  <2>1. /\ tq' \in Seq(Node) /\ Len(tq') = Len(tq) - 1
        /\ \A i \in 1 .. Len(tq) - 1 : tq'[i] = tq[i + 1]
    BY <1>6, HeadTailProperties
  <2>2. InOrder(tq')
    BY <1>6, TailInOrder
  <2>3. NoNodeTwice(tq')
    <3> SUFFICES ASSUME NEW i \in 1 .. Len(tq'), NEW j \in 1 .. Len(tq'),
                        tq'[i].addr = tq'[j].addr
                 PROVE  i = j
      BY DEF NoNodeTwice
    <3>1. /\ i + 1 \in 1 .. Len(tq) /\ j + 1 \in 1 .. Len(tq)
          /\ tq[i + 1].addr = tq[j + 1].addr
      BY <2>1
    <3>2. i + 1 = j + 1
      BY <3>1 DEF NoNodeTwice
    <3> QED BY <3>2
  <2> QED BY <2>1, <2>2, <2>3
<1> QED BY <1>1, <1>2, <1>3, <1>4, <1>5, <1>6 DEF QueueStep

-----------------------------------------------------------------------------
\* add_event() finds the table full by a count that is never higher than the
\* list is long.
LEMMA UnlinkProperties ==
    ASSUME NEW gone, NEW cost \in Nat, tq \in Seq(Node), process_count \in Int,
           Unlink(gone, cost)
    PROVE  /\ tq' = Without(tq, gone) /\ tq' \in Seq(Node)
           /\ NodesOf(tq') = NodesOf(tq) \ gone
           /\ process_count' \in Int
           /\ process_count <= Len(tq) => process_count' <= Len(tq')
<1>1. /\ tq' = Without(tq, gone) /\ tq' \in Seq(Node)
      /\ NodesOf(tq') = NodesOf(tq) \ gone
  BY WithoutProperties, NodesOfWithout DEF Unlink
<1>2. process_count' = process_count - (Len(tq) - Len(tq')) - cost
  BY DEF Unlink
<1> QED BY <1>1, <1>2

\* handle_read_event() finds the first READ of a player who has one.
LEMMA FirstReadProperties ==
    ASSUME NEW u, tq \in Seq(Node), u \in Readers(NodesOf(tq))
    PROVE  /\ FirstRead(u) \in 1 .. Len(tq)
           /\ IsRead(tq[FirstRead(u)]) /\ tq[FirstRead(u)].uid = u
<1> DEFINE T == {i \in 1 .. Len(tq) : IsRead(tq[i]) /\ tq[i].uid = u}
<1>1. T \in SUBSET Nat /\ T # {}
  BY DEF Readers, NodesOf
<1>2. PICK m \in T : \A k \in T : m <= k
  BY <1>1, LeastNat
<1>3. /\ m \in 1 .. Len(tq) /\ IsRead(tq[m]) /\ tq[m].uid = u
      /\ \A j \in 1 .. m - 1 : ~ (IsRead(tq[j]) /\ tq[j].uid = u)
  BY <1>2
<1> QED BY <1>3, Zenon DEF FirstRead

\* The READ flags are a truth value for every player after a removal.
LEMMA FlagsAfterType ==
    ASSUME NEW gone, NEW kept PROVE FlagsAfter(gone, kept) \in [Players -> BOOLEAN]
BY Zenon DEF FlagsAfter

\* Every function of timequeue.c keeps the types of the variables.
LEMMA TypeStep ==
    ASSUME TypeOK, tq' \in Seq(Node), [Next]_vars
    PROVE  TypeOK'
<1> USE DEF TypeOK, InPass, Reading
<1>1. CASE UNCHANGED vars
  BY <1>1 DEF vars
<1>2. CASE Tick
  BY <1>2 DEF Tick
<1>3. ASSUME NEW p \in Pids, NEW a \in Addrs, AddRead(p, a) PROVE TypeOK'
  <2>1. readmode' \in [Players -> BOOLEAN]
    BY <1>3, PlayersAssumption DEF AddRead
  <2> QED BY <1>3, <2>1 DEF AddRead
<1>4. ASSUME NEW p \in Pids, NEW a \in Addrs, NEW d \in 0 .. MaxDelay,
             NEW sub \in {"QUEUE", "MPI", "DELAY"}, AddEvent(p, sub, d, a)
      PROVE  TypeOK'
  <2>1. loose' \in BOOLEAN
    BY <1>4, Zenon DEF AddEvent, Unlink
  <2>2. process_count' \in Int
    BY <1>4 DEF AddEvent, Unlink
  <2> QED BY <1>4, <2>1, <2>2 DEF AddEvent
<1>5. ASSUME NEW p \in Pids, NEW a \in Addrs, NEW d \in 0 .. MaxDelay,
             NEW id \in Ids, TimerStart(p, d, id, a)
      PROVE  TypeOK'
  <2>1. loose' \in BOOLEAN
    BY <1>5, Zenon DEF TimerStart, Unlink
  <2>2. process_count' \in Int
    <3>1. /\ Without(tq, {n \in TimersOf(tq, p) : n.id = Trunc30[id]}) \in Seq(Node)
          /\ Without(tq, TimersOf(tq, p)) \in Seq(Node)
      BY WithoutProperties
    <3> QED BY <1>5, <3>1 DEF TimerStart, Unlink
  <2> QED BY <1>5, <2>1, <2>2 DEF TimerStart
<1>6. ASSUME NEW p \in Pids, NEW id \in Ids, TimerStop(p, id) PROVE TypeOK'
  <2>1. loose' \in BOOLEAN
    BY <1>6, Zenon DEF TimerStop, Unlink
  <2> QED BY <1>6, <2>1 DEF TimerStop, Unlink
<1>7. ASSUME NEW p \in Pids, ProcessExit(p) PROVE TypeOK'
  <2>1. loose' \in BOOLEAN
    BY <1>7, Zenon DEF ProcessExit, Unlink
  <2> QED BY <1>7, <2>1 DEF ProcessExit, Unlink
<1>8. ASSUME NEW p \in Pids, NEW waiting \in BOOLEAN, NEW command \in BOOLEAN,
             DequeueProcess(p, waiting, command)
      PROVE  TypeOK'
  <2>1. loose' \in BOOLEAN
    BY <1>8, Zenon DEF DequeueProcess, Unlink
  <2>2. readmode' \in [Players -> BOOLEAN] /\ fault' \in BOOLEAN
    BY <1>8, FlagsAfterType, Zenon DEF DequeueProcess, SavedNodeFreed
  <2>3. process_count' \in Int
    BY <1>8 DEF DequeueProcess, Unlink
  <2> QED BY <1>8, <2>1, <2>2, <2>3 DEF DequeueProcess
<1>9. ASSUME NEW matching, DequeueProg(matching) PROVE TypeOK'
  <2>1. loose' \in BOOLEAN
    BY <1>9, Zenon DEF DequeueProg, Unlink
  <2>2. readmode' \in [Players -> BOOLEAN] /\ fault' \in BOOLEAN
    BY <1>9, FlagsAfterType, Zenon DEF DequeueProg, GoesOnFromFreed
  <2>3. process_count' \in Int
    BY <1>9 DEF DequeueProg, Unlink
  <2> QED BY <1>9, <2>1, <2>2, <2>3 DEF DequeueProg
<1>10. CASE DequeueAll
  <2>1. loose' \in BOOLEAN
    BY <1>10, Zenon DEF DequeueAll, Unlink
  <2>2. readmode' \in [Players -> BOOLEAN] /\ fault' \in BOOLEAN
    BY <1>10, FlagsAfterType, Zenon DEF DequeueAll
  <2> QED BY <1>10, <2>1, <2>2 DEF DequeueAll, Unlink
<1>11. CASE BeginPass
  <2>1. DueRun(tq, RunLimit) \in 0 .. Len(tq) /\ DueRun(tq, RunLimit) <= RunLimit
    BY DueRunProperties, BoundsAssumption
  <2>2. left' \in 0 .. RunLimit - 1
    BY <1>11, <2>1, BoundsAssumption DEF BeginPass
  <2>3. last' \in Addrs \cup {NoAddr}
    <3>1. \A i \in 1 .. Len(tq) : tq[i].addr \in Addrs
      BY NodeFields
    <3> QED BY <1>11, <2>1, <3>1 DEF BeginPass
  <2>4. loose' \in BOOLEAN
    BY <1>11, Zenon DEF BeginPass
  <2> QED BY <1>11, <2>2, <2>3, <2>4 DEF BeginPass, TakeHead
<1>12. CASE RunHead
  <2>1. left' \in 0 .. RunLimit - 1
    BY <1>12, BoundsAssumption DEF RunHead, PassGoesOn, NoPass
  <2> QED BY <1>12, <2>1 DEF RunHead, PassGoesOn, TakeHead, NoPass
<1>13. CASE EndPass
  BY <1>13 DEF EndPass
<1>14. ASSUME NEW u \in Players, NEW dies \in BOOLEAN, HandleRead(u, dies)
       PROVE  TypeOK'
  <2>1. loose' \in BOOLEAN
    BY <1>14, Zenon DEF HandleRead, Unlink
  <2>2. process_count' \in Int
    BY <1>14 DEF HandleRead, Unlink
  <2>3. reader' \in ReaderState
    <3>1. \A i \in 1 .. Len(tq) : tq[i].addr \in Addrs
      BY NodeFields
    <3>2. CASE u \notin Readers(NodesOf(tq))
      BY <1>14, <3>2 DEF HandleRead
    <3>3. CASE u \in Readers(NodesOf(tq))
      <4> DEFINE i == FirstRead(u)
                 next == IF i < Len(tq) THEN tq[i + 1].addr ELSE NoAddr
      <4>1. i \in 1 .. Len(tq)
        BY <3>3, FirstReadProperties
      <4>2. next \in Addrs \cup {NoAddr}
        BY <3>1, <4>1
      <4>3. \/ reader' = NoReader
            \/ reader' = [uid |-> u, ptr |-> next]
        BY <1>14, <3>3 DEF HandleRead
      <4> QED BY <4>2, <4>3 DEF ReaderState
    <3> QED BY <3>2, <3>3
  <2> QED BY <1>14, <2>1, <2>2, <2>3 DEF HandleRead
<1>15. CASE HandleReadEnds
  <2>1. readmode' \in [Players -> BOOLEAN] /\ fault' \in BOOLEAN
    BY <1>15, Zenon DEF HandleReadEnds
  <2>2. reader' \in ReaderState
    BY <1>15 DEF HandleReadEnds, ReaderState
  <2> QED BY <1>15, <2>1, <2>2 DEF HandleReadEnds
<1> QED BY <1>1, <1>2, <1>3, <1>4, <1>5, <1>6, <1>7, <1>8, <1>9, <1>10, <1>11,
           <1>12, <1>13, <1>14, <1>15 DEF Next, ProgramStep, Kill, Pass, ReadLine

(* The inductive invariant of the list. That no node is linked twice is    *)
(* what makes an address a name for a place in the list.                   *)
ListInv == TypeOK /\ QueueOrder /\ NoNodeTwice(tq)

\* The inductive invariant of the list: its types, its order, and no struct in
\* it twice. The last is needed to count what a removal takes off.
LEMMA ListInvariant == Spec => []ListInv
<1>1. Init => ListInv
  <2> SUFFICES ASSUME Init PROVE ListInv
    OBVIOUS
  <2>1. tq = << >> /\ tq \in Seq(Node)
    BY DEF Init
  <2>2. QueueOrder /\ NoNodeTwice(tq)
    BY <2>1 DEF QueueOrder, InOrder, NoNodeTwice
  <2>3. readmode \in [Players -> BOOLEAN]
    BY DEF Init
  <2>4. loose \in BOOLEAN /\ fault \in BOOLEAN
    BY Zenon DEF Init
  <2> QED BY <2>1, <2>2, <2>3, <2>4 DEF Init, ListInv, TypeOK, ReaderState
<1>2. ListInv /\ [Next]_vars => ListInv'
  <2> SUFFICES ASSUME ListInv, [Next]_vars PROVE ListInv'
    OBVIOUS
  <2>1. tq' \in Seq(Node) /\ InOrder(tq') /\ NoNodeTwice(tq')
    BY StepIsQueueStep, QueueStepKeepsList DEF ListInv, TypeOK, QueueOrder
  <2>2. TypeOK'
    BY <2>1, TypeStep DEF ListInv
  <2> QED BY <2>1, <2>2 DEF ListInv, QueueOrder
<1> QED BY <1>1, <1>2, PTL DEF Spec

\* Every variable keeps its type, whatever programs, users and the clock do.
THEOREM TypeCorrect == Spec => []TypeOK
BY ListInvariant, PTL DEF ListInv

\* next_timequeue_event() may stop at the first node that is not due, and at
\* the first READ: whatever is behind it cannot run either. The order holds
\* after every function of timequeue.c, from inside a pass too.
THEOREM OrderKept == Spec => []QueueOrder
BY ListInvariant, PTL DEF ListInv

-----------------------------------------------------------------------------
(* The count that decides whether the table is full.                       *)

\* No function adds more to process_count than nodes to the list, nor takes less
\* off it than nodes from the list.
LEMMA CountStep ==
    ASSUME TypeOK, TypeOK', [Next]_vars, CountWithinQueue
    PROVE  CountWithinQueue'
<1> USE DEF CountWithinQueue, TypeOK
<1>1. CASE UNCHANGED vars
  BY <1>1 DEF vars
<1>2. CASE Tick
  BY <1>2, OlderProperties DEF Tick
<1>3. ASSUME NEW p \in Pids, NEW a \in Addrs, AddRead(p, a)
      PROVE  CountWithinQueue'
  <2> DEFINE n == [addr |-> a, sub |-> "READ", when |-> 0,
                   uid |-> UidOf[p], pid |-> p, id |-> NoId]
  <2>1. n \in Node
    BY PlayersAssumption, BoundsAssumption DEF Node, Subtypes
  <2>2. tq' = Append(tq, n) /\ process_count' = process_count + 1
    BY <1>3 DEF AddRead
  <2> HIDE DEF n
  <2>3. Len(tq') = Len(tq) + 1
    BY <2>1, <2>2, AppendProperties
  <2> QED BY <2>2, <2>3
<1>4. ASSUME NEW p \in Pids, NEW a \in Addrs, NEW d \in 0 .. MaxDelay,
             NEW sub \in {"QUEUE", "MPI", "DELAY"}, AddEvent(p, sub, d, a)
      PROVE  CountWithinQueue'
  <2> DEFINE n == [addr |-> a, sub |-> sub, when |-> d,
                   uid |-> UidOf[p], pid |-> p, id |-> NoId]
  <2>1. n \in Node
    BY PlayersAssumption DEF Node, Subtypes
  <2>2. CASE Unlink(TimersOf(tq, p), 0)
    BY <2>2, UnlinkProperties
  <2>3. CASE tq' = InsertNode(tq, n) /\ process_count' = process_count + 1
    <3>1. Len(tq') = Len(tq) + 1
      BY <2>1, <2>3, InsertNodeProperties
    <3> QED BY <2>3, <3>1
  <2> QED BY <1>4, <2>2, <2>3 DEF AddEvent
<1>5. ASSUME NEW p \in Pids, NEW a \in Addrs, NEW d \in 0 .. MaxDelay,
             NEW id \in Ids, TimerStart(p, d, id, a)
      PROVE  CountWithinQueue'
  <2> DEFINE old == {n \in TimersOf(tq, p) : n.id = Trunc30[id]}
             q   == Without(tq, old)
             n   == [addr |-> a, sub |-> "TIMER", when |-> d,
                     uid |-> UidOf[p], pid |-> p, id |-> Trunc32[id]]
  <2>1. n \in Node
    BY PlayersAssumption, IdsAssumption DEF Node, Subtypes
  <2>2. q \in Seq(Node)
    BY WithoutProperties
  <2>3. CASE Unlink(TimersOf(tq, p), 0)
    BY <2>3, UnlinkProperties
  <2>4. CASE /\ tq' = InsertNode(q, n)
             /\ process_count' = process_count - (Len(tq) - Len(q)) + 1
    <3> HIDE DEF q, n
    <3>1. Len(tq') = Len(q) + 1
      BY <2>1, <2>2, <2>4, InsertNodeProperties
    <3>2. Len(tq) \in Nat /\ Len(q) \in Nat
      BY <2>2
    <3> QED BY <2>4, <3>1, <3>2
  <2> QED BY <1>5, <2>3, <2>4 DEF TimerStart
<1>6. ASSUME NEW p \in Pids, NEW id \in Ids, TimerStop(p, id)
      PROVE  CountWithinQueue'
  BY <1>6, UnlinkProperties DEF TimerStop
<1>7. ASSUME NEW p \in Pids, ProcessExit(p) PROVE CountWithinQueue'
  BY <1>7, UnlinkProperties DEF ProcessExit
<1>8. ASSUME NEW p \in Pids, NEW waiting \in BOOLEAN, NEW command \in BOOLEAN,
             DequeueProcess(p, waiting, command)
      PROVE  CountWithinQueue'
  <2> DEFINE cost == (IF waiting THEN 1 ELSE 0) + (IF command THEN 1 ELSE 0)
  <2>1. cost \in Nat
    OBVIOUS
  <2>2. Unlink({n \in NodesOf(tq) : n.pid = p}, cost)
    BY <1>8 DEF DequeueProcess
  <2> HIDE DEF cost
  <2> QED BY <2>1, <2>2, UnlinkProperties
<1>9. ASSUME NEW matching, DequeueProg(matching) PROVE CountWithinQueue'
  BY <1>9, UnlinkProperties DEF DequeueProg
<1>10. CASE DequeueAll
  BY <1>10, UnlinkProperties DEF DequeueAll
<1>11. CASE BeginPass \/ RunHead
  <2>1. tq # << >>
    <3>1. CASE BeginPass
      <4>1. DueRun(tq, RunLimit) \in 0 .. Len(tq) /\ DueRun(tq, RunLimit) > 0
        BY <3>1, DueRunProperties, BoundsAssumption DEF BeginPass
      <4> QED BY <4>1
    <3>2. CASE RunHead
      BY <3>2 DEF RunHead, PassGoesOn
    <3> QED BY <1>11, <3>1, <3>2
  <2>2. TakeHead
    BY <1>11 DEF BeginPass, RunHead
  <2>3. Len(Tail(tq)) = Len(tq) - 1
    BY <2>1, HeadTailProperties
  <2> QED BY <2>2, <2>3 DEF TakeHead
<1>12. CASE EndPass
  BY <1>12 DEF EndPass
<1>13. ASSUME NEW u \in Players, NEW dies \in BOOLEAN, HandleRead(u, dies)
       PROVE  CountWithinQueue'
  <2>1. CASE u \notin Readers(NodesOf(tq))
    BY <1>13, <2>1 DEF HandleRead
  <2>2. CASE u \in Readers(NodesOf(tq))
    <3>1. \E gone : Unlink(gone, 0)
      BY <1>13, <2>2 DEF HandleRead
    <3> QED BY <3>1, UnlinkProperties
  <2> QED BY <2>1, <2>2
<1>14. CASE HandleReadEnds
  BY <1>14 DEF HandleReadEnds
<1> QED BY <1>1, <1>2, <1>3, <1>4, <1>5, <1>6, <1>7, <1>8, <1>9, <1>10, <1>11,
           <1>12, <1>13, <1>14 DEF Next, ProgramStep, Kill, Pass, ReadLine

\* add_event() never refuses a process because of process_count while the
\* list has room: the count may lag behind the list, never run ahead of it.
THEOREM CountNeverHigh == Spec => []CountWithinQueue
<1>1. Init => CountWithinQueue
  BY DEF Init, CountWithinQueue
<1>2. ListInv /\ ListInv' /\ [Next]_vars /\ CountWithinQueue => CountWithinQueue'
  BY CountStep DEF ListInv
<1> QED BY <1>1, <1>2, ListInvariant, PTL DEF Spec

-----------------------------------------------------------------------------
(* The READ flags and the READ nodes.                                      *)

\* A player is a reader through one of the nodes.
LEMMA ReadersMeaning ==
    ASSUME NEW nodes, NEW u
    PROVE  u \in Readers(nodes) <=> \E n \in nodes : IsRead(n) /\ n.uid = u
BY DEF Readers

\* The nodes of a list after one of the six changes that is not a removal.
LEMMA NodesOfAppend ==
    ASSUME NEW q \in Seq(Node), NEW n \in Node
    PROVE  NodesOf(Append(q, n)) = NodesOf(q) \cup {n}
<1>1. /\ Append(q, n) \in Seq(Node) /\ Len(Append(q, n)) = Len(q) + 1
      /\ Append(q, n)[Len(q) + 1] = n
      /\ \A i \in 1 .. Len(q) : Append(q, n)[i] = q[i]
  BY AppendProperties
<1> HIDE DEF NodesOf
<1>2. ASSUME NEW m \in NodesOf(Append(q, n)) PROVE m \in NodesOf(q) \cup {n}
  <2>1. PICK i \in 1 .. Len(q) + 1 : m = Append(q, n)[i]
    BY <1>1, <1>2 DEF NodesOf
  <2>2. CASE i = Len(q) + 1
    BY <1>1, <2>1, <2>2
  <2>3. CASE i \in 1 .. Len(q)
    BY <1>1, <2>1, <2>3 DEF NodesOf
  <2> QED BY <2>1, <2>2, <2>3
<1>3. ASSUME NEW m \in NodesOf(q) \cup {n} PROVE m \in NodesOf(Append(q, n))
  <2>1. CASE m = n
    <3>1. Len(q) + 1 \in 1 .. Len(Append(q, n))
      BY <1>1
    <3> QED BY <1>1, <2>1, <3>1 DEF NodesOf
  <2>2. CASE m \in NodesOf(q)
    <3>1. PICK i \in 1 .. Len(q) : m = q[i]
      BY <2>2 DEF NodesOf
    <3>2. i \in 1 .. Len(Append(q, n)) /\ Append(q, n)[i] = m
      BY <1>1, <3>1
    <3> QED BY <3>2 DEF NodesOf
  <2> QED BY <1>3, <2>1, <2>2
<1> QED BY <1>2, <1>3

\* Taking a head that is not a READ leaves every READ where it is.
LEMMA ReadsOfTail ==
    ASSUME NEW q \in Seq(Node), q # << >>, ~ IsRead(q[1]),
           NEW n \in NodesOf(q), IsRead(n)
    PROVE  n \in NodesOf(Tail(q))
<1>1. /\ Tail(q) \in Seq(Node) /\ Len(Tail(q)) = Len(q) - 1
      /\ \A i \in 1 .. Len(q) - 1 : Tail(q)[i] = q[i + 1]
  BY HeadTailProperties
<1>2. PICK i \in 1 .. Len(q) : n = q[i]
  BY DEF NodesOf
<1>3. i # 1
  BY <1>2
<1>4. i - 1 \in 1 .. Len(Tail(q)) /\ Tail(q)[i - 1] = n
  BY <1>1, <1>2, <1>3
<1> QED BY <1>4 DEF NodesOf

\* As long as the READs stay and no flag is set, no player becomes a ghost.
LEMMA ReadsStay ==
    ASSUME NoGhostReader, \A n \in NodesOf(tq) : IsRead(n) => n \in NodesOf(tq'),
           \A u \in Players : readmode'[u] => readmode[u]
    PROVE  NoGhostReader'
BY ReadersMeaning, Zenon DEF NoGhostReader

\* A removal that sets the flags anew leaves no ghost.
LEMMA FlagsFollowReads ==
    ASSUME NoGhostReader, tq \in Seq(Node), NEW gone, NEW cost, Unlink(gone, cost),
           readmode' = FlagsAfter(gone, NodesOf(tq) \ gone)
    PROVE  NoGhostReader'
<1>1. NodesOf(tq') = NodesOf(tq) \ gone
  BY NodesOfWithout DEF Unlink
<1> SUFFICES ASSUME NEW u \in Players, readmode'[u],
                    u \notin Readers(NodesOf(tq) \ gone)
             PROVE  FALSE
  BY <1>1, Zenon DEF NoGhostReader
<1>2. readmode[u] /\ u \notin Readers(gone)
  BY Zenon DEF FlagsAfter
<1>3. PICK n \in NodesOf(tq) : IsRead(n) /\ n.uid = u
  BY <1>2, ReadersMeaning, Zenon DEF NoGhostReader
<1> QED BY <1>2, <1>3, ReadersMeaning, Zenon

\* No function takes a player's last READ off the list and leaves his flags set,
\* or sets them without a READ.
LEMMA GhostStep ==
    ASSUME TypeOK, [Next]_vars, NoGhostReader
    PROVE  NoGhostReader'
<1>0. tq \in Seq(Node)
  BY DEF TypeOK
<1>t. \A p : \A n \in TimersOf(tq, p) : ~ IsRead(n)
  BY DEF TimersOf, IsRead
<1>u. ASSUME NEW gone, NEW cost, Unlink(gone, cost),
             \A n \in gone : ~ IsRead(n), UNCHANGED readmode
      PROVE  NoGhostReader'
  <2>1. NodesOf(tq') = NodesOf(tq) \ gone
    BY <1>0, <1>u, NodesOfWithout DEF Unlink
  <2> QED BY <1>u, <2>1, ReadsStay, Zenon
<1>1. CASE UNCHANGED vars
  BY <1>1, Zenon DEF vars, NoGhostReader
<1>2. CASE Tick
  <2>1. \A u \in Readers(NodesOf(tq)) : u \in Readers(NodesOf(tq'))
    <3> TAKE u \in Readers(NodesOf(tq))
    <3>1. PICK i \in 1 .. Len(tq) : IsRead(tq[i]) /\ tq[i].uid = u
      BY ReadersMeaning DEF NodesOf
    <3>2. /\ i \in 1 .. Len(tq')
          /\ tq'[i].sub = tq[i].sub /\ tq'[i].uid = tq[i].uid
      BY <1>0, <1>2, OlderProperties DEF Tick
    <3>3. tq'[i] \in NodesOf(tq') /\ IsRead(tq'[i]) /\ tq'[i].uid = u
      BY <3>1, <3>2 DEF NodesOf, IsRead
    <3> QED BY <3>3, ReadersMeaning
  <2> QED BY <1>2, <2>1, Zenon DEF Tick, NoGhostReader
<1>3. ASSUME NEW p \in Pids, NEW a \in Addrs, AddRead(p, a) PROVE NoGhostReader'
  <2> DEFINE n == [addr |-> a, sub |-> "READ", when |-> 0,
                   uid |-> UidOf[p], pid |-> p, id |-> NoId]
  <2>1. n \in Node
    BY PlayersAssumption, BoundsAssumption DEF Node, Subtypes
  <2>2. tq' = Append(tq, n)
    BY <1>3 DEF AddRead
  <2>3. IsRead(n) /\ n.uid = UidOf[p]
    BY DEF IsRead
  <2> HIDE DEF n
  <2>4. NodesOf(tq') = NodesOf(tq) \cup {n}
    BY <1>0, <2>1, <2>2, NodesOfAppend
  <2>5. \A u \in Players : u = UidOf[p] \/ (readmode'[u] => readmode[u])
    BY <1>3 DEF AddRead, TypeOK
  <2>6. UidOf[p] \in Readers(NodesOf(tq'))
    BY <2>3, <2>4, ReadersMeaning
  <2>7. \A u \in Readers(NodesOf(tq)) : u \in Readers(NodesOf(tq'))
    BY <2>4, ReadersMeaning
  <2> QED BY <2>5, <2>6, <2>7, Zenon DEF NoGhostReader
<1>4. ASSUME NEW p \in Pids, NEW a \in Addrs, NEW d \in 0 .. MaxDelay,
             NEW sub \in {"QUEUE", "MPI", "DELAY"}, AddEvent(p, sub, d, a)
      PROVE  NoGhostReader'
  <2> DEFINE n == [addr |-> a, sub |-> sub, when |-> d,
                   uid |-> UidOf[p], pid |-> p, id |-> NoId]
  <2>1. n \in Node
    BY PlayersAssumption DEF Node, Subtypes
  <2>2. CASE Unlink(TimersOf(tq, p), 0)
    BY <1>4, <1>t, <1>u, <2>2 DEF AddEvent
  <2>3. CASE tq' = InsertNode(tq, n)
    <3> HIDE DEF n
    <3>1. NodesOf(tq') = NodesOf(tq) \cup {n}
      BY <1>0, <2>1, <2>3, NodesOfInsertNode
    <3> QED BY <1>4, <3>1, ReadsStay, Zenon DEF AddEvent
  <2> QED BY <1>4, <2>2, <2>3 DEF AddEvent
<1>5. ASSUME NEW p \in Pids, NEW a \in Addrs, NEW d \in 0 .. MaxDelay,
             NEW id \in Ids, TimerStart(p, d, id, a)
      PROVE  NoGhostReader'
  <2> DEFINE old == {n \in TimersOf(tq, p) : n.id = Trunc30[id]}
             q   == Without(tq, old)
             n   == [addr |-> a, sub |-> "TIMER", when |-> d,
                     uid |-> UidOf[p], pid |-> p, id |-> Trunc32[id]]
  <2>1. n \in Node
    BY PlayersAssumption, IdsAssumption DEF Node, Subtypes
  <2>2. q \in Seq(Node) /\ NodesOf(q) = NodesOf(tq) \ old
    BY <1>0, WithoutProperties, NodesOfWithout
  <2>3. \A m \in old : ~ IsRead(m)
    BY <1>t
  <2>4. CASE Unlink(TimersOf(tq, p), 0)
    BY <1>5, <1>t, <1>u, <2>4 DEF TimerStart
  <2>5. CASE tq' = InsertNode(q, n)
    <3> HIDE DEF old, q, n
    <3>1. NodesOf(tq') = NodesOf(q) \cup {n}
      BY <2>1, <2>2, <2>5, NodesOfInsertNode
    <3>2. \A m \in NodesOf(tq) : IsRead(m) => m \in NodesOf(tq')
      BY <2>2, <2>3, <3>1
    <3> QED BY <1>5, <3>2, ReadsStay, Zenon DEF TimerStart
  <2> QED BY <1>5, <2>4, <2>5 DEF TimerStart
<1>6. ASSUME NEW p \in Pids, NEW id \in Ids, TimerStop(p, id)
      PROVE  NoGhostReader'
  <2>1. \A n \in {m \in TimersOf(tq, p) : m.id = Trunc30[id]} : ~ IsRead(n)
    BY <1>t
  <2> QED BY <1>6, <1>u, <2>1, Zenon DEF TimerStop
<1>7. ASSUME NEW p \in Pids, ProcessExit(p) PROVE NoGhostReader'
  BY <1>7, <1>t, <1>u DEF ProcessExit
<1>8. ASSUME NEW p \in Pids, NEW waiting \in BOOLEAN, NEW command \in BOOLEAN,
             DequeueProcess(p, waiting, command)
      PROVE  NoGhostReader'
  BY <1>0, <1>8, FlagsFollowReads DEF DequeueProcess
<1>9. ASSUME NEW matching, DequeueProg(matching) PROVE NoGhostReader'
  BY <1>0, <1>9, FlagsFollowReads DEF DequeueProg
<1>10. CASE DequeueAll
  <2>1. NodesOf(tq) \ NodesOf(tq) = {}
    OBVIOUS
  <2> QED BY <1>0, <1>10, <2>1, FlagsFollowReads DEF DequeueAll
<1>11. CASE BeginPass \/ RunHead
  <2>1. tq # << >> /\ ~ IsRead(tq[1])
    <3>1. CASE BeginPass
      <4>1. DueRun(tq, RunLimit) \in 0 .. Len(tq) /\ DueRun(tq, RunLimit) > 0
        BY <1>0, <3>1, DueRunProperties, BoundsAssumption DEF BeginPass
      <4> QED BY <3>1, <4>1 DEF BeginPass
    <3>2. CASE RunHead
      BY <3>2 DEF RunHead, PassGoesOn
    <3> QED BY <1>11, <3>1, <3>2
  <2>2. tq' = Tail(tq) /\ readmode' = readmode
    BY <1>11 DEF BeginPass, RunHead, TakeHead
  <2>3. \A n \in NodesOf(tq) : IsRead(n) => n \in NodesOf(tq')
    BY <1>0, <2>1, <2>2, ReadsOfTail
  <2> QED BY <2>2, <2>3, ReadsStay, Zenon
<1>12. CASE EndPass
  BY <1>12, Zenon DEF EndPass, NoGhostReader
<1>13. ASSUME NEW u \in Players, NEW dies \in BOOLEAN, HandleRead(u, dies)
       PROVE  NoGhostReader'
  <2>1. \A v \in Players : v # u => readmode'[v] = readmode[v]
    BY <1>13 DEF HandleRead, TypeOK
  <2>2. ~ readmode'[u]
    BY <1>13 DEF HandleRead, TypeOK
  <2>3. ASSUME NEW v \in Players, v # u, v \in Readers(NodesOf(tq))
        PROVE  v \in Readers(NodesOf(tq'))
    <3>1. CASE u \notin Readers(NodesOf(tq))
      BY <1>13, <2>3, <3>1 DEF HandleRead
    <3>2. CASE u \in Readers(NodesOf(tq))
      <4> DEFINE i == FirstRead(u)
                 more == IF dies THEN TimersOf(tq, tq[i].pid) ELSE {}
      <4>1. Unlink({tq[i]} \cup more, 0)
        BY <1>13, <3>2 DEF HandleRead
      <4>2. tq[i].uid = u
        BY <1>0, <3>2, FirstReadProperties
      <4>3. \A n \in more : ~ IsRead(n)
        BY <1>t
      <4> HIDE DEF i, more
      <4>4. NodesOf(tq') = NodesOf(tq) \ ({tq[i]} \cup more)
        BY <1>0, <4>1, NodesOfWithout DEF Unlink
      <4>5. PICK n \in NodesOf(tq) : IsRead(n) /\ n.uid = v
        BY <2>3, ReadersMeaning
      <4>6. n \in NodesOf(tq')
        BY <2>3, <4>2, <4>3, <4>4, <4>5
      <4> QED BY <4>5, <4>6, ReadersMeaning
    <3> QED BY <3>1, <3>2
  <2> QED BY <2>1, <2>2, <2>3, Zenon DEF NoGhostReader
<1>14. CASE HandleReadEnds
  <2>1. tq' = tq
    BY <1>14 DEF HandleReadEnds
  <2> SUFFICES ASSUME NEW v \in Players, readmode'[v], ~ readmode[v]
               PROVE  v \in Readers(NodesOf(tq))
    BY <2>1, Zenon DEF NoGhostReader
  <2>2. PICK j \in 1 .. Len(tq) : IsRead(tq[j]) /\ tq[j].uid = v
    <3> DEFINE from == {i \in 1 .. Len(tq) : tq[i].addr = reader.ptr}
               again == \E i \in from : \E j \in i .. Len(tq) :
                           IsRead(tq[j]) /\ tq[j].uid = reader.uid
    <3>1. readmode' = [readmode EXCEPT ![reader.uid] = @ \/ again]
      BY <1>14 DEF HandleReadEnds
    <3> HIDE DEF again
    <3>2. v = reader.uid /\ again
      BY <3>1, Zenon DEF TypeOK
    <3>3. PICK i \in from : \E j \in i .. Len(tq) :
              IsRead(tq[j]) /\ tq[j].uid = reader.uid
      BY <3>2 DEF again
    <3> QED BY <3>2, <3>3
  <2> QED BY <2>2, ReadersMeaning DEF NodesOf
<1> QED BY <1>1, <1>2, <1>3, <1>4, <1>5, <1>6, <1>7, <1>8, <1>9, <1>10, <1>11,
           <1>12, <1>13, <1>14 DEF Next, ProgramStep, Kill, Pass, ReadLine

\* INTERACTIVE and READMODE are never left behind on a player: whichever way
\* his READ goes (answered, killed, its program recycled), the flags go too.
THEOREM NoGhosts == Spec => []NoGhostReader
<1>1. Init => NoGhostReader
  BY Zenon DEF Init, NoGhostReader
<1>2. ListInv /\ [Next]_vars /\ NoGhostReader => NoGhostReader'
  BY GhostStep DEF ListInv
<1> QED BY <1>1, <1>2, ListInvariant, PTL DEF Spec

-----------------------------------------------------------------------------
(* The pass: what is still to be run is due, and stays at the head.        *)

PassDue ==
    (InPass /\ ~ loose) =>
        /\ left <= Len(tq)
        /\ \A i \in 1 .. left : tq[i].when = 0 /\ ~ IsRead(tq[i])

\* A removal in a pass is recorded, unless it removes nothing.
LEMMA UnlinkInPass ==
    ASSUME tq \in Seq(Node), NEW gone, NEW cost, Unlink(gone, cost), InPass, ~ loose'
    PROVE  ~ loose /\ tq' = tq
<1>1. gone = {} /\ ~ loose
  BY DEF Unlink
<1>2. Without(tq, {}) = tq
  BY WithoutNone
<1> QED BY <1>1, <1>2 DEF Unlink

\* A node that comes in goes behind those that are due.
LEMMA InsertBehindDue ==
    ASSUME NEW S, NEW q \in Seq(S), NEW n \in S, n.when \in Nat,
           NEW m \in Nat, m <= Len(q), \A i \in 1 .. m : q[i].when = 0 /\ ~ IsRead(q[i])
    PROVE  /\ Len(InsertNode(q, n)) = Len(q) + 1
           /\ \A i \in 1 .. m : InsertNode(q, n)[i] = q[i]
<1> DEFINE k == InsertPos(q, n.when)
           r == InsertNode(q, n)
<1>1. /\ k \in 1 .. Len(q) + 1 /\ Len(r) = Len(q) + 1
      /\ \A i \in 1 .. Len(q) + 1 :
            r[i] = IF i < k THEN q[i] ELSE IF i = k THEN n ELSE q[i - 1]
  BY InsertNodeProperties
<1>2. Stops(q, n.when, k)
  BY InsertPosProperties
<1> HIDE DEF k, r
<1>3. m < k
  <2>1. CASE k = Len(q) + 1
    BY <2>1
  <2>2. CASE k # Len(q) + 1
    BY <1>1, <1>2, <2>2 DEF Stops
  <2> QED BY <2>1, <2>2
<1>4. \A i \in 1 .. m : r[i] = q[i]
  BY <1>1, <1>3
<1> QED BY <1>1, <1>4 DEF r

\* So what the pass has still to run stays due when add_event() puts it in.
LEMMA InsertKeepsDue ==
    ASSUME tq \in Seq(Node), left \in Nat \cup {NoPass}, InPass, ~ loose, PassDue,
           NEW n \in Node, tq' = InsertNode(tq, n), left' = left
    PROVE  PassDue'
<1>1. left \in Nat /\ left <= Len(tq) /\ Len(tq) \in Nat /\ n.when \in Nat
      /\ \A i \in 1 .. left : tq[i].when = 0 /\ ~ IsRead(tq[i])
  BY NodeFields DEF PassDue, InPass
<1>2. Len(tq') = Len(tq) + 1 /\ \A i \in 1 .. left : tq'[i] = tq[i]
  BY <1>1, InsertBehindDue
<1> QED BY <1>1, <1>2 DEF PassDue

LEMMA PassStep ==
    ASSUME TypeOK, PassDue, [Next]_vars
    PROVE  PassDue'
<1>0. tq \in Seq(Node) /\ Len(tq) \in Nat /\ left \in Nat \cup {NoPass}
  BY BoundsAssumption DEF TypeOK
<1> SUFFICES ASSUME InPass', ~ loose' PROVE PassDue'
  BY DEF PassDue
\* Steps that leave the list and the pass alone, and removals.
<1>a. ASSUME tq' = tq, left' = left, ~ loose PROVE PassDue'
  BY <1>a DEF PassDue, InPass
<1>b. ASSUME NEW gone, NEW cost, Unlink(gone, cost), left' = left PROVE PassDue'
  BY <1>0, <1>a, <1>b, UnlinkInPass DEF InPass
<1>1. CASE UNCHANGED vars
  BY <1>1, <1>a DEF vars
<1>2. CASE Tick
  <2>1. tq' = Older(tq) /\ left' = left /\ loose' = loose
    BY <1>2 DEF Tick
  <2>2. /\ Len(tq') = Len(tq)
        /\ \A i \in 1 .. Len(tq) :
              tq'[i].sub = tq[i].sub /\ (tq[i].when = 0 => tq'[i].when = 0)
    BY <1>0, <2>1, OlderProperties
  <2> QED BY <1>0, <2>1, <2>2 DEF PassDue, InPass, IsRead
<1>3. ASSUME NEW p \in Pids, NEW a \in Addrs, AddRead(p, a) PROVE PassDue'
  <2> DEFINE n == [addr |-> a, sub |-> "READ", when |-> 0,
                   uid |-> UidOf[p], pid |-> p, id |-> NoId]
  <2>1. n \in Node
    BY PlayersAssumption, BoundsAssumption DEF Node, Subtypes
  <2>2. tq' = Append(tq, n) /\ left' = left /\ loose' = loose
    BY <1>3 DEF AddRead
  <2> HIDE DEF n
  <2>3. Len(tq') = Len(tq) + 1 /\ \A i \in 1 .. Len(tq) : tq'[i] = tq[i]
    BY <1>0, <2>1, <2>2, AppendProperties
  <2> QED BY <1>0, <2>2, <2>3 DEF PassDue, InPass
<1>4. ASSUME NEW p \in Pids, NEW a \in Addrs, NEW d \in 0 .. MaxDelay,
             NEW sub \in {"QUEUE", "MPI", "DELAY"}, AddEvent(p, sub, d, a)
      PROVE  PassDue'
  <2> DEFINE n == [addr |-> a, sub |-> sub, when |-> d,
                   uid |-> UidOf[p], pid |-> p, id |-> NoId]
  <2>1. n \in Node
    BY PlayersAssumption DEF Node, Subtypes
  <2>2. /\ left' = left
        /\ \/ Unlink(TimersOf(tq, p), 0)
           \/ tq' = InsertNode(tq, n) /\ loose' = loose
    BY <1>4 DEF AddEvent
  <2> HIDE DEF n
  <2> QED BY <1>0, <1>b, <2>1, <2>2, InsertKeepsDue DEF InPass
<1>5. ASSUME NEW p \in Pids, NEW a \in Addrs, NEW d \in 0 .. MaxDelay,
             NEW id \in Ids, TimerStart(p, d, id, a)
      PROVE  PassDue'
  <2> DEFINE old == {n \in TimersOf(tq, p) : n.id = Trunc30[id]}
             n   == [addr |-> a, sub |-> "TIMER", when |-> d,
                     uid |-> UidOf[p], pid |-> p, id |-> Trunc32[id]]
  <2>1. n \in Node
    BY PlayersAssumption, IdsAssumption DEF Node, Subtypes
  <2>2. /\ left' = left
        /\ \/ Unlink(TimersOf(tq, p), 0)
           \/ /\ tq' = InsertNode(Without(tq, old), n)
              /\ loose' = (loose \/ (InPass /\ old # {}))
    BY <1>5 DEF TimerStart
  <2>3. Without(tq, {}) = tq
    BY <1>0, WithoutNone
  <2> HIDE DEF n, old
  <2>4. ASSUME tq' = InsertNode(Without(tq, old), n),
               loose' = (loose \/ (InPass /\ old # {}))
        PROVE  PassDue'
    <3>1. old = {} /\ ~ loose /\ InPass
      BY <2>2, <2>4 DEF InPass
    <3> QED BY <1>0, <2>1, <2>2, <2>3, <2>4, <3>1, InsertKeepsDue
  <2> QED BY <1>b, <2>2, <2>4
<1>6. ASSUME NEW p \in Pids, NEW id \in Ids, TimerStop(p, id) PROVE PassDue'
  BY <1>6, <1>b DEF TimerStop
<1>7. ASSUME NEW p \in Pids, ProcessExit(p) PROVE PassDue'
  BY <1>7, <1>b DEF ProcessExit
<1>8. ASSUME NEW p \in Pids, NEW waiting \in BOOLEAN, NEW command \in BOOLEAN,
             DequeueProcess(p, waiting, command)
      PROVE  PassDue'
  BY <1>8, <1>b DEF DequeueProcess
<1>9. ASSUME NEW matching, DequeueProg(matching) PROVE PassDue'
  BY <1>9, <1>b DEF DequeueProg
<1>10. CASE DequeueAll
  BY <1>10, <1>b DEF DequeueAll
<1>11. CASE BeginPass
  <2> DEFINE n == DueRun(tq, RunLimit)
  <2>1. n \in 0 .. Len(tq) /\ \A i \in 1 .. n : tq[i].when = 0
    BY <1>0, DueRunProperties, BoundsAssumption
  <2>2. /\ n > 0 /\ tq' = Tail(tq) /\ left' = n - 1
        /\ \A i \in 1 .. n : ~ IsRead(tq[i])
    BY <1>11 DEF BeginPass, TakeHead
  <2> HIDE DEF n
  <2>3. tq # << >>
    BY <2>1, <2>2
  <2>4. Len(tq') = Len(tq) - 1 /\ \A i \in 1 .. Len(tq) - 1 : tq'[i] = tq[i + 1]
    BY <1>0, <2>2, <2>3, HeadTailProperties
  <2> QED BY <1>0, <2>1, <2>2, <2>4 DEF PassDue
<1>12. CASE RunHead
  <2>1. /\ tq # << >> /\ left > 0 /\ tq' = Tail(tq) /\ left' = left - 1 /\ loose' = loose
        /\ InPass
    BY <1>12 DEF RunHead, PassGoesOn, TakeHead
  <2>2. Len(tq') = Len(tq) - 1 /\ \A i \in 1 .. Len(tq) - 1 : tq'[i] = tq[i + 1]
    BY <1>0, <2>1, HeadTailProperties
  <2> QED BY <1>0, <2>1, <2>2 DEF PassDue, NoPass
<1>13. CASE EndPass
  BY <1>13 DEF EndPass, InPass
<1>14. ASSUME NEW u \in Players, NEW dies \in BOOLEAN, HandleRead(u, dies)
       PROVE  PassDue'
  BY <1>14 DEF HandleRead, InPass
<1>15. CASE HandleReadEnds
  BY <1>15, <1>a DEF HandleReadEnds
<1> QED BY <1>1, <1>2, <1>3, <1>4, <1>5, <1>6, <1>7, <1>8, <1>9, <1>10, <1>11,
           <1>12, <1>13, <1>14, <1>15 DEF Next, ProgramStep, Kill, Pass, ReadLine

\* A pass that counted no READ and saw no node removed runs no node before its
\* time, however many programs it resumes and whatever they queue: what they
\* queue goes behind the nodes that were counted (next_timequeue_event()).
THEOREM OnTimeAlways == Spec => OnTimeUnlessLoose
<1>1. Init => PassDue
  BY DEF Init, PassDue, InPass
<1>2. TypeOK /\ PassDue /\ [Next]_vars => PassDue'
  BY PassStep
<1>3. TypeOK /\ PassDue /\ [Next]_vars
      => [(BeginPass \/ RunHead) /\ ~ loose' => tq[1].when = 0]_vars
  <2> SUFFICES ASSUME TypeOK, PassDue, BeginPass \/ RunHead, ~ loose'
               PROVE  tq[1].when = 0
    OBVIOUS
  <2>1. CASE BeginPass
    <3>1. DueRun(tq, RunLimit) > 0
      BY <2>1 DEF BeginPass
    <3>2. /\ DueRun(tq, RunLimit) \in Nat
          /\ \A i \in 1 .. DueRun(tq, RunLimit) : tq[i].when = 0
      BY DueRunProperties, BoundsAssumption DEF TypeOK
    <3> QED BY <3>1, <3>2
  <2>2. CASE RunHead
    <3>1. InPass /\ left > 0 /\ ~ loose
      BY <2>2 DEF RunHead, PassGoesOn
    <3> QED BY <3>1 DEF PassDue, TypeOK, NoPass
  <2> QED BY <2>1, <2>2
<1> QED BY <1>1, <1>2, <1>3, TypeCorrect, PTL DEF Spec, OnTimeUnlessLoose

-----------------------------------------------------------------------------
(* First come, first served.                                               *)

\* r[j] is a node of q that had r[i] in front of it, or is due after r[i].
KeepsPlace(q, r, i, j) ==
    (r[j].sub \notin {"TIMER", "READ"} /\ \E m \in NodesOf(q) : SameNode(m, r[j]))
    => \/ r[i].when < r[j].when
       \/ \E k, l \in 1 .. Len(q) :
             k < l /\ SameNode(q[k], r[i]) /\ SameNode(q[l], r[j])

\* Each node of r is one of q, and they are in the same order.
Follows(q, r, f) ==
    /\ \A i \in 1 .. Len(r) : f[i] \in 1 .. Len(q) /\ SameNode(q[f[i]], r[i])
    /\ \A i, j \in 1 .. Len(r) : i < j => f[i] < f[j]

LEMMA FollowersKeepPlace ==
    ASSUME NEW q, NEW r, NEW f, Follows(q, r, f)
    PROVE  \A i, j \in 1 .. Len(r) : i < j => KeepsPlace(q, r, i, j)
BY Zenon DEF Follows, KeepsPlace

LEMMA SameFollows ==
    ASSUME NEW S, NEW q \in Seq(S)
    PROVE  Follows(q, q, [i \in 1 .. Len(q) |-> i])
BY DEF Follows, SameNode

LEMMA WithoutFollows ==
    ASSUME NEW S, NEW q \in Seq(S), NEW gone
    PROVE  \E f : Follows(q, Without(q, gone), f)
<1> DEFINE r == Without(q, gone)
<1>1. PICK f : KeptBy(f, r, q, gone, Len(q))
  BY WithoutProperties
<1> HIDE DEF r
<1>2. Follows(q, r, f)
  BY <1>1 DEF KeptBy, Follows, SameNode
<1> QED BY <1>2 DEF r

\* A new node that was not in the queue, or is a timer's, goes in front of
\* those only that are due later, or are READs.
LEMMA InsertKeepsPlaces ==
    ASSUME NEW q \in Seq(Node), NEW old \in Seq(Node), NEW f, Follows(old, q, f),
           InOrder(q), NEW n \in Node,
           n.sub = "TIMER" \/ n.addr \notin AddrsOf(old),
           NEW i \in 1 .. Len(InsertNode(q, n)), NEW j \in 1 .. Len(InsertNode(q, n)), i < j
    PROVE  KeepsPlace(old, InsertNode(q, n), i, j)
<1> DEFINE k == InsertPos(q, n.when)
           r == InsertNode(q, n)
<1>1. /\ k \in 1 .. Len(q) + 1 /\ Len(r) = Len(q) + 1
      /\ \A h \in 1 .. Len(q) + 1 :
            r[h] = IF h < k THEN q[h] ELSE IF h = k THEN n ELSE q[h - 1]
  BY InsertNodeProperties
<1>2. Stops(q, n.when, k)
  BY InsertPosProperties
<1>3. n.when \in Nat /\ \A h \in 1 .. Len(q) : q[h].when \in Nat
  BY NodeFields
<1>4. i \in 1 .. Len(r) /\ j \in 1 .. Len(r)
  OBVIOUS
<1> SUFFICES KeepsPlace(old, r, i, j)
  OBVIOUS
<1> HIDE DEF k, r
<1>5. ASSUME NEW a \in 1 .. Len(q), NEW b \in 1 .. Len(q), a < b, r[i] = q[a], r[j] = q[b]
      PROVE  KeepsPlace(old, r, i, j)
  <2>1. /\ f[a] \in 1 .. Len(old) /\ f[b] \in 1 .. Len(old) /\ f[a] < f[b]
        /\ SameNode(old[f[a]], r[i]) /\ SameNode(old[f[b]], r[j])
    BY <1>5 DEF Follows
  <2> QED BY <2>1, Zenon DEF KeepsPlace
<1>6. CASE i # k /\ j # k
  <2> DEFINE a == IF i < k THEN i ELSE i - 1
             b == IF j < k THEN j ELSE j - 1
  <2>1. a \in 1 .. Len(q) /\ b \in 1 .. Len(q) /\ a < b /\ r[i] = q[a] /\ r[j] = q[b]
    BY <1>1, <1>4, <1>6
  <2> HIDE DEF a, b
  <2> QED BY <1>5, <2>1
<1>7. CASE j = k
  <2>1. r[j] = n
    BY <1>1, <1>4, <1>7
  <2>2. ASSUME NEW m \in NodesOf(old), SameNode(m, n) PROVE n.sub = "TIMER"
    <3>1. m.addr = n.addr
      BY <2>2 DEF SameNode
    <3> QED BY <3>1 DEF AddrsOf
  <2> QED BY <2>1, <2>2, Zenon DEF KeepsPlace
<1>8. CASE i = k
  <2>1. r[i] = n /\ r[j] = q[j - 1] /\ j - 1 \in k .. Len(q) /\ k \in 1 .. Len(q)
    BY <1>1, <1>4, <1>8
  <2>2. IsRead(q[k]) \/ n.when < q[k].when
    BY <1>2, <2>1 DEF Stops
  <2>3. IsRead(q[j - 1]) \/ n.when < q[j - 1].when
    <3>1. CASE j - 1 = k
      BY <2>2, <3>1
    <3>2. CASE j - 1 # k
      <4>1. /\ IsRead(q[k]) => IsRead(q[j - 1])
            /\ IsRead(q[j - 1]) \/ q[k].when <= q[j - 1].when
        BY <2>1, <3>2 DEF InOrder
      <4>2. q[k].when \in Nat /\ q[j - 1].when \in Nat
        BY <1>3, <2>1
      <4> QED BY <1>3, <2>2, <4>1, <4>2
    <3> QED BY <3>1, <3>2
  <2>4. r[j].sub = "READ" \/ r[i].when < r[j].when
    BY <2>1, <2>3 DEF IsRead
  <2> QED BY <2>4, Zenon DEF KeepsPlace
<1> QED BY <1>6, <1>7, <1>8

LEMMA StepKeepsPlaces ==
    ASSUME ListInv, QueueStep, NEW i \in 1 .. Len(tq'), NEW j \in 1 .. Len(tq'), i < j
    PROVE  KeepsPlace(tq, tq', i, j)
<1>0. tq \in Seq(Node) /\ InOrder(tq)
  BY DEF ListInv, TypeOK, QueueOrder
<1>1. CASE tq' = tq
  BY <1>0, <1>1, SameFollows, FollowersKeepPlace
<1>2. CASE tq' = Older(tq)
  <2> DEFINE f == [h \in 1 .. Len(tq) |-> h]
  <2>1. /\ Len(tq') = Len(tq)
        /\ \A h \in 1 .. Len(tq) :
              tq'[h].addr = tq[h].addr /\ tq'[h].sub = tq[h].sub /\ tq'[h].pid = tq[h].pid
    BY <1>0, <1>2, OlderProperties
  <2>2. Follows(tq, tq', f)
    BY <1>0, <2>1 DEF Follows, SameNode
  <2> HIDE DEF f
  <2> QED BY <2>2, FollowersKeepPlace
<1>3. ASSUME NEW n \in Node, IsRead(n), tq' = Append(tq, n)
      PROVE  KeepsPlace(tq, tq', i, j)
  <2>1. /\ Len(tq') = Len(tq) + 1 /\ tq'[Len(tq) + 1] = n /\ Len(tq) \in Nat
        /\ \A h \in 1 .. Len(tq) : tq'[h] = tq[h]
    BY <1>0, <1>3, AppendProperties
  <2>2. CASE j = Len(tq) + 1
    BY <1>3, <2>1, <2>2 DEF KeepsPlace, IsRead
  <2>3. CASE j # Len(tq) + 1
    <3>1. i \in 1 .. Len(tq) /\ j \in 1 .. Len(tq) /\ tq'[i] = tq[i] /\ tq'[j] = tq[j]
      BY <2>1, <2>3
    <3>2. SameNode(tq[i], tq'[i]) /\ SameNode(tq[j], tq'[j])
      BY <3>1 DEF SameNode
    <3> QED BY <3>1, <3>2, Zenon DEF KeepsPlace
  <2> QED BY <2>2, <2>3
<1>4. ASSUME NEW gone, tq' = Without(tq, gone) PROVE KeepsPlace(tq, tq', i, j)
  BY <1>0, <1>4, WithoutFollows, FollowersKeepPlace
<1>5. ASSUME NEW n \in Node, NEW q \in Seq(Node),
             q = tq \/ \E gone : q = Without(tq, gone),
             n.sub = "TIMER" \/ n.addr \notin AddrsOf(tq), tq' = InsertNode(q, n)
      PROVE  KeepsPlace(tq, tq', i, j)
  <2>1. PICK f : Follows(tq, q, f)
    BY <1>0, <1>5, SameFollows, WithoutFollows
  <2>2. InOrder(q)
    BY <1>0, <1>5, WithoutInOrder
  <2> QED BY <1>0, <1>5, <2>1, <2>2, InsertKeepsPlaces
<1>6. CASE tq # << >> /\ tq' = Tail(tq)
  <2> DEFINE f == [h \in 1 .. Len(tq) - 1 |-> h + 1]
  <2>1. Len(tq') = Len(tq) - 1 /\ \A h \in 1 .. Len(tq) - 1 : tq'[h] = tq[h + 1]
    BY <1>0, <1>6, HeadTailProperties
  <2>2. Follows(tq, tq', f)
    BY <1>0, <2>1 DEF Follows, SameNode
  <2> HIDE DEF f
  <2> QED BY <2>2, FollowersKeepPlace
<1> QED BY <1>1, <1>2, <1>3, <1>4, <1>5, <1>6 DEF QueueStep

\* Nothing that waits is overtaken: by whatever function of timequeue.c is called,
\* a process that sleeps or is queued stays behind those it was behind, and a
\* new node in front of it is due before it (add_event()'s walk).
THEOREM NobodyOvertakes == Spec => NoOvertaking
<1>1. ListInv /\ [Next]_vars
      => [\A i, j \in 1 .. Len(tq') :
            (i < j /\ tq'[j].sub \notin {"TIMER", "READ"}
                   /\ \E m \in NodesOf(tq) : SameNode(m, tq'[j]))
            => \/ tq'[i].when < tq'[j].when
               \/ \E k, l \in 1 .. Len(tq) :
                     /\ k < l
                     /\ SameNode(tq[k], tq'[i]) /\ SameNode(tq[l], tq'[j])]_vars
  <2> SUFFICES ASSUME ListInv, [Next]_vars, NEW i \in 1 .. Len(tq'), NEW j \in 1 .. Len(tq'), i < j
               PROVE  KeepsPlace(tq, tq', i, j)
    BY DEF KeepsPlace
  <2> QED BY StepIsQueueStep, StepKeepsPlaces DEF ListInv
<1> QED BY <1>1, ListInvariant, PTL DEF Spec, NoOvertaking

=============================================================================
