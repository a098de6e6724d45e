----------------------------- MODULE ListsProofs -----------------------------
(***************************************************************************)
(* What a removal leaves of a list, for lists of any length; facts about   *)
(* sequences and sets that the proofs of the components share; and lists   *)
(* threaded through the next fields of what is in them (Linked).           *)
(***************************************************************************)
EXTENDS Lists, SequencesExt, TLAPS, SequenceTheorems, FiniteSetTheorems, WellFoundedInduction

\* Every set of natural numbers that has a member has a least one.
LEMMA LeastNat ==
    ASSUME NEW T \in SUBSET Nat, T # {}
    PROVE  \E m \in T : \A k \in T : m <= k
<1>1. PICK m \in T : \A k \in T : ~ (<<k, m>> \in OpToRel(<, Nat))
  BY WFMin, NatLessThanWellFounded, Zenon
<1>2. \A k \in T : k < m => <<k, m>> \in OpToRel(<, Nat)
  BY Zenon DEF OpToRel
<1>3. \A k \in T : ~ (k < m)
  BY <1>1, <1>2, Zenon
<1>4. \A k \in T : m <= k
  BY <1>3
<1> QED BY <1>4

\* InsertAt at a position of the list, or one past its end, puts the new
\* element there and moves what was there or behind it by one.
LEMMA InsertAtProperties ==
    ASSUME NEW S, NEW q \in Seq(S), NEW e \in S, NEW k \in 1 .. Len(q) + 1
    PROVE  /\ InsertAt(q, k, e) \in Seq(S)
           /\ Len(InsertAt(q, k, e)) = Len(q) + 1
           /\ \A i \in 1 .. Len(q) + 1 :
                 InsertAt(q, k, e)[i] = IF i < k THEN q[i]
                                        ELSE IF i = k THEN e ELSE q[i - 1]
<1> DEFINE pre == SubSeq(q, 1, k - 1)
           suf == SubSeq(q, k, Len(q))
<1>1. /\ pre \in Seq(S) /\ Len(pre) = k - 1
      /\ \A i \in 1 .. k - 1 : pre[i] = q[i]
  BY SubSeqProperties
<1>2. /\ suf \in Seq(S) /\ Len(suf) = Len(q) - k + 1
      /\ \A i \in 1 .. Len(q) - k + 1 : suf[i] = q[k + i - 1]
  BY SubSeqProperties
<1>3. <<e>> \in Seq(S) /\ Len(<<e>>) = 1 /\ <<e>>[1] = e
  OBVIOUS
<1> DEFINE left == pre \o <<e>>
<1>6. InsertAt(q, k, e) = left \o suf
  BY DEF InsertAt
<1> HIDE DEF pre, suf
<1>4. /\ left \in Seq(S) /\ Len(left) = k
      /\ \A i \in 1 .. k : left[i] = IF i < k THEN q[i] ELSE e
  BY <1>1, <1>3, ConcatProperties
<1> HIDE DEF left
<1>5. /\ left \o suf \in Seq(S) /\ Len(left \o suf) = Len(q) + 1
      /\ \A i \in 1 .. Len(q) + 1 :
            (left \o suf)[i] = IF i <= k THEN left[i] ELSE suf[i - k]
  BY <1>2, <1>4, ConcatProperties
<1>7. \A i \in 1 .. Len(q) + 1 :
         (IF i <= k THEN left[i] ELSE suf[i - k])
         = (IF i < k THEN q[i] ELSE IF i = k THEN e ELSE q[i - 1])
  BY <1>2, <1>4
<1> QED BY <1>5, <1>6, <1>7

-----------------------------------------------------------------------------
(* Without(q, gone): the recursion is well defined, and what it returns is *)
(* q seen through an increasing map of positions. Induction is by the      *)
(* least counterexample, LeastNat.                                         *)

\* One step of the recursion, and f obeys it up to n.
KeptStep(q, gone, prev, i) == IF q[i] \in gone THEN prev ELSE Append(prev, q[i])

KeptUpTo(q, gone, f, n) ==
    /\ f[0] = << >>
    /\ \A i \in 1 .. n : f[i] = KeptStep(q, gone, f[i - 1], i)

\* A function that obeys the recursion exists up to every position.
LEMMA KeptExists ==
    ASSUME NEW S, NEW q \in Seq(S), NEW gone, NEW n \in 0 .. Len(q)
    PROVE  \E f \in [0 .. n -> Seq(S)] : KeptUpTo(q, gone, f, n)
<1> DEFINE Good(k) == \E f \in [0 .. k -> Seq(S)] : KeptUpTo(q, gone, f, k)
           Bad == {k \in 0 .. Len(q) : ~ Good(k)}
<1>1. SUFFICES ASSUME Bad # {} PROVE FALSE
  OBVIOUS
<1>2. Bad \in SUBSET Nat
  OBVIOUS
<1>3. PICK m \in Bad : \A k \in Bad : m <= k
  BY <1>1, <1>2, LeastNat, Zenon
<1>4. m \in 0 .. Len(q) /\ ~ Good(m)
  BY <1>3
<1> HIDE DEF Bad
<1>5. CASE m = 0
  <2> DEFINE f == [i \in 0 .. 0 |-> << >>]
  <2>1. f \in [0 .. 0 -> Seq(S)] /\ f[0] = << >>
    OBVIOUS
  <2>2. KeptUpTo(q, gone, f, 0)
    BY <2>1 DEF KeptUpTo
  <2> QED BY <1>4, <1>5, <2>1, <2>2
<1>6. CASE m > 0
  <2>1. m - 1 \in 0 .. Len(q) /\ m - 1 \notin Bad
    <3>1. m - 1 \in 0 .. Len(q) /\ ~ (m <= m - 1)
      BY <1>4, <1>6
    <3> QED BY <1>3, <3>1
  <2>2. PICK g \in [0 .. m - 1 -> Seq(S)] : KeptUpTo(q, gone, g, m - 1)
    BY <2>1 DEF Bad
  <2> DEFINE f == [i \in 0 .. m |-> IF i < m THEN g[i]
                                    ELSE KeptStep(q, gone, g[m - 1], m)]
  <2>3. q[m] \in S /\ g[m - 1] \in Seq(S)
    BY <1>4, <1>6, <2>2
  <2>4. KeptStep(q, gone, g[m - 1], m) \in Seq(S)
    BY <2>3 DEF KeptStep
  <2>5. f \in [0 .. m -> Seq(S)]
    BY <1>4, <2>2, <2>4
  <2>6. \A i \in 0 .. m - 1 : f[i] = g[i]
    BY <1>4
  <2>7. f[m] = KeptStep(q, gone, f[m - 1], m)
    BY <1>4, <1>6, <2>6
  <2> HIDE DEF f
  <2>8. KeptUpTo(q, gone, f, m)
    <3>1. f[0] = << >>
      BY <1>4, <1>6, <2>2, <2>6 DEF KeptUpTo
    <3>2. ASSUME NEW i \in 1 .. m - 1
          PROVE  f[i] = KeptStep(q, gone, f[i - 1], i)
      <4>1. i \in 0 .. m - 1 /\ i - 1 \in 0 .. m - 1
        BY <1>4
      <4>2. f[i] = g[i] /\ f[i - 1] = g[i - 1]
        BY <2>6, <4>1
      <4> QED BY <2>2, <4>2 DEF KeptUpTo
    <3>3. \A i \in 1 .. m : i \in 1 .. m - 1 \/ i = m
      BY <1>4, <1>6
    <3> QED BY <2>7, <3>1, <3>2, <3>3 DEF KeptUpTo
  <2> QED BY <1>4, <2>5, <2>8
<1> QED BY <1>4, <1>5, <1>6

\* r is what n nodes of q leave: their positions are those of f.
KeptBy(f, r, q, gone, n) ==
    /\ f \in [1 .. Len(r) -> 1 .. n]
    /\ \A i, j \in 1 .. Len(r) : i < j => f[i] < f[j]
    /\ \A i \in 1 .. Len(r) : r[i] = q[f[i]] /\ r[i] \notin gone
    /\ \A j \in 1 .. n : q[j] \notin gone => \E i \in 1 .. Len(r) : f[i] = j

\* The recursive function in Without obeys the recursion.
LEMMA WithoutUnfolds ==
    ASSUME NEW S, NEW q \in Seq(S), NEW gone
    PROVE  \E kept : /\ KeptUpTo(q, gone, kept, Len(q))
                     /\ Without(q, gone) = kept[Len(q)]
<1>1. PICK f \in [0 .. Len(q) -> Seq(S)] : KeptUpTo(q, gone, f, Len(q))
  <2>1. Len(q) \in 0 .. Len(q)
    OBVIOUS
  <2> QED BY <2>1, KeptExists
<1> DEFINE Rec(h) == [i \in 0 .. Len(q) |->
                        IF i = 0 THEN << >>
                        ELSE IF q[i] \in gone THEN h[i - 1]
                        ELSE Append(h[i - 1], q[i])]
           kept == CHOOSE h : h = Rec(h)
<1>2. f = Rec(f)
  <2>1. ASSUME NEW i \in 0 .. Len(q) PROVE f[i] = Rec(f)[i]
    <3>1. CASE i = 0
      BY <1>1, <3>1 DEF KeptUpTo
    <3>2. CASE i \in 1 .. Len(q)
      <4>1. f[i] = KeptStep(q, gone, f[i - 1], i)
        BY <1>1, <3>2 DEF KeptUpTo
      <4> QED BY <3>2, <4>1 DEF KeptStep
    <3> QED BY <3>1, <3>2
  <2> QED BY <1>1, <2>1
<1>3. kept = Rec(kept)
  BY <1>2, Zenon
<1>4. Without(q, gone) = kept[Len(q)]
  BY Zenon DEF Without
<1> HIDE DEF kept
<1>5. KeptUpTo(q, gone, kept, Len(q))
  <2>1. \A i \in 0 .. Len(q) : kept[i] = Rec(kept)[i]
    BY <1>3, Zenon
  <2>2. kept[0] = << >>
    BY <2>1
  <2>3. \A i \in 1 .. Len(q) : kept[i] = KeptStep(q, gone, kept[i - 1], i)
    BY <2>1 DEF KeptStep
  <2> QED BY <2>2, <2>3 DEF KeptUpTo
<1> QED BY <1>4, <1>5

\* Appending one node of q to what was kept of the nodes before it.
LEMMA KeptByAppend ==
    ASSUME NEW S, NEW q \in Seq(S), NEW gone, NEW n \in 1 .. Len(q),
           NEW r \in Seq(S), Len(r) <= n - 1,
           NEW f, KeptBy(f, r, q, gone, n - 1)
    PROVE  LET s == KeptStep(q, gone, r, n)
           IN  /\ s \in Seq(S) /\ Len(s) <= n
               /\ \E g : KeptBy(g, s, q, gone, n)
<1>1. CASE q[n] \in gone
  <2>1. KeptBy(f, r, q, gone, n)
    BY <1>1 DEF KeptBy
  <2> QED BY <1>1, <2>1 DEF KeptStep
<1>2. CASE q[n] \notin gone
  <2> DEFINE s == Append(r, q[n])
             g == [i \in 1 .. Len(r) + 1 |-> IF i <= Len(r) THEN f[i] ELSE n]
  <2>1. q[n] \in S
    OBVIOUS
  <2>2. /\ s \in Seq(S) /\ Len(s) = Len(r) + 1 /\ s[Len(r) + 1] = q[n]
        /\ \A i \in 1 .. Len(r) : s[i] = r[i]
    BY <2>1, AppendProperties
  <2>3. KeptStep(q, gone, r, n) = s
    BY <1>2 DEF KeptStep
  <2> HIDE DEF s
  <2>4. /\ \A i \in 1 .. Len(r) : f[i] \in 1 .. n - 1
        /\ g \in [1 .. Len(s) -> 1 .. n]
    <3>1. \A i \in 1 .. Len(r) : f[i] \in 1 .. n - 1
      BY DEF KeptBy
    <3>2. \A i \in 1 .. Len(r) + 1 : (IF i <= Len(r) THEN f[i] ELSE n) \in 1 .. n
      BY <3>1
    <3> QED BY <2>2, <3>1, <3>2
  <2>5. g[Len(r) + 1] = n /\ \A i \in 1 .. Len(r) : g[i] = f[i]
    OBVIOUS
  <2> HIDE DEF g
  <2>6. \A i, j \in 1 .. Len(s) : i < j => g[i] < g[j]
    <3> SUFFICES ASSUME NEW i \in 1 .. Len(s), NEW j \in 1 .. Len(s), i < j
                 PROVE  g[i] < g[j]
      OBVIOUS
    <3>1. i \in 1 .. Len(r) /\ g[i] = f[i] /\ f[i] \in 1 .. n - 1
      BY <2>2, <2>4, <2>5
    <3>2. CASE j = Len(r) + 1
      BY <2>5, <3>1, <3>2
    <3>3. CASE j \in 1 .. Len(r)
      <4>1. f[i] < f[j]
        BY <3>1, <3>3 DEF KeptBy
      <4> QED BY <2>5, <3>1, <3>3, <4>1
    <3> QED BY <2>2, <3>2, <3>3
  <2>7. \A i \in 1 .. Len(s) : s[i] = q[g[i]] /\ s[i] \notin gone
    <3>1. \A i \in 1 .. Len(s) : i \in 1 .. Len(r) \/ i = Len(r) + 1
      BY <2>2
    <3> QED BY <1>2, <2>2, <2>5, <3>1 DEF KeptBy
  <2>8. \A j \in 1 .. n : q[j] \notin gone => \E i \in 1 .. Len(s) : g[i] = j
    <3>1. \A j \in 1 .. n : j \in 1 .. n - 1 \/ j = n
      OBVIOUS
    <3>2. 1 .. Len(r) \subseteq 1 .. Len(s) /\ Len(r) + 1 \in 1 .. Len(s)
      BY <2>2
    <3> QED BY <2>5, <3>1, <3>2 DEF KeptBy
  <2>9. KeptBy(g, s, q, gone, n)
    BY <2>4, <2>6, <2>7, <2>8 DEF KeptBy
  <2> QED BY <2>2, <2>3, <2>9
<1> QED BY <1>1, <1>2

\* Without(q, gone) is q without the elements of gone, in the order of q.
THEOREM WithoutProperties ==
    ASSUME NEW S, NEW q \in Seq(S), NEW gone
    PROVE  /\ Without(q, gone) \in Seq(S)
           /\ Len(Without(q, gone)) <= Len(q)
           /\ \E f : KeptBy(f, Without(q, gone), q, gone, Len(q))
<1>1. PICK kept : /\ KeptUpTo(q, gone, kept, Len(q))
                  /\ Without(q, gone) = kept[Len(q)]
  BY WithoutUnfolds
<1> DEFINE Good(n) == /\ kept[n] \in Seq(S) /\ Len(kept[n]) <= n
                      /\ \E f : KeptBy(f, kept[n], q, gone, n)
           Bad == {n \in 0 .. Len(q) : ~ Good(n)}
<1>2. SUFFICES ASSUME Bad # {} PROVE FALSE
  BY <1>1
<1>3. PICK m \in Bad : \A k \in Bad : m <= k
  <2>1. Bad \in SUBSET Nat
    OBVIOUS
  <2> QED BY <1>2, <2>1, LeastNat, Zenon
<1>4. m \in 0 .. Len(q) /\ ~ Good(m)
  BY <1>3
<1>5. CASE m = 0
  <2>1. kept[0] = << >>
    BY <1>1 DEF KeptUpTo
  <2>2. KeptBy(<< >>, << >>, q, gone, 0)
    BY DEF KeptBy
  <2> QED BY <1>4, <1>5, <2>1, <2>2
<1>6. CASE m > 0
  <2>1. m - 1 \in 0 .. Len(q) /\ m \in 1 .. Len(q) /\ ~ (m <= m - 1)
    BY <1>4, <1>6
  <2>2. Good(m - 1)
    <3>1. m - 1 \notin Bad
      <4> HIDE DEF Bad
      <4> QED BY <1>3, <2>1
    <3> QED BY <2>1, <3>1
  <2>3. kept[m] = KeptStep(q, gone, kept[m - 1], m)
    BY <1>1, <2>1 DEF KeptUpTo
  <2>4. PICK f : KeptBy(f, kept[m - 1], q, gone, m - 1)
    BY <2>2
  <2>5. Good(m)
    BY <2>1, <2>2, <2>3, <2>4, KeptByAppend
  <2> QED BY <1>4, <2>5
<1> QED BY <1>4, <1>5, <1>6

-----------------------------------------------------------------------------
(* FlattenSeq(ss): the same for the recursion of the community module.     *)

Joined(s, t) == s \o t

LEMMA JoinedAssociative ==
    \A S : \A s, t, u \in Seq(S) : Joined(Joined(s, t), u) = Joined(s, Joined(t, u))
BY ConcatAssociative DEF Joined

\* What is joined has what both have.
LEMMA JoinedProperties ==
    ASSUME NEW S, NEW a \in Seq(S), NEW b \in Seq(S)
    PROVE  /\ Joined(a, b) \in Seq(S)
           /\ ToSet(Joined(a, b)) = ToSet(a) \cup ToSet(b)
<1> DEFINE c == Joined(a, b)
<1>1. /\ c \in Seq(S) /\ Len(c) = Len(a) + Len(b)
      /\ \A i \in 1 .. Len(a) + Len(b) : c[i] = IF i <= Len(a) THEN a[i] ELSE b[i - Len(a)]
  BY ConcatProperties DEF Joined
<1> HIDE DEF c
<1>2. /\ Len(a) \in Nat /\ Len(b) \in Nat /\ DOMAIN a = 1 .. Len(a)
      /\ DOMAIN b = 1 .. Len(b) /\ DOMAIN c = 1 .. Len(c)
  BY <1>1, LenProperties
<1>3. ASSUME NEW i \in 1 .. Len(a) PROVE a[i] \in ToSet(c)
  <2>1. i \in 1 .. Len(c) /\ c[i] = a[i]
    BY <1>1, <1>2
  <2> QED BY <1>2, <2>1 DEF ToSet
<1>4. ASSUME NEW i \in 1 .. Len(b) PROVE b[i] \in ToSet(c)
  <2>1. Len(a) + i \in 1 .. Len(c) /\ c[Len(a) + i] = b[i]
    <3>1. Len(a) + i \in 1 .. Len(c) /\ ~ (Len(a) + i <= Len(a)) /\ (Len(a) + i) - Len(a) = i
      BY <1>1, <1>2
    <3> QED BY <1>1, <1>2, <3>1
  <2> QED BY <1>2, <2>1 DEF ToSet
<1>5. ASSUME NEW i \in 1 .. Len(c) PROVE c[i] \in ToSet(a) \cup ToSet(b)
  <2>1. CASE i <= Len(a)
    <3>1. i \in 1 .. Len(a) /\ c[i] = a[i]
      BY <1>1, <1>2, <2>1
    <3> QED BY <1>2, <3>1 DEF ToSet
  <2>2. CASE ~ (i <= Len(a))
    <3>1. i - Len(a) \in 1 .. Len(b) /\ c[i] = b[i - Len(a)]
      BY <1>1, <1>2, <2>2
    <3> QED BY <1>2, <3>1 DEF ToSet
  <2> QED BY <2>1, <2>2
<1>6. ToSet(c) = ToSet(a) \cup ToSet(b)
  BY <1>2, <1>3, <1>4, <1>5 DEF ToSet
<1> QED BY <1>1, <1>6 DEF c

FlatUpTo(ss, f, n) ==
    /\ f[1] = ss[1]
    /\ \A i \in 2 .. n : f[i] = Joined(f[i - 1], ss[i])

\* A function that obeys the recursion exists up to every position.
LEMMA FlatExists ==
    ASSUME NEW S, NEW ss \in Seq(Seq(S)), NEW n \in 1 .. Len(ss)
    PROVE  \E f \in [1 .. n -> Seq(S)] : FlatUpTo(ss, f, n)
<1> DEFINE Good(k) == \E f \in [1 .. k -> Seq(S)] : FlatUpTo(ss, f, k)
           Bad == {k \in 1 .. Len(ss) : ~ Good(k)}
<1>1. SUFFICES ASSUME Bad # {} PROVE FALSE
  OBVIOUS
<1>2. Bad \in SUBSET Nat
  OBVIOUS
<1>3. PICK m \in Bad : \A k \in Bad : m <= k
  BY <1>1, <1>2, LeastNat, Zenon
<1>4. m \in 1 .. Len(ss) /\ ~ Good(m)
  BY <1>3
<1> HIDE DEF Bad
<1>5. CASE m = 1
  <2> DEFINE f == [i \in 1 .. 1 |-> ss[1]]
  <2>1. f \in [1 .. 1 -> Seq(S)] /\ f[1] = ss[1]
    BY <1>4
  <2>2. FlatUpTo(ss, f, 1)
    BY <2>1 DEF FlatUpTo
  <2> QED BY <1>4, <1>5, <2>1, <2>2
<1>6. CASE m > 1
  <2>1. m - 1 \in 1 .. Len(ss) /\ m - 1 \notin Bad
    <3>1. m - 1 \in 1 .. Len(ss) /\ ~ (m <= m - 1)
      BY <1>4, <1>6
    <3> QED BY <1>3, <3>1
  <2>2. PICK g \in [1 .. m - 1 -> Seq(S)] : FlatUpTo(ss, g, m - 1)
    BY <2>1 DEF Bad
  <2> DEFINE f == [i \in 1 .. m |-> IF i < m THEN g[i] ELSE Joined(g[m - 1], ss[m])]
  <2>3. ss[m] \in Seq(S) /\ g[m - 1] \in Seq(S)
    BY <1>4, <1>6, <2>2
  <2>4. Joined(g[m - 1], ss[m]) \in Seq(S)
    BY <2>3, ConcatProperties DEF Joined
  <2>5. f \in [1 .. m -> Seq(S)]
    BY <1>4, <2>2, <2>4
  <2>6. \A i \in 1 .. m - 1 : f[i] = g[i]
    BY <1>4
  <2>7. f[m] = Joined(f[m - 1], ss[m])
    BY <1>4, <1>6, <2>6
  <2> HIDE DEF f
  <2>8. FlatUpTo(ss, f, m)
    <3>1. f[1] = ss[1]
      BY <1>4, <1>6, <2>2, <2>6 DEF FlatUpTo
    <3>2. ASSUME NEW i \in 2 .. m - 1
          PROVE  f[i] = Joined(f[i - 1], ss[i])
      <4>1. i \in 1 .. m - 1 /\ i - 1 \in 1 .. m - 1
        BY <1>4
      <4>2. f[i] = g[i] /\ f[i - 1] = g[i - 1]
        BY <2>6, <4>1
      <4> QED BY <2>2, <4>2 DEF FlatUpTo
    <3>3. \A i \in 2 .. m : i \in 2 .. m - 1 \/ i = m
      BY <1>4, <1>6
    <3> QED BY <2>7, <3>1, <3>2, <3>3 DEF FlatUpTo
  <2> QED BY <1>4, <2>5, <2>8
<1> QED BY <1>4, <1>5, <1>6

\* The recursive function in FlattenSeq obeys the recursion.
LEMMA FlattenUnfolds ==
    ASSUME NEW S, NEW ss \in Seq(Seq(S)), ss # << >>
    PROVE  \E flat : /\ FlatUpTo(ss, flat, Len(ss))
                     /\ FlattenSeq(ss) = flat[Len(ss)]
<1>0. Len(ss) \in Nat /\ Len(ss) # 0 /\ Len(ss) \in 1 .. Len(ss)
  BY EmptySeq
<1>1. PICK f \in [1 .. Len(ss) -> Seq(S)] : FlatUpTo(ss, f, Len(ss))
  BY <1>0, FlatExists
<1> DEFINE Rec(h) == [i \in 1 .. Len(ss) |-> IF i = 1 THEN ss[i] ELSE Joined(h[i - 1], ss[i])]
           flat == CHOOSE h : h = Rec(h)
<1>2. f = Rec(f)
  <2>1. ASSUME NEW i \in 1 .. Len(ss) PROVE f[i] = Rec(f)[i]
    <3>1. CASE i = 1
      BY <1>1, <3>1 DEF FlatUpTo
    <3>2. CASE i \in 2 .. Len(ss)
      BY <1>1, <3>2 DEF FlatUpTo
    <3> QED BY <3>1, <3>2
  <2> QED BY <1>1, <2>1
<1>3. flat = Rec(flat)
  BY <1>2, Zenon
<1>4. FlattenSeq(ss) = flat[Len(ss)]
  BY <1>0, Zenon DEF FlattenSeq, Joined
<1> HIDE DEF flat
<1>5. FlatUpTo(ss, flat, Len(ss))
  <2>1. \A i \in 1 .. Len(ss) : flat[i] = Rec(flat)[i]
    BY <1>3, Zenon
  <2>2. flat[1] = ss[1]
    BY <1>0, <2>1
  <2>3. \A i \in 2 .. Len(ss) : flat[i] = Joined(flat[i - 1], ss[i])
    BY <2>1
  <2> QED BY <2>2, <2>3 DEF FlatUpTo
<1> QED BY <1>4, <1>5

\* FlattenSeq(ss) has what the sequences in ss have.
LEMMA FlattenProperties ==
    ASSUME NEW S, NEW ss \in Seq(Seq(S))
    PROVE  /\ FlattenSeq(ss) \in Seq(S)
           /\ \A i \in 1 .. Len(ss) : ToSet(ss[i]) \subseteq ToSet(FlattenSeq(ss))
<1>1. CASE ss = << >>
  <2>1. FlattenSeq(ss) = << >>
    BY <1>1, EmptySeq DEF FlattenSeq
  <2>2. << >> \in Seq(S) /\ Len(ss) = 0
    BY <1>1
  <2> QED BY <2>1, <2>2
<1>2. CASE ss # << >>
  <2>0. Len(ss) \in Nat /\ Len(ss) # 0
    BY <1>2, EmptySeq
  <2>1. PICK flat : FlatUpTo(ss, flat, Len(ss)) /\ FlattenSeq(ss) = flat[Len(ss)]
    BY <1>2, FlattenUnfolds
  <2> DEFINE Good(n) == /\ flat[n] \in Seq(S)
                        /\ \A i \in 1 .. n : ToSet(ss[i]) \subseteq ToSet(flat[n])
             Bad == {n \in 1 .. Len(ss) : ~ Good(n)}
  <2>2. SUFFICES ASSUME Bad # {} PROVE FALSE
    <3>1. Len(ss) \in 1 .. Len(ss)
      BY <2>0
    <3>2. ASSUME Bad = {} PROVE Good(Len(ss))
      BY <3>1, <3>2
    <3> HIDE DEF Bad
    <3> QED BY <2>1, <3>2
  <2>3. PICK m \in Bad : \A k \in Bad : m <= k
    <3>1. Bad \in SUBSET Nat
      OBVIOUS
    <3> QED BY <2>2, <3>1, LeastNat, Zenon
  <2>4. m \in 1 .. Len(ss) /\ ~ Good(m)
    BY <2>3
  <2>5. CASE m = 1
    BY <2>1, <2>4, <2>5 DEF FlatUpTo
  <2>6. CASE m > 1
    <3>1. m - 1 \in 1 .. Len(ss) /\ m \in 2 .. Len(ss) /\ ~ (m <= m - 1)
      BY <2>4, <2>6
    <3>2. Good(m - 1)
      <4>1. m - 1 \notin Bad
        <5> HIDE DEF Bad
        <5> QED BY <2>3, <3>1
      <4> QED BY <3>1, <4>1
    <3>3. flat[m] = Joined(flat[m - 1], ss[m]) /\ ss[m] \in Seq(S)
      BY <2>1, <2>4, <3>1 DEF FlatUpTo
    <3>4. /\ Joined(flat[m - 1], ss[m]) \in Seq(S)
          /\ ToSet(flat[m - 1]) \subseteq ToSet(Joined(flat[m - 1], ss[m]))
          /\ ToSet(ss[m]) \subseteq ToSet(Joined(flat[m - 1], ss[m]))
      BY <3>2, <3>3, JoinedProperties
    <3>8. \A i \in 1 .. m : i \in 1 .. m - 1 \/ i = m
      BY <2>4
    <3> QED BY <2>4, <3>2, <3>3, <3>4, <3>8
  <2> QED BY <2>4, <2>5, <2>6
<1> QED BY <1>1, <1>2

LEMMA FlatUnique ==
    ASSUME NEW ss, NEW tt, NEW n \in Nat, NEW f, NEW g,
           \A i \in 1 .. n : ss[i] = tt[i],
           FlatUpTo(ss, f, n), FlatUpTo(tt, g, n)
    PROVE  \A i \in 1 .. n : f[i] = g[i]
<1> DEFINE Bad == {i \in 1 .. n : f[i] # g[i]}
<1>1. SUFFICES ASSUME Bad # {} PROVE FALSE
  OBVIOUS
<1>2. Bad \in SUBSET Nat
  OBVIOUS
<1>3. PICK m \in Bad : \A k \in Bad : m <= k
  BY <1>1, <1>2, LeastNat, Zenon
<1>4. m \in 1 .. n /\ f[m] # g[m]
  BY <1>3
<1>5. m # 1
  BY <1>4 DEF FlatUpTo
<1>6. m \in 2 .. n /\ m - 1 \in 1 .. n /\ ~ (m <= m - 1)
  BY <1>4, <1>5
<1>7. f[m - 1] = g[m - 1]
  <2>1. m - 1 \notin Bad
    <3> HIDE DEF Bad
    <3> QED BY <1>3, <1>6
  <2> QED BY <1>6, <2>1
<1>8. f[m] = Joined(f[m - 1], ss[m]) /\ g[m] = Joined(g[m - 1], tt[m])
  BY <1>6 DEF FlatUpTo
<1> QED BY <1>4, <1>6, <1>7, <1>8

LEMMA FlattenAppend ==
    ASSUME NEW S, NEW ss \in Seq(Seq(S)), NEW t \in Seq(S)
    PROVE  FlattenSeq(Append(ss, t)) = FlattenSeq(ss) \o t
<1> DEFINE tt == Append(ss, t)
           n == Len(ss)
<1>1. /\ tt \in Seq(Seq(S)) /\ tt # << >> /\ Len(tt) = n + 1 /\ tt[n + 1] = t /\ n \in Nat
      /\ \A i \in 1 .. n : ss[i] = tt[i]
  <2>1. n \in Nat
    OBVIOUS
  <2>2. /\ tt \in Seq(Seq(S)) /\ tt # << >> /\ Len(tt) = n + 1 /\ tt[n + 1] = t
        /\ \A i \in 1 .. n : tt[i] = ss[i]
    BY AppendProperties
  <2> HIDE DEF tt
  <2> QED BY <2>1, <2>2, Zenon
<1> HIDE DEF tt
<1>2. PICK g : FlatUpTo(tt, g, n + 1) /\ FlattenSeq(tt) = g[n + 1]
  BY <1>1, FlattenUnfolds, Zenon
<1>3. CASE ss = << >>
  <2>1. n = 0 /\ FlattenSeq(ss) = << >>
    BY <1>3, EmptySeq DEF FlattenSeq
  <2>2. FlattenSeq(tt) = t
    BY <1>1, <1>2, <2>1 DEF FlatUpTo
  <2>3. << >> \o t = t
    BY ConcatEmptySeq
  <2> QED BY <2>1, <2>2, <2>3 DEF tt
<1>4. CASE ss # << >>
  <2>1. PICK f : FlatUpTo(ss, f, n) /\ FlattenSeq(ss) = f[n]
    BY <1>4, FlattenUnfolds
  <2>2. n # 0
    BY <1>4, EmptySeq
  <2>3. n + 1 \in 2 .. n + 1 /\ (n + 1) - 1 = n /\ n \in 1 .. n
    BY <1>1, <2>2
  <2>4. FlatUpTo(tt, g, n)
    BY <1>1, <1>2, <2>2 DEF FlatUpTo
  <2>5. f[n] = g[n]
    <3>1. n \in Nat /\ (\A i \in 1 .. n : ss[i] = tt[i]) /\ FlatUpTo(ss, f, n)
      BY <1>1, <2>1
    <3>2. \A i \in 1 .. n : f[i] = g[i]
      <4> HIDE DEF n
      <4> QED BY <2>4, <3>1, FlatUnique
    <3> QED BY <2>3, <3>2
  <2>6. g[n + 1] = Joined(g[n], t)
    BY <1>1, <1>2, <2>3 DEF FlatUpTo
  <2> QED BY <1>2, <2>1, <2>5, <2>6, Zenon DEF Joined, tt
<1> QED BY <1>3, <1>4

LEMMA FlattenConcat ==
    ASSUME NEW S, NEW ss \in Seq(Seq(S)), NEW tt \in Seq(Seq(S))
    PROVE  FlattenSeq(ss \o tt) = FlattenSeq(ss) \o FlattenSeq(tt)
<1> DEFINE n == Len(tt)
           part(k) == SubSeq(tt, 1, k)
           Good(k) == FlattenSeq(ss \o part(k)) = FlattenSeq(ss) \o FlattenSeq(part(k))
           Bad == {k \in 0 .. n : ~ Good(k)}
<1>1. n \in Nat /\ part(n) = tt /\ part(0) = << >>
  <2>1. n \in Nat /\ 1 \in Int /\ 0 \in Int /\ 0 < 1
    OBVIOUS
  <2>2. part(n) = tt
    BY SubSeqFull, Zenon
  <2>3. part(0) = << >>
    BY <2>1, SubSeqEmpty, Zenon
  <2> QED BY <2>1, <2>2, <2>3
<1>2. SUFFICES ASSUME Bad # {} PROVE FALSE
  <2>1. n \in 0 .. n
    BY <1>1
  <2>2. ASSUME Bad = {} PROVE Good(n)
    BY <2>1, <2>2
  <2> HIDE DEF Bad
  <2> QED BY <1>1, <2>2, Zenon
<1>3. PICK m \in Bad : \A k \in Bad : m <= k
  <2>1. Bad \in SUBSET Nat
    OBVIOUS
  <2> QED BY <1>2, <2>1, LeastNat, Zenon
<1>4. m \in 0 .. n /\ ~ Good(m)
  BY <1>3
<1>5. CASE m = 0
  <2>1. ss \o << >> = ss /\ FlattenSeq(<< >>) = << >>
    BY ConcatEmptySeq, EmptySeq DEF FlattenSeq
  <2>2. FlattenSeq(ss) \o << >> = FlattenSeq(ss)
    BY FlattenProperties, ConcatEmptySeq
  <2> QED BY <1>1, <1>4, <1>5, <2>1, <2>2, Zenon
<1>6. CASE m # 0
  <2> DEFINE a == part(m - 1)
  <2>1. m \in 1 .. n /\ m - 1 \in 0 .. n /\ ~ (m <= m - 1)
    BY <1>4, <1>6
  <2>2. Good(m - 1)
    <3>1. m - 1 \notin Bad
      <4> HIDE DEF Bad
      <4> QED BY <1>3, <2>1
    <3> QED BY <2>1, <3>1
  <2>3. tt[m] \in Seq(S)
    BY <2>1, ElementOfSeq
  <2>4. a \in Seq(Seq(S)) /\ part(m) = Append(a, tt[m])
    <3>1. \A i \in 1 .. m - 1 : tt[i] \in Seq(S)
      BY <1>1, <2>1, ElementOfSeq
    <3>2. a \in Seq(Seq(S))
      BY <2>1, <3>1, SubSeqProperties
    <3>3. part(m) = a \o <<tt[m]>>
      <4>1. 1 \in 1 .. n /\ m \in 1 .. n
        BY <1>1, <2>1
      <4> QED BY <4>1, SubSeqRecursiveSecond
    <3>4. Append(a, tt[m]) = a \o <<tt[m]>>
      BY <2>3, <3>2, AppendIsConcat
    <3> QED BY <3>2, <3>3, <3>4
  <2> HIDE DEF a
  <2>5. ss \o a \in Seq(Seq(S)) /\ ss \o Append(a, tt[m]) = Append(ss \o a, tt[m])
    <3>1. <<tt[m]>> \in Seq(Seq(S)) /\ ss \o a \in Seq(Seq(S))
      BY <2>3, <2>4, ConcatProperties
    <3>2. Append(a, tt[m]) = a \o <<tt[m]>> /\ Append(ss \o a, tt[m]) = (ss \o a) \o <<tt[m]>>
      BY <2>3, <2>4, <3>1, AppendIsConcat
    <3>3. (ss \o a) \o <<tt[m]>> = ss \o (a \o <<tt[m]>>)
      <4>1. Joined(Joined(ss, a), <<tt[m]>>) = Joined(ss, Joined(a, <<tt[m]>>))
        <5>1. PICK T : T = Seq(S)
          OBVIOUS
        <5>2. PICK u \in Seq(T) : u = <<tt[m]>>
          BY <3>1, <5>1
        <5>3. ss \in Seq(T) /\ a \in Seq(T)
          BY <2>4, <5>1
        <5>4. Joined(Joined(ss, a), u) = Joined(ss, Joined(a, u))
          BY ONLY <5>3, u \in Seq(T), JoinedAssociative
        <5> QED BY <5>2, <5>4
      <4> QED BY ONLY <4>1 DEF Joined
    <3> QED BY <3>1, <3>2, <3>3
  <2>6. FlattenSeq(Append(ss \o a, tt[m])) = FlattenSeq(ss \o a) \o tt[m]
    BY <2>3, <2>5, FlattenAppend
  <2>7. FlattenSeq(Append(a, tt[m])) = FlattenSeq(a) \o tt[m]
    BY <2>3, <2>4, FlattenAppend
  <2>8. (FlattenSeq(ss) \o FlattenSeq(a)) \o tt[m] = FlattenSeq(ss) \o (FlattenSeq(a) \o tt[m])
    <3>1. FlattenSeq(ss) \in Seq(S) /\ FlattenSeq(a) \in Seq(S)
      BY <2>4, FlattenProperties
    <3>2. Joined(Joined(FlattenSeq(ss), FlattenSeq(a)), tt[m])
          = Joined(FlattenSeq(ss), Joined(FlattenSeq(a), tt[m]))
      BY ONLY <2>3, <3>1, JoinedAssociative
    <3> QED BY ONLY <3>2 DEF Joined
  <2>9. FlattenSeq(ss \o a) = FlattenSeq(ss) \o FlattenSeq(a)
    BY <2>2 DEF a
  <2> QED BY <1>4, <2>4, <2>5, <2>6, <2>7, <2>8, <2>9, Zenon
<1> QED BY <1>5, <1>6

\* A sequence without one of its elements.
LEMMA RemoveAtProperties ==
    ASSUME NEW S, NEW q \in Seq(S), NEW i \in 1 .. Len(q)
    PROVE  /\ RemoveAt(q, i) \in Seq(S)
           /\ Len(RemoveAt(q, i)) = Len(q) - 1
           /\ \A j \in 1 .. Len(q) - 1 : RemoveAt(q, i)[j] = IF j < i THEN q[j] ELSE q[j + 1]
<1> DEFINE a == SubSeq(q, 1, i - 1)
           b == SubSeq(q, i + 1, Len(q))
<1>1. Len(q) \in Nat /\ \A j \in 1 .. Len(q) : q[j] \in S
  OBVIOUS
<1>2. /\ a \in Seq(S) /\ Len(a) = i - 1
      /\ \A j \in 1 .. i - 1 : a[j] = q[j]
  <2>1. \A j \in 1 .. i - 1 : q[j] \in S
    BY <1>1
  <2>2. /\ a \in Seq(S) /\ Len(a) = IF 1 <= i - 1 THEN i - 1 - 1 + 1 ELSE 0
        /\ \A j \in 1 .. i - 1 - 1 + 1 : a[j] = q[1 + j - 1]
    BY <1>1, <2>1, SubSeqProperties
  <2> HIDE DEF a
  <2> QED BY <1>1, <2>2
<1>3. /\ b \in Seq(S) /\ Len(b) = Len(q) - i
      /\ \A j \in 1 .. Len(q) - i : b[j] = q[i + j]
  <2>1. \A j \in i + 1 .. Len(q) : q[j] \in S
    BY <1>1
  <2>2. /\ b \in Seq(S) /\ Len(b) = IF i + 1 <= Len(q) THEN Len(q) - (i + 1) + 1 ELSE 0
        /\ \A j \in 1 .. Len(q) - (i + 1) + 1 : b[j] = q[(i + 1) + j - 1]
    BY <1>1, <2>1, SubSeqProperties
  <2> HIDE DEF b
  <2> QED BY <1>1, <2>2
<1>4. RemoveAt(q, i) = a \o b
  BY Zenon DEF RemoveAt
<1> HIDE DEF a, b
<1>5. /\ a \o b \in Seq(S) /\ Len(a \o b) = Len(a) + Len(b)
      /\ \A j \in 1 .. Len(a) + Len(b) : (a \o b)[j] = IF j <= Len(a) THEN a[j] ELSE b[j - Len(a)]
  BY <1>2, <1>3, ConcatProperties
<1> DEFINE c == a \o b
<1> HIDE DEF c
<1>6. /\ c \in Seq(S) /\ Len(c) = Len(q) - 1
      /\ \A j \in 1 .. Len(q) - 1 : c[j] = IF j <= i - 1 THEN a[j] ELSE b[j - (i - 1)]
  BY <1>1, <1>2, <1>3, <1>5 DEF c
<1>7. ASSUME NEW j \in 1 .. Len(q) - 1
      PROVE  c[j] = IF j < i THEN q[j] ELSE q[j + 1]
  <2>1. CASE j < i
    BY <1>1, <1>2, <1>6, <2>1
  <2>2. CASE ~ (j < i)
    <3>1. /\ j - (i - 1) \in 1 .. Len(q) - i /\ i + (j - (i - 1)) = j + 1
          /\ ~ (j <= i - 1)
      BY <1>1, <2>2
    <3> QED BY <1>3, <1>6, <2>2, <3>1
  <2> QED BY <2>1, <2>2
<1> QED BY <1>4, <1>6, <1>7 DEF c

-----------------------------------------------------------------------------
(* Sets as sequences. *)

\* An order of a finite set has all of it and nothing else.
LEMMA OrderProperties ==
    ASSUME NEW S, IsFiniteSet(S), NEW order \in SetToSeqs(S)
    PROVE  order \in Seq(S) /\ ToSet(order) = S
<1> DEFINE n == Cardinality(S)
<1>1. n \in Nat
  BY FS_CardinalityType
<1>2. order \in [1 .. n -> S] /\ \A i, j \in 1 .. n : i # j => order[i] # order[j]
  BY DEF SetToSeqs
<1>3. order \in Seq(S) /\ DOMAIN order = 1 .. n
  BY <1>1, <1>2
<1>4. IsFiniteSet(1 .. n) /\ Cardinality(1 .. n) = n
  BY <1>1, FS_Interval
<1>5. order \in Injection(1 .. n, S)
  BY <1>2 DEF Injection, IsInjective
<1>6. order \in Surjection(1 .. n, S)
  BY <1>4, <1>5, FS_Injection
<1>7. ToSet(order) = S
  BY <1>2, <1>3, <1>6 DEF ToSet, Surjection
<1> QED BY <1>3, <1>7
-----------------------------------------------------------------------------
(* Sequences as sets: what is left when the order does not matter.         *)

Distinct(q) == \A i, j \in 1 .. Len(q) : q[i] = q[j] => i = j

\* A sequence is empty when nothing is in it, and typed by what is in it.
LEMMA SetOfSequence ==
    ASSUME NEW S, NEW q \in Seq(S)
    PROVE  /\ \A e : e \in ToSet(q) <=> \E i \in 1 .. Len(q) : q[i] = e
           /\ q = << >> <=> ToSet(q) = {}
           /\ \A T : ToSet(q) \subseteq T => q \in Seq(T)
<1>1. DOMAIN q = 1 .. Len(q) /\ Len(q) \in Nat
  BY LenProperties
<1>2. \A e : e \in ToSet(q) <=> \E i \in 1 .. Len(q) : q[i] = e
  BY <1>1 DEF ToSet
<1>3. q = << >> <=> ToSet(q) = {}
  <2>1. Len(q) # 0 => q[1] \in ToSet(q)
    BY <1>1, <1>2
  <2>2. Len(q) = 0 => ToSet(q) = {}
    BY <1>1, <1>2
  <2>3. q = << >> <=> Len(q) = 0
    BY EmptySeq
  <2> QED BY <2>1, <2>2, <2>3
<1>4. ASSUME NEW T, ToSet(q) \subseteq T PROVE q \in Seq(T)
  <2>1. \A i \in 1 .. Len(q) : q[i] \in T
    BY <1>2, <1>4
  <2>2. q = [i \in 1 .. Len(q) |-> q[i]]
    BY <1>1
  <2>3. q \in [1 .. Len(q) -> T]
    BY <2>1, <2>2
  <2> QED BY <1>1, <2>3, SeqDef
<1> QED BY <1>2, <1>3, <1>4

LEMMA AppendSet ==
    ASSUME NEW S, NEW q \in Seq(S), Distinct(q), NEW e \in S, e \notin ToSet(q)
    PROVE  /\ Append(q, e) \in Seq(S) /\ Distinct(Append(q, e))
           /\ ToSet(Append(q, e)) = ToSet(q) \cup {e}
<1> DEFINE r == Append(q, e)
<1>1. /\ r \in Seq(S) /\ Len(r) = Len(q) + 1 /\ Len(q) \in Nat
      /\ \A i \in 1 .. Len(q) : r[i] = q[i]
      /\ r[Len(q) + 1] = e
  BY AppendProperties
<1> HIDE DEF r
<1>2. \A i \in 1 .. Len(r) : i \in 1 .. Len(q) \/ i = Len(q) + 1
  BY <1>1
<1>3. \A f : f \in ToSet(q) <=> \E i \in 1 .. Len(q) : q[i] = f
  BY SetOfSequence
<1>4. \A f : f \in ToSet(r) <=> \E i \in 1 .. Len(r) : r[i] = f
  BY <1>1, SetOfSequence
<1>5. ToSet(r) = ToSet(q) \cup {e}
  <2>1. Len(q) + 1 \in 1 .. Len(r) /\ \A i \in 1 .. Len(q) : i \in 1 .. Len(r)
    BY <1>1
  <2> QED BY <1>1, <1>2, <1>3, <1>4, <2>1
<1>6. Distinct(r)
  BY <1>1, <1>2, <1>3 DEF Distinct
<1> QED BY <1>1, <1>5, <1>6 DEF r

LEMMA TailSet ==
    ASSUME NEW S, NEW q \in Seq(S), q # << >>, Distinct(q)
    PROVE  /\ Tail(q) \in Seq(S) /\ Distinct(Tail(q))
           /\ Head(q) \in ToSet(q)
           /\ ToSet(Tail(q)) = ToSet(q) \ {Head(q)}
<1> DEFINE r == Tail(q)
<1>1. /\ r \in Seq(S) /\ Len(r) = Len(q) - 1 /\ Len(q) \in Nat /\ Len(q) # 0
      /\ \A i \in 1 .. Len(r) : r[i] = q[i + 1]
      /\ Head(q) = q[1]
  BY HeadTailProperties, EmptySeq
<1> HIDE DEF r
<1>2. \A f : f \in ToSet(q) <=> \E i \in 1 .. Len(q) : q[i] = f
  BY SetOfSequence
<1>3. \A f : f \in ToSet(r) <=> \E i \in 1 .. Len(r) : r[i] = f
  BY <1>1, SetOfSequence
<1>4. Head(q) \in ToSet(q)
  BY <1>1, <1>2
<1>5. ASSUME NEW f \in ToSet(r) PROVE f \in ToSet(q) \ {Head(q)}
  <2>1. PICK i \in 1 .. Len(r) : r[i] = f
    BY <1>3
  <2>2. i + 1 \in 1 .. Len(q) /\ i + 1 # 1 /\ q[i + 1] = f /\ 1 \in 1 .. Len(q)
    BY <1>1, <2>1
  <2>3. f # q[1]
    BY <2>2 DEF Distinct
  <2> QED BY <1>1, <1>2, <2>2, <2>3
<1>6. ASSUME NEW f \in ToSet(q), f # Head(q) PROVE f \in ToSet(r)
  <2>1. PICK i \in 1 .. Len(q) : q[i] = f
    BY <1>2
  <2>2. i # 1
    BY <1>1, <1>6, <2>1
  <2>3. i - 1 \in 1 .. Len(r) /\ (i - 1) + 1 = i
    BY <1>1, <2>2
  <2>4. r[i - 1] = f
    BY <1>1, <2>1, <2>3
  <2> QED BY <1>3, <2>3, <2>4
<1>7. Distinct(r)
  <2> SUFFICES ASSUME NEW i \in 1 .. Len(r), NEW j \in 1 .. Len(r), r[i] = r[j]
               PROVE  i = j
    BY DEF Distinct
  <2>1. i + 1 \in 1 .. Len(q) /\ j + 1 \in 1 .. Len(q) /\ q[i + 1] = q[j + 1]
    BY <1>1
  <2>2. i + 1 = j + 1
    BY <2>1 DEF Distinct
  <2> QED BY <1>1, <2>2
<1> QED BY <1>1, <1>4, <1>5, <1>6, <1>7 DEF r

LEMMA WithoutSet ==
    ASSUME NEW S, NEW q \in Seq(S), NEW gone
    PROVE  /\ Without(q, gone) \in Seq(S)
           /\ ToSet(Without(q, gone)) = ToSet(q) \ gone
           /\ Distinct(q) => Distinct(Without(q, gone))
<1> DEFINE r == Without(q, gone)
<1>1. r \in Seq(S) /\ Len(r) \in Nat /\ Len(q) \in Nat
  BY WithoutProperties
<1>2. PICK f : KeptBy(f, r, q, gone, Len(q))
  BY WithoutProperties
<1> HIDE DEF r
<1>3. \A e : e \in ToSet(q) <=> \E i \in 1 .. Len(q) : q[i] = e
  BY SetOfSequence
<1>4. \A e : e \in ToSet(r) <=> \E i \in 1 .. Len(r) : r[i] = e
  BY <1>1, SetOfSequence
<1>5. ASSUME NEW e \in ToSet(r) PROVE e \in ToSet(q) \ gone
  <2>1. PICK i \in 1 .. Len(r) : r[i] = e
    BY <1>4
  <2>2. f[i] \in 1 .. Len(q) /\ q[f[i]] = e /\ e \notin gone
    BY <1>2, <2>1 DEF KeptBy
  <2> QED BY <1>3, <2>2
<1>6. ASSUME NEW e \in ToSet(q), e \notin gone PROVE e \in ToSet(r)
  <2>1. PICK j \in 1 .. Len(q) : q[j] = e
    BY <1>3
  <2>2. PICK i \in 1 .. Len(r) : f[i] = j
    BY <1>2, <1>6, <2>1 DEF KeptBy
  <2>3. r[i] = e
    BY <1>2, <2>1, <2>2 DEF KeptBy
  <2> QED BY <1>4, <2>3
<1>7. ASSUME Distinct(q) PROVE Distinct(r)
  <2> SUFFICES ASSUME NEW i \in 1 .. Len(r), NEW j \in 1 .. Len(r), r[i] = r[j]
               PROVE  i = j
    BY DEF Distinct
  <2>1. f[i] \in 1 .. Len(q) /\ f[j] \in 1 .. Len(q) /\ q[f[i]] = q[f[j]]
    BY <1>2 DEF KeptBy
  <2>2. f[i] = f[j]
    BY <1>7, <2>1 DEF Distinct
  <2>3. ~ (i < j) /\ ~ (j < i)
    BY <1>2, <2>1, <2>2 DEF KeptBy
  <2> QED BY <1>1, <2>3
<1> QED BY <1>1, <1>5, <1>6, <1>7 DEF r
-----------------------------------------------------------------------------
(* Without, element by element.                                            *)

\* Lists that agree up to n lose and keep the same up to n.
LEMMA KeptUnique ==
    ASSUME NEW p, NEW q, NEW gone, NEW n \in Nat, NEW f, NEW g,
           \A i \in 1 .. n : p[i] = q[i],
           KeptUpTo(p, gone, f, n), KeptUpTo(q, gone, g, n)
    PROVE  \A i \in 0 .. n : f[i] = g[i]
<1> DEFINE Bad == {i \in 0 .. n : f[i] # g[i]}
<1>1. SUFFICES ASSUME Bad # {} PROVE FALSE
  OBVIOUS
<1>2. Bad \in SUBSET Nat
  OBVIOUS
<1>3. PICK m \in Bad : \A k \in Bad : m <= k
  BY <1>1, <1>2, LeastNat, Zenon
<1>4. m \in 0 .. n /\ f[m] # g[m]
  BY <1>3
<1>5. m # 0
  BY <1>4 DEF KeptUpTo
<1>6. m \in 1 .. n /\ m - 1 \in 0 .. n /\ ~ (m <= m - 1)
  BY <1>4, <1>5
<1>7. f[m - 1] = g[m - 1]
  <2>1. m - 1 \notin Bad
    <3> HIDE DEF Bad
    <3> QED BY <1>3, <1>6
  <2> QED BY <1>6, <2>1
<1>8. f[m] = KeptStep(p, gone, f[m - 1], m) /\ g[m] = KeptStep(q, gone, g[m - 1], m)
  BY <1>6 DEF KeptUpTo
<1> QED BY <1>4, <1>6, <1>7, <1>8 DEF KeptStep

\* Where nothing is removed the list stays as it is.
LEMMA WithoutNone ==
    ASSUME NEW S, NEW q \in Seq(S), NEW gone, \A i \in 1 .. Len(q) : q[i] \notin gone
    PROVE  Without(q, gone) = q
<1>1. PICK kept : KeptUpTo(q, gone, kept, Len(q)) /\ Without(q, gone) = kept[Len(q)]
  BY WithoutUnfolds
<1> DEFINE Good(n) == /\ kept[n] \in Seq(S) /\ Len(kept[n]) = n
                      /\ \A i \in 1 .. n : kept[n][i] = q[i]
           Bad == {n \in 0 .. Len(q) : ~ Good(n)}
<1>2. Bad = {}
  <2>1. SUFFICES ASSUME Bad # {} PROVE FALSE
    OBVIOUS
  <2>2. Bad \in SUBSET Nat
    OBVIOUS
  <2>3. PICK m \in Bad : \A k \in Bad : m <= k
    BY <2>1, <2>2, LeastNat, Zenon
  <2>4. m \in 0 .. Len(q) /\ ~ Good(m)
    BY <2>3
  <2>5. CASE m = 0
    <3>1. kept[0] = << >>
      BY <1>1 DEF KeptUpTo
    <3> QED BY <2>4, <2>5, <3>1
  <2>6. CASE m > 0
    <3>1. m - 1 \in 0 .. Len(q) /\ m \in 1 .. Len(q) /\ ~ (m <= m - 1)
      BY <2>4, <2>6
    <3>2. Good(m - 1)
      <4>1. m - 1 \notin Bad
        <5> HIDE DEF Bad
        <5> QED BY <2>3, <3>1
      <4> QED BY <3>1, <4>1
    <3>3. kept[m] = Append(kept[m - 1], q[m]) /\ q[m] \in S
      <4>1. kept[m] = KeptStep(q, gone, kept[m - 1], m)
        BY <1>1, <3>1 DEF KeptUpTo
      <4>2. q[m] \notin gone /\ q[m] \in S
        BY <3>1
      <4> QED BY <4>1, <4>2 DEF KeptStep
    <3> DEFINE r == kept[m - 1]
    <3>4. /\ r \in Seq(S) /\ Len(r) = m - 1 /\ \A i \in 1 .. m - 1 : r[i] = q[i]
      BY <3>2
    <3> HIDE DEF r
    <3>5. /\ Append(r, q[m]) \in Seq(S) /\ Len(Append(r, q[m])) = m
          /\ \A i \in 1 .. m : Append(r, q[m])[i] = q[i]
      <4>1. /\ Append(r, q[m]) \in Seq(S) /\ Len(Append(r, q[m])) = Len(r) + 1
            /\ Append(r, q[m])[Len(r) + 1] = q[m]
            /\ \A i \in 1 .. Len(r) : Append(r, q[m])[i] = r[i]
        BY <3>3, <3>4, AppendProperties
      <4>2. Len(r) + 1 = m /\ \A i \in 1 .. m : i = m \/ i \in 1 .. Len(r)
        BY <3>1, <3>4
      <4> QED BY <3>4, <4>1, <4>2
    <3>6. Good(m)
      BY <3>3, <3>5 DEF r
    <3> QED BY <2>4, <3>6
  <2> QED BY <2>4, <2>5, <2>6
<1>3. Len(q) \in Nat /\ Len(q) \notin Bad
  BY <1>2
<1>4. Good(Len(q))
  BY <1>3
<1> HIDE DEF Bad
<1> QED BY <1>1, <1>4

LEMMA WithoutAppend ==
    ASSUME NEW S, NEW q \in Seq(S), NEW e \in S, NEW gone
    PROVE  Without(Append(q, e), gone)
           = IF e \in gone THEN Without(q, gone) ELSE Append(Without(q, gone), e)
<1> DEFINE r == Append(q, e)
           n == Len(q)
<1>1. /\ r \in Seq(S) /\ Len(r) = n + 1 /\ r[n + 1] = e /\ n \in Nat
      /\ \A i \in 1 .. n : r[i] = q[i]
  BY AppendProperties
<1> HIDE DEF r
<1>2. PICK f : KeptUpTo(q, gone, f, n) /\ Without(q, gone) = f[n]
  BY WithoutUnfolds
<1>3. PICK g : KeptUpTo(r, gone, g, n + 1) /\ Without(r, gone) = g[n + 1]
  BY <1>1, WithoutUnfolds
<1>4. KeptUpTo(r, gone, g, n)
  BY <1>1, <1>3 DEF KeptUpTo
<1>5. g[n] = f[n]
  <2> HIDE DEF n
  <2>1. n \in Nat /\ \A i \in 1 .. n : q[i] = r[i]
    BY <1>1
  <2>2. \A i \in 0 .. n : f[i] = g[i]
    BY <1>2, <1>4, <2>1, KeptUnique
  <2> QED BY <1>1, <2>2
<1>6. g[n + 1] = KeptStep(r, gone, g[(n + 1) - 1], n + 1) /\ (n + 1) - 1 = n
  BY <1>1, <1>3 DEF KeptUpTo
<1> QED BY <1>1, <1>2, <1>3, <1>5, <1>6 DEF KeptStep, r

\* What is in front and goes leaves no trace.
LEMMA WithoutFirst ==
    ASSUME NEW S, NEW q \in Seq(S), NEW e \in S, NEW gone, e \in gone
    PROVE  Without(<<e>> \o q, gone) = Without(q, gone)
<1> DEFINE r == <<e>> \o q
           n == Len(q)
<1>1. <<e>> \in Seq(S) /\ Len(<<e>>) = 1 /\ <<e>>[1] = e
  OBVIOUS
<1>2. /\ r \in Seq(S) /\ Len(r) = n + 1 /\ n \in Nat /\ r[1] = e
      /\ \A i \in 1 .. n : r[i + 1] = q[i]
  <2>1. /\ r \in Seq(S) /\ Len(r) = 1 + n /\ n \in Nat
        /\ \A i \in 1 .. 1 + n : r[i] = IF i <= 1 THEN <<e>>[i] ELSE q[i - 1]
    BY <1>1, ConcatProperties
  <2> HIDE DEF r, n
  <2> QED BY <1>1, <2>1
<1> HIDE DEF r
<1>3. PICK f : KeptUpTo(q, gone, f, n) /\ Without(q, gone) = f[n]
  BY WithoutUnfolds
<1>4. PICK g : KeptUpTo(r, gone, g, n + 1) /\ Without(r, gone) = g[n + 1]
  BY <1>2, WithoutUnfolds
<1> DEFINE h == [i \in 0 .. n |-> g[i + 1]]
<1>5. KeptUpTo(q, gone, h, n)
  <2>1. h[0] = << >>
    <3>1. g[0] = << >> /\ g[1] = KeptStep(r, gone, g[1 - 1], 1)
      BY <1>2, <1>4 DEF KeptUpTo
    <3>2. h[0] = g[1] /\ 1 - 1 = 0
      BY <1>2
    <3> QED BY <1>2, <3>1, <3>2 DEF KeptStep
  <2>2. ASSUME NEW i \in 1 .. n
        PROVE  h[i] = KeptStep(q, gone, h[i - 1], i)
    <3>1. /\ i + 1 \in 1 .. n + 1 /\ (i + 1) - 1 = i /\ h[i] = g[i + 1] /\ h[i - 1] = g[i]
      BY <1>2
    <3>2. g[i + 1] = KeptStep(r, gone, g[i], i + 1)
      BY <1>4, <3>1 DEF KeptUpTo
    <3> QED BY <1>2, <3>1, <3>2 DEF KeptStep
  <2> HIDE DEF h
  <2> QED BY <2>1, <2>2 DEF KeptUpTo
<1>6. h[n] = g[n + 1]
  BY <1>2
<1>7. f[n] = h[n]
  <2> HIDE DEF h, n
  <2>1. \A i \in 0 .. n : f[i] = h[i]
    BY <1>2, <1>3, <1>5, KeptUnique
  <2> QED BY <1>2, <2>1
<1> QED BY <1>3, <1>4, <1>6, <1>7 DEF r

\* To remove some and then all of gone is to remove gone.
LEMMA WithoutTwice ==
    ASSUME NEW S, NEW q \in Seq(S), NEW some, NEW gone, some \subseteq gone
    PROVE  Without(Without(q, some), gone) = Without(q, gone)
<1>1. PICK f : KeptUpTo(q, some, f, Len(q)) /\ Without(q, some) = f[Len(q)]
  BY WithoutUnfolds
<1>2. PICK g : KeptUpTo(q, gone, g, Len(q)) /\ Without(q, gone) = g[Len(q)]
  BY WithoutUnfolds
<1> DEFINE Good(n) == f[n] \in Seq(S) /\ Without(f[n], gone) = g[n]
           Bad == {n \in 0 .. Len(q) : ~ Good(n)}
<1>3. SUFFICES ASSUME Bad # {} PROVE FALSE
  BY <1>1, <1>2
<1>4. PICK m \in Bad : \A k \in Bad : m <= k
  <2>1. Bad \in SUBSET Nat
    OBVIOUS
  <2> QED BY <1>3, <2>1, LeastNat, Zenon
<1>5. m \in 0 .. Len(q) /\ ~ Good(m)
  BY <1>4
<1>6. CASE m = 0
  <2>1. f[0] = << >> /\ g[0] = << >>
    BY <1>1, <1>2 DEF KeptUpTo
  <2>2. Without(<< >>, gone) = << >>
    <3>1. << >> \in Seq(S) /\ Len(<< >>) = 0
      OBVIOUS
    <3>2. PICK h : KeptUpTo(<< >>, gone, h, 0) /\ Without(<< >>, gone) = h[0]
      BY <3>1, WithoutUnfolds
    <3> QED BY <3>2 DEF KeptUpTo
  <2> QED BY <1>5, <1>6, <2>1, <2>2
<1>7. CASE m > 0
  <2>1. m - 1 \in 0 .. Len(q) /\ m \in 1 .. Len(q) /\ ~ (m <= m - 1) /\ q[m] \in S
    BY <1>5, <1>7
  <2>2. Good(m - 1)
    <3>1. m - 1 \notin Bad
      <4> HIDE DEF Bad
      <4> QED BY <1>4, <2>1
    <3> QED BY <2>1, <3>1
  <2>3. f[m] = KeptStep(q, some, f[m - 1], m) /\ g[m] = KeptStep(q, gone, g[m - 1], m)
    BY <1>1, <1>2, <2>1 DEF KeptUpTo
  <2>4. CASE q[m] \in some
    BY <1>5, <2>2, <2>3, <2>4 DEF KeptStep
  <2>5. CASE q[m] \notin some
    <3>1. f[m] = Append(f[m - 1], q[m]) /\ f[m] \in Seq(S)
      BY <2>1, <2>2, <2>3, <2>5 DEF KeptStep
    <3>2. Without(f[m], gone) = IF q[m] \in gone THEN g[m - 1] ELSE Append(g[m - 1], q[m])
      <4>1. ASSUME NEW r \in Seq(S), NEW e \in S
            PROVE  Without(Append(r, e), gone)
                   = IF e \in gone THEN Without(r, gone) ELSE Append(Without(r, gone), e)
        BY WithoutAppend
      <4>2. f[m - 1] \in Seq(S) /\ Without(f[m - 1], gone) = g[m - 1]
        BY <2>2
      <4> HIDE DEF Good, Bad
      <4> QED BY <2>1, <3>1, <4>1, <4>2, Zenon
    <3> QED BY <1>5, <2>3, <3>1, <3>2 DEF KeptStep
  <2> QED BY <2>4, <2>5
<1> QED BY <1>5, <1>6, <1>7

-----------------------------------------------------------------------------
(* Lists that are used as stacks, the top in front.                        *)

LEMMA PushProperties ==
    ASSUME NEW S, NEW q \in Seq(S), NEW e \in S
    PROVE  LET r == <<e>> \o q
           IN  /\ r \in Seq(S) /\ r # << >> /\ Head(r) = e
               /\ Len(r) = Len(q) + 1 /\ r[1] = e
               /\ \A n \in 1 .. Len(q) : r[n + 1] = q[n]
               /\ ToSet(r) = {e} \cup ToSet(q)
<1> DEFINE r == <<e>> \o q
<1>1. <<e>> \in Seq(S) /\ Len(<<e>>) = 1 /\ <<e>>[1] = e /\ Len(q) \in Nat
  OBVIOUS
<1>2. /\ r \in Seq(S) /\ Len(r) = 1 + Len(q)
      /\ \A i \in 1 .. 1 + Len(q) : r[i] = IF i <= 1 THEN <<e>>[i] ELSE q[i - 1]
  BY <1>1, ConcatProperties
<1> HIDE DEF r
<1>3. /\ Len(r) = Len(q) + 1 /\ r[1] = e
      /\ \A n \in 1 .. Len(q) : r[n + 1] = q[n]
  BY <1>1, <1>2
<1>4. r # << >> /\ Head(r) = e
  BY <1>1, <1>2, <1>3
<1>5. /\ \A x : x \in ToSet(r) <=> \E i \in 1 .. Len(r) : r[i] = x
      /\ \A x : x \in ToSet(q) <=> \E i \in 1 .. Len(q) : q[i] = x
  BY <1>2, SetOfSequence
<1>6. \A i \in 1 .. Len(r) : i = 1 \/ (i - 1 \in 1 .. Len(q) /\ r[i] = q[i - 1])
  BY <1>1, <1>2
<1>7. \A n \in 1 .. Len(q) : n + 1 \in 1 .. Len(r)
  BY <1>1, <1>2
<1>8. 1 \in 1 .. Len(r)
  BY <1>1, <1>2
<1>9. ToSet(r) = {e} \cup ToSet(q)
  BY <1>3, <1>5, <1>6, <1>7, <1>8
<1> QED BY <1>2, <1>3, <1>4, <1>9 DEF r

LEMMA PopProperties ==
    ASSUME NEW S, NEW q \in Seq(S), q # << >>
    PROVE  /\ Tail(q) \in Seq(S) /\ Head(q) \in S /\ Head(q) = q[1]
           /\ Len(q) = Len(Tail(q)) + 1
           /\ \A n \in 1 .. Len(Tail(q)) : Tail(q)[n] = q[n + 1]
           /\ ToSet(q) = {Head(q)} \cup ToSet(Tail(q))
<1> DEFINE r == Tail(q)
<1>1. /\ r \in Seq(S) /\ Len(r) = Len(q) - 1 /\ Len(q) \in Nat /\ Len(q) # 0
      /\ \A n \in 1 .. Len(r) : r[n] = q[n + 1]
      /\ Head(q) = q[1] /\ Head(q) \in S
  OBVIOUS
<1> HIDE DEF r
<1>2. /\ \A x : x \in ToSet(r) <=> \E i \in 1 .. Len(r) : r[i] = x
      /\ \A x : x \in ToSet(q) <=> \E i \in 1 .. Len(q) : q[i] = x
  BY <1>1, SetOfSequence
<1>3. \A i \in 1 .. Len(q) : i = 1 \/ (i - 1 \in 1 .. Len(r) /\ q[i] = r[i - 1])
  BY <1>1
<1>4. \A n \in 1 .. Len(r) : n + 1 \in 1 .. Len(q)
  BY <1>1
<1>5. 1 \in 1 .. Len(q)
  BY <1>1
<1>6. ToSet(q) = {Head(q)} \cup ToSet(r)
  BY <1>1, <1>2, <1>3, <1>4, <1>5
<1> QED BY <1>1, <1>6 DEF r

LEMMA FiniteToSet ==
    ASSUME NEW S, NEW q \in Seq(S)
    PROVE  IsFiniteSet(ToSet(q))
<1>1. Len(q) \in Nat /\ \A x : x \in ToSet(q) <=> \E i \in 1 .. Len(q) : q[i] = x
  BY SetOfSequence
<1> DEFINE f == [i \in 1 .. Len(q) |-> q[i]]
<1>2. f \in Surjection(1 .. Len(q), ToSet(q))
  BY <1>1 DEF Surjection
<1>3. IsFiniteSet(1 .. Len(q))
  BY <1>1, FS_Interval
<1> QED BY <1>2, <1>3, FS_Surjection


-----------------------------------------------------------------------------
(* Steps repeated from a first value. *)

\* f takes the steps F[1], F[2] ... from s.
Repeats(F, f, s, n) == f[0] = s /\ \A i \in 1 .. n : f[i] = F[i][f[i - 1]]

\* Steps that stay in S can be repeated any number of times.
LEMMA RepeatsExists ==
    ASSUME NEW S, NEW N \in Nat, NEW F \in [1 .. N -> [S -> S]], NEW s \in S,
           NEW n \in 0 .. N
    PROVE  \E f \in [0 .. n -> S] : Repeats(F, f, s, n)
<1> DEFINE Good(k) == \E f \in [0 .. k -> S] : Repeats(F, f, s, k)
           Bad == {k \in 0 .. N : ~ Good(k)}
<1>1. SUFFICES ASSUME Bad # {} PROVE FALSE
  OBVIOUS
<1>2. Bad \in SUBSET Nat
  OBVIOUS
<1>3. PICK m \in Bad : \A k \in Bad : m <= k
  BY <1>1, <1>2, LeastNat, Zenon
<1>4. m \in 0 .. N /\ ~ Good(m)
  BY <1>3
<1> HIDE DEF Bad
<1>5. CASE m = 0
  <2> DEFINE f == [i \in 0 .. 0 |-> s]
  <2>1. f \in [0 .. 0 -> S] /\ Repeats(F, f, s, 0)
    BY DEF Repeats
  <2> QED BY <1>4, <1>5, <2>1
<1>6. CASE m > 0
  <2>1. m - 1 \in 0 .. N /\ m - 1 \notin Bad
    <3>1. m - 1 \in 0 .. N /\ ~ (m <= m - 1)
      BY <1>4, <1>6
    <3> QED BY <1>3, <3>1
  <2>2. PICK g \in [0 .. m - 1 -> S] : Repeats(F, g, s, m - 1)
    BY <2>1 DEF Bad
  <2> DEFINE f == [i \in 0 .. m |-> IF i < m THEN g[i] ELSE F[m][g[m - 1]]]
  <2>3. m \in 1 .. N /\ g[m - 1] \in S /\ F[m] \in [S -> S]
    BY <1>4, <1>6, <2>2
  <2>4. F[m][g[m - 1]] \in S
    BY <2>3
  <2>5. f \in [0 .. m -> S]
    BY <1>4, <2>2, <2>4
  <2>6. \A i \in 0 .. m - 1 : f[i] = g[i]
    BY <1>4
  <2>7. f[m] = F[m][f[m - 1]]
    BY <1>4, <1>6, <2>6
  <2> HIDE DEF f
  <2>8. Repeats(F, f, s, m)
    <3>1. f[0] = s
      BY <1>4, <1>6, <2>2, <2>6 DEF Repeats
    <3>2. ASSUME NEW i \in 1 .. m - 1
          PROVE  f[i] = F[i][f[i - 1]]
      <4>1. i \in 0 .. m - 1 /\ i - 1 \in 0 .. m - 1
        BY <1>4
      <4>2. f[i] = g[i] /\ f[i - 1] = g[i - 1]
        BY <2>6, <4>1
      <4> QED BY <2>2, <4>2 DEF Repeats
    <3>3. \A i \in 1 .. m : i \in 1 .. m - 1 \/ i = m
      BY <1>4, <1>6
    <3> QED BY <2>7, <3>1, <3>2, <3>3 DEF Repeats
  <2> QED BY <1>4, <2>5, <2>8
<1> QED BY <1>4, <1>5, <1>6

-----------------------------------------------------------------------------
(* Lists that share their "next" fields: those of the objects of O, with   *)
(* heads in H, ended by nil. c is the first object of every list, n what   *)
(* follows an object, h the list an object is in (nil: in none), r a       *)
(* number that falls along each list, to 0 from B. Nothing is said of the  *)
(* next field of an object that is in no list.                             *)

LinkTypes(O, H, nil, c, n, h, r, B) ==
    /\ c \in [H -> O \cup {nil}] /\ n \in [O -> O \cup {nil}]
    /\ h \in [O -> H \cup {nil}] /\ B \in Nat /\ r \in [O -> 0 .. B]
FirstIsIn(H, nil, c, h) == \A l \in H : c[l] # nil => h[c[l]] = l
NextIsIn(O, nil, c, n, h, r) ==
    \A x \in O : h[x] # nil /\ n[x] # nil
                    => h[n[x]] = h[x] /\ r[n[x]] < r[x] /\ n[x] # c[h[x]]
IsReached(O, nil, c, n, h) ==
    \A x \in O : h[x] # nil => \/ x = c[h[x]]
                                      \/ \E y \in O : h[y] = h[x] /\ n[y] = x
OneLink(O, nil, n, h) ==
    \A x, y \in O : h[x] # nil /\ h[y] # nil /\ n[x] = n[y] /\ n[x] # nil => x = y

Linked(O, H, nil, c, n, h, r, B) ==
    /\ LinkTypes(O, H, nil, c, n, h, r, B) /\ FirstIsIn(H, nil, c, h) /\ NextIsIn(O, nil, c, n, h, r)
    /\ IsReached(O, nil, c, n, h) /\ OneLink(O, nil, n, h)

\* An object that is in no list becomes the first of one.
LEMMA ChainPush ==
    ASSUME NEW O, NEW H, NEW nil, nil \notin O \cup H,
           NEW c, NEW n, NEW h, NEW r, NEW B, Linked(O, H, nil, c, n, h, r, B),
           NEW x \in O, h[x] = nil, NEW l \in H
    PROVE  Linked(O, H, nil, [c EXCEPT ![l] = x], [n EXCEPT ![x] = c[l]],
                 [h EXCEPT ![x] = l], [r EXCEPT ![x] = B + 1], B + 1)
<1> DEFINE cc == [c EXCEPT ![l] = x]
           nn == [n EXCEPT ![x] = c[l]]
           hh == [h EXCEPT ![x] = l]
           rr == [r EXCEPT ![x] = B + 1]
<1> SUFFICES Linked(O, H, nil, cc, nn, hh, rr, B + 1)
  OBVIOUS
<1> USE DEF Linked, LinkTypes
<1>0. l # nil /\ x # nil /\ x \in O \cup {nil} /\ c[l] \in O \cup {nil} /\ c[l] # x
  BY DEF FirstIsIn
<1>1. LinkTypes(O, H, nil, cc, nn, hh, rr, B + 1)
  BY <1>0
<1>2. /\ \A k \in H : cc[k] = IF k = l THEN x ELSE c[k]
      /\ \A y \in O : nn[y] = IF y = x THEN c[l] ELSE n[y]
      /\ \A y \in O : hh[y] = IF y = x THEN l ELSE h[y]
      /\ \A y \in O : rr[y] = IF y = x THEN B + 1 ELSE r[y]
  OBVIOUS
<1>t. /\ \A y \in O : n[y] \in O \cup {nil} /\ h[y] \in H \cup {nil} /\ r[y] \in 0 .. B
      /\ \A k \in H : c[k] \in O \cup {nil}
      /\ B \in Nat
  OBVIOUS
<1> HIDE DEF cc, nn, hh, rr, LinkTypes
<1>3. FirstIsIn(H, nil, cc, hh)
  <2> SUFFICES ASSUME NEW k \in H, cc[k] # nil
               PROVE  hh[cc[k]] = k
    BY DEF FirstIsIn
  <2>1. CASE k = l
    BY <2>1, <1>2
  <2>2. CASE k # l
    <3>1. cc[k] = c[k] /\ c[k] \in O /\ h[c[k]] = k /\ k # nil
      BY <2>2, <1>0, <1>2, <1>t DEF FirstIsIn
    <3> QED BY <3>1, <1>2
  <2> QED BY <2>1, <2>2
<1>4. NextIsIn(O, nil, cc, nn, hh, rr)
  <2> SUFFICES ASSUME NEW y \in O, hh[y] # nil, nn[y] # nil
               PROVE  hh[nn[y]] = hh[y] /\ rr[nn[y]] < rr[y] /\ nn[y] # cc[hh[y]]
    BY DEF NextIsIn
  <2>1. CASE y = x
    <3>1. nn[y] = c[l] /\ hh[y] = l /\ c[l] \in O /\ h[c[l]] = l /\ rr[y] = B + 1 /\ cc[hh[y]] = x
      BY <2>1, <1>0, <1>2, <1>t DEF FirstIsIn
    <3>2. hh[c[l]] = l /\ rr[c[l]] = r[c[l]]
      BY <1>0, <1>2, <3>1
    <3> QED BY <1>0, <1>t, <3>1, <3>2
  <2>2. CASE y # x
    <3>1. nn[y] = n[y] /\ hh[y] = h[y] /\ n[y] \in O /\ h[y] # nil
      BY <2>2, <1>2, <1>t
    <3>2. h[n[y]] = h[y] /\ r[n[y]] < r[y] /\ n[y] # c[h[y]]
      BY <3>1 DEF NextIsIn
    <3>3. n[y] # x /\ h[y] \in H
      BY <3>1, <3>2, <1>t
    <3> QED BY <2>2, <1>2, <3>1, <3>2, <3>3
  <2> QED BY <2>1, <2>2
<1>5. IsReached(O, nil, cc, nn, hh)
  <2> SUFFICES ASSUME NEW y \in O, hh[y] # nil
               PROVE  y = cc[hh[y]] \/ \E z \in O : hh[z] = hh[y] /\ nn[z] = y
    BY DEF IsReached
  <2>1. CASE y = x
    BY <2>1, <1>2
  <2>2. CASE y # x /\ y = c[l] /\ h[y] = l
    BY <2>2, <1>2
  <2>3. CASE y # x /\ ~(y = c[l] /\ h[y] = l)
    <3>1. hh[y] = h[y] /\ h[y] # nil /\ h[y] \in H
      BY <2>3, <1>2, <1>t
    <3>2. y = c[h[y]] \/ \E z \in O : h[z] = h[y] /\ n[z] = y
      BY <3>1 DEF IsReached
    <3>3. CASE y = c[h[y]]
      BY <2>3, <3>1, <3>3, <1>2
    <3>4. ASSUME NEW z \in O, h[z] = h[y], n[z] = y
          PROVE  hh[z] = hh[y] /\ nn[z] = y
      BY <3>1, <3>4, <1>2
    <3> QED BY <3>2, <3>3, <3>4
  <2> QED BY <2>1, <2>2, <2>3
<1>6. OneLink(O, nil, nn, hh)
  <2> SUFFICES ASSUME NEW y \in O, NEW z \in O, hh[y] # nil, hh[z] # nil,
                      nn[y] = nn[z], nn[y] # nil, y # z
               PROVE  FALSE
    BY DEF OneLink
  <2>1. \A w \in O : w # x /\ hh[w] # nil => nn[w] # c[l] \/ c[l] = nil
    <3> SUFFICES ASSUME NEW w \in O, w # x, hh[w] # nil, nn[w] = c[l], c[l] # nil
                 PROVE  FALSE
      OBVIOUS
    <3>1. n[w] = c[l] /\ h[w] # nil
      BY <1>2
    <3>2. h[n[w]] = h[w] /\ n[w] # c[h[w]]
      BY <3>1 DEF NextIsIn
    <3>3. h[c[l]] = l
      BY DEF FirstIsIn
    <3> QED BY <3>1, <3>2, <3>3
  <2>2. y # x /\ z # x
    BY <2>1, <1>2
  <2> QED BY <2>2, <1>2 DEF OneLink
<1> QED BY <1>1, <1>3, <1>4, <1>5, <1>6

Bypass(O, H, nil, c, n, h, x, cc, nn) ==
    /\ \A l \in H : cc[l] = IF c[l] = x THEN n[x] ELSE c[l]
    /\ \A y \in O : y # x /\ h[y] # nil => nn[y] = IF n[y] = x THEN n[x] ELSE n[y]

\* The same, without an object: what led to it leads to what was after it.
LEMMA ChainWithout ==
    ASSUME NEW O, NEW H, NEW nil, nil \notin O \cup H,
           NEW c, NEW n, NEW h, NEW r, NEW B, Linked(O, H, nil, c, n, h, r, B), NEW x \in O,
           NEW cc \in [H -> O \cup {nil}], NEW nn \in [O -> O \cup {nil}],
           Bypass(O, H, nil, c, n, h, x, cc, nn)
    PROVE  Linked(O, H, nil, cc, nn, [h EXCEPT ![x] = nil], r, B)
<1> DEFINE hh == [h EXCEPT ![x] = nil]
<1> SUFFICES Linked(O, H, nil, cc, nn, hh, r, B)
  OBVIOUS
<1>b. /\ \A l \in H : cc[l] = IF c[l] = x THEN n[x] ELSE c[l]
      /\ \A y \in O : y # x /\ h[y] # nil => nn[y] = IF n[y] = x THEN n[x] ELSE n[y]
  BY DEF Bypass
<1> USE <1>b
<1>1. LinkTypes(O, H, nil, cc, nn, hh, r, B)
  BY DEF Linked, LinkTypes
<1>2. /\ \A y \in O : n[y] \in O \cup {nil} /\ h[y] \in H \cup {nil} /\ r[y] \in 0 .. B
      /\ \A y \in O : hh[y] = IF y = x THEN nil ELSE h[y]
      /\ \A l \in H : c[l] \in O \cup {nil} /\ l # nil
      /\ B \in Nat /\ x # nil
  <2>1. LinkTypes(O, H, nil, c, n, h, r, B)
    BY DEF Linked
  <2> QED BY <2>1 DEF LinkTypes
<1>3. FirstIsIn(H, nil, c, h) /\ NextIsIn(O, nil, c, n, h, r) /\ IsReached(O, nil, c, n, h) /\ OneLink(O, nil, n, h)
  BY DEF Linked
<1> HIDE DEF hh
\* What is after x, where x is in a list.
<1>4. n[x] # nil /\ h[x] # nil
      => h[n[x]] = h[x] /\ n[x] \in O /\ n[x] # x /\ r[n[x]] < r[x] /\ n[x] # c[h[x]]
  <2>1. ASSUME n[x] # nil, h[x] # nil
        PROVE  h[n[x]] = h[x] /\ n[x] \in O /\ r[n[x]] < r[x] /\ n[x] # c[h[x]]
    BY <2>1, <1>2, <1>3 DEF NextIsIn
  <2>2. r[x] \in Int
    BY <1>2
  <2> QED BY <2>1, <2>2
<1>5. FirstIsIn(H, nil, cc, hh)
  <2> SUFFICES ASSUME NEW l \in H, cc[l] # nil
               PROVE  hh[cc[l]] = l
    BY DEF FirstIsIn
  <2>1. CASE c[l] = x
    <3>1. h[x] = l /\ cc[l] = n[x]
      BY <2>1, <1>2, <1>3 DEF FirstIsIn
    <3> QED BY <3>1, <1>2, <1>4
  <2>2. CASE c[l] # x
    <3>1. cc[l] = c[l] /\ c[l] \in O /\ h[c[l]] = l
      BY <2>2, <1>2, <1>3 DEF FirstIsIn
    <3> QED BY <2>2, <3>1, <1>2
  <2> QED BY <2>1, <2>2
<1>6. ASSUME NEW y \in O, hh[y] # nil
      PROVE  /\ y # x /\ hh[y] = h[y] /\ h[y] \in H
             /\ nn[y] = IF n[y] = x THEN n[x] ELSE n[y]
             /\ cc[h[y]] = IF c[h[y]] = x THEN n[x] ELSE c[h[y]]
  BY <1>2, <1>6
<1>7. NextIsIn(O, nil, cc, nn, hh, r)
  <2> SUFFICES ASSUME NEW y \in O, hh[y] # nil, nn[y] # nil
               PROVE  hh[nn[y]] = hh[y] /\ r[nn[y]] < r[y] /\ nn[y] # cc[hh[y]]
    BY DEF NextIsIn
  <2>1. /\ y # x /\ hh[y] = h[y] /\ h[y] \in H
        /\ nn[y] = IF n[y] = x THEN n[x] ELSE n[y]
        /\ cc[h[y]] = IF c[h[y]] = x THEN n[x] ELSE c[h[y]]
    BY <1>6
  <2>2. CASE n[y] = x
    <3>1. h[x] = h[y] /\ r[x] < r[y] /\ x # c[h[y]] /\ nn[y] = n[x] /\ h[y] # nil
      BY <2>1, <2>2, <1>2, <1>3 DEF NextIsIn
    <3>2. h[n[x]] = h[x] /\ n[x] \in O /\ n[x] # x /\ r[n[x]] < r[x] /\ n[x] # c[h[x]]
      BY <3>1, <1>4
    <3> QED BY <2>1, <3>1, <3>2, <1>2
  <2>3. CASE n[y] # x
    <3>1. h[n[y]] = h[y] /\ r[n[y]] < r[y] /\ n[y] # c[h[y]] /\ nn[y] = n[y] /\ n[y] \in O /\ h[y] # nil
      BY <2>1, <2>3, <1>2, <1>3 DEF NextIsIn
    <3>2. n[y] # cc[h[y]]
      <4>1. SUFFICES ASSUME c[h[y]] = x, n[y] = n[x] PROVE FALSE
        BY <3>1, <2>1
      <4>2. h[x] = h[y]
        BY <4>1, <2>1, <1>2, <1>3 DEF FirstIsIn
      <4> QED BY <4>1, <4>2, <3>1, <2>1, <1>2, <1>3 DEF OneLink
    <3> QED BY <2>1, <2>3, <3>1, <3>2, <1>2
  <2> QED BY <2>2, <2>3
<1>8. IsReached(O, nil, cc, nn, hh)
  <2> SUFFICES ASSUME NEW y \in O, hh[y] # nil
               PROVE  y = cc[hh[y]] \/ \E z \in O : hh[z] = hh[y] /\ nn[z] = y
    BY DEF IsReached
  <2>1. /\ y # x /\ hh[y] = h[y] /\ h[y] \in H /\ h[y] # nil
        /\ cc[h[y]] = IF c[h[y]] = x THEN n[x] ELSE c[h[y]]
    BY <1>6, <1>2
  <2>2. y = c[h[y]] \/ \E z \in O : h[z] = h[y] /\ n[z] = y
    BY <2>1, <1>3 DEF IsReached
  <2>3. CASE y = c[h[y]]
    BY <2>1, <2>3
  <2>4. CASE h[x] = h[y] /\ n[x] = y
    <3>1. x = c[h[x]] \/ \E z \in O : h[z] = h[x] /\ n[z] = x
      BY <2>1, <2>4, <1>3 DEF IsReached
    <3>2. CASE x = c[h[x]]
      BY <2>1, <2>4, <3>2
    <3>3. ASSUME NEW z \in O, h[z] = h[x], n[z] = x
          PROVE  hh[z] = hh[y] /\ nn[z] = y
      <4>1. z # x
        BY <3>3, <2>1, <2>4
      <4> QED BY <4>1, <3>3, <2>1, <2>4, <1>2
    <3> QED BY <3>1, <3>2, <3>3
  <2>5. ASSUME NEW z \in O, h[z] = h[y], n[z] = y, z # x
        PROVE  hh[z] = hh[y] /\ nn[z] = y
    BY <2>1, <2>5, <1>2
  <2> QED BY <2>2, <2>3, <2>4, <2>5
<1>9. OneLink(O, nil, nn, hh)
  <2> SUFFICES ASSUME NEW y \in O, NEW z \in O, hh[y] # nil, hh[z] # nil,
                      nn[y] = nn[z], nn[y] # nil
               PROVE  y = z
    BY DEF OneLink
  <2>1. /\ y # x /\ h[y] # nil /\ nn[y] = IF n[y] = x THEN n[x] ELSE n[y]
        /\ z # x /\ h[z] # nil /\ nn[z] = IF n[z] = x THEN n[x] ELSE n[z]
    BY <1>6, <1>2
  <2>2. ASSUME NEW w \in O, h[w] # nil, n[w] = x
        PROVE  h[x] # nil
    BY <2>2, <1>2, <1>3 DEF NextIsIn
  <2>3. CASE n[y] = n[z]
    BY <2>1, <2>3, <1>2, <1>3 DEF OneLink
  <2>4. CASE n[y] = x /\ n[z] # x
    <3>1. n[z] = n[x] /\ h[x] # nil /\ n[x] # nil
      BY <2>1, <2>2, <2>4
    <3> QED BY <2>1, <3>1, <1>3 DEF OneLink
  <2>5. CASE n[y] # x /\ n[z] = x
    <3>1. n[y] = n[x] /\ h[x] # nil /\ n[x] # nil
      BY <2>1, <2>2, <2>5
    <3> QED BY <2>1, <3>1, <1>3 DEF OneLink
  <2>6. CASE n[y] # x /\ n[z] # x
    BY <2>1, <2>3, <2>6
  <2> QED BY <2>3, <2>4, <2>5, <2>6
<1> QED BY <1>1, <1>5, <1>7, <1>8, <1>9 DEF Linked

\* The same, without a whole list.
Emptied(O, nil, h, l) == [x \in O |-> IF h[x] = l THEN nil ELSE h[x]]

LEMMA ChainTake ==
    ASSUME NEW O, NEW H, NEW nil, nil \notin O \cup H,
           NEW c, NEW n, NEW h, NEW r, NEW B, Linked(O, H, nil, c, n, h, r, B), NEW l \in H
    PROVE  Linked(O, H, nil, [c EXCEPT ![l] = nil], n, Emptied(O, nil, h, l), r, B)
<1> DEFINE cc == [c EXCEPT ![l] = nil]
           hh == [x \in O |-> IF h[x] = l THEN nil ELSE h[x]]
<1> SUFFICES Linked(O, H, nil, cc, n, hh, r, B)
  BY DEF Emptied
<1>1. LinkTypes(O, H, nil, cc, n, hh, r, B)
  BY DEF Linked, LinkTypes
<1>2. /\ \A y \in O : n[y] \in O \cup {nil} /\ h[y] \in H \cup {nil}
      /\ \A y \in O : hh[y] = IF h[y] = l THEN nil ELSE h[y]
      /\ \A k \in H : cc[k] = IF k = l THEN nil ELSE c[k]
      /\ \A k \in H : c[k] \in O \cup {nil} /\ k # nil
  <2>1. LinkTypes(O, H, nil, c, n, h, r, B)
    BY DEF Linked
  <2> QED BY <2>1 DEF LinkTypes
<1>3. FirstIsIn(H, nil, c, h) /\ NextIsIn(O, nil, c, n, h, r) /\ IsReached(O, nil, c, n, h) /\ OneLink(O, nil, n, h)
  BY DEF Linked
<1> HIDE DEF hh, cc
<1>4. FirstIsIn(H, nil, cc, hh)
  <2> SUFFICES ASSUME NEW k \in H, cc[k] # nil
               PROVE  hh[cc[k]] = k
    BY DEF FirstIsIn
  <2>1. k # l /\ cc[k] = c[k] /\ c[k] \in O /\ h[c[k]] = k
    BY <1>2, <1>3 DEF FirstIsIn
  <2> QED BY <2>1, <1>2
<1>5. NextIsIn(O, nil, cc, n, hh, r)
  <2> SUFFICES ASSUME NEW y \in O, hh[y] # nil, n[y] # nil
               PROVE  hh[n[y]] = hh[y] /\ r[n[y]] < r[y] /\ n[y] # cc[hh[y]]
    BY DEF NextIsIn
  <2>1. n[y] \in O /\ hh[y] = h[y] /\ h[y] # l /\ h[y] \in H
    BY <1>2
  <2>2. h[n[y]] = h[y] /\ r[n[y]] < r[y] /\ n[y] # c[h[y]]
    BY <2>1, <1>2, <1>3 DEF NextIsIn
  <2> QED BY <2>1, <2>2, <1>2
<1>6. IsReached(O, nil, cc, n, hh)
  BY <1>2, <1>3 DEF IsReached
<1>7. OneLink(O, nil, n, hh)
  BY <1>2, <1>3 DEF OneLink
<1> QED BY <1>1, <1>4, <1>5, <1>6, <1>7 DEF Linked

Nexts(O, nil, n) == n \in [O -> O \cup {nil}]

\* A walk of N steps.
IsWalk(O, nil, n, N, L) ==
    /\ L \in [0 .. N -> O \cup {nil}]
    /\ \A i \in 1 .. N : L[i] = IF L[i - 1] = nil THEN nil ELSE n[L[i - 1]]

WalkSteps(nil, n, N, K) == \A i \in 1 .. N : K[i] = IF K[i - 1] = nil THEN nil ELSE n[K[i - 1]]

LEMMA WalkExists ==
    ASSUME NEW O, NEW nil, NEW n, Nexts(O, nil, n), NEW N \in Nat
    PROVE  \A first \in O \cup {nil} : \E L : IsWalk(O, nil, n, N, L) /\ L[0] = first
<1> TAKE first \in O \cup {nil}
<1> DEFINE S == O \cup {nil}
           F == [i \in 1 .. N |-> [x \in S |-> IF x = nil THEN nil ELSE n[x]]]
<1>1. F \in [1 .. N -> [S -> S]] /\ N \in 0 .. N
  BY DEF Nexts
<1>2. PICK f \in [0 .. N -> S] : Repeats(F, f, first, N)
  <2> HIDE DEF F, S
  <2> QED BY <1>1, RepeatsExists DEF S
<1>3. \A i \in 1 .. N : f[i] = IF f[i - 1] = nil THEN nil ELSE n[f[i - 1]]
  <2> TAKE i \in 1 .. N
  <2>1. i - 1 \in 0 .. N /\ f[i - 1] \in S
    BY <1>2
  <2>2. f[i] = F[i][f[i - 1]]
    BY <1>2 DEF Repeats
  <2> QED BY <2>1, <2>2
<1> QED BY <1>2, <1>3 DEF IsWalk, Repeats

LEMMA WalkUnique ==
    ASSUME NEW O, NEW nil, NEW n, NEW N \in Nat, NEW L, NEW K,
           IsWalk(O, nil, n, N, L), WalkSteps(nil, n, N, K), K[0] = L[0]
    PROVE  \A i \in 0 .. N : K[i] = L[i]
<1> DEFINE Bad == {i \in 0 .. N : K[i] # L[i]}
<1>1. SUFFICES ASSUME Bad # {} PROVE FALSE
  OBVIOUS
<1>2. PICK m \in Bad : \A k \in Bad : m <= k
  <2>1. Bad \in SUBSET Nat
    OBVIOUS
  <2> QED BY <1>1, <2>1, LeastNat, Zenon
<1>3. m \in 1 .. N /\ m - 1 \in 0 .. N /\ m - 1 \notin Bad
  BY <1>2
<1> QED BY <1>2, <1>3 DEF IsWalk, WalkSteps

\* A walk along a list meets objects of the list only, each once, and ends.
LEMMA WalkOfChain ==
    ASSUME NEW O, NEW H, NEW nil, nil \notin O \cup H,
           NEW c, NEW n, NEW h, NEW r, NEW B, Linked(O, H, nil, c, n, h, r, B), NEW l \in H,
           NEW N \in Nat, NEW L, IsWalk(O, nil, n, N, L), L[0] = c[l]
    PROVE  /\ \A i \in 0 .. N : L[i] # nil
                 => L[i] \in O /\ h[L[i]] = l
           /\ \A i, j \in 0 .. N : i < j /\ L[j] # nil
                 => /\ L[i] # nil
                    /\ r[L[j]] < r[L[i]]
<1>0. N \in Nat /\ c[l] \in O \cup {nil} /\ B \in Nat /\ r \in [O -> 0 .. B]
  BY DEF Linked, LinkTypes
<1>1. /\ L \in [0 .. N -> O \cup {nil}] /\ L[0] = c[l]
      /\ \A i \in 1 .. N : L[i] = IF L[i - 1] = nil THEN nil ELSE n[L[i - 1]]
  BY DEF IsWalk
<1>c. FirstIsIn(H, nil, c, h) /\ NextIsIn(O, nil, c, n, h, r) /\ l # nil
  BY DEF Linked
<1>r. \A i \in 0 .. N : L[i] # nil => L[i] \in O
  BY <1>1
<1>2. \A i \in 0 .. N : L[i] # nil => h[L[i]] = l
  <2> DEFINE Bad == {i \in 0 .. N : ~ (L[i] # nil => h[L[i]] = l)}
  <2>1. SUFFICES ASSUME Bad # {} PROVE FALSE
    OBVIOUS
  <2>2. PICK m \in Bad : \A k \in Bad : m <= k
    <3>1. Bad \in SUBSET Nat
      OBVIOUS
    <3> QED BY <2>1, <3>1, LeastNat, Zenon
  <2>3. L[m] # nil /\ h[L[m]] # l /\ m \in 0 .. N
    BY <2>2
  <2>4. m # 0
    BY <2>3, <1>1, <1>c DEF FirstIsIn
  <2>5. m \in 1 .. N /\ m - 1 \in 0 .. N /\ m - 1 \notin Bad
    <3>1. m \in 1 .. N /\ m - 1 \in 0 .. N /\ ~(m <= m - 1)
      BY <2>3, <2>4, <1>0
    <3> QED BY <2>2, <3>1
  <2>6. L[m - 1] # nil /\ L[m] = n[L[m - 1]] /\ h[L[m - 1]] = l /\ L[m - 1] \in O
    BY <2>3, <2>5, <1>1, <1>r
  <2> QED BY <2>3, <2>6, <1>c DEF NextIsIn
<1>3. ASSUME NEW i \in 1 .. N, L[i] # nil
      PROVE  L[i - 1] # nil /\ r[L[i]] < r[L[i - 1]]
  <2>1. i - 1 \in 0 .. N /\ i \in 0 .. N
    BY <1>3, <1>0
  <2>2. L[i - 1] # nil /\ L[i] = n[L[i - 1]]
    BY <1>1, <1>3
  <2>3. h[L[i - 1]] = l /\ L[i - 1] \in O
    BY <2>1, <2>2, <1>2, <1>r
  <2> QED BY <2>2, <2>3, <1>3, <1>c DEF NextIsIn
<1>4. ASSUME NEW i \in 0 .. N
      PROVE  \A j \in 0 .. N : i < j /\ L[j] # nil
                 => L[i] # nil /\ r[L[j]] < r[L[i]]
  <2> DEFINE Bad == {j \in 0 .. N : ~ (i < j /\ L[j] # nil
                                             => L[i] # nil /\ r[L[j]] < r[L[i]])}
  <2>1. SUFFICES ASSUME Bad # {} PROVE FALSE
    OBVIOUS
  <2>2. PICK m \in Bad : \A k \in Bad : m <= k
    <3>1. Bad \in SUBSET Nat
      OBVIOUS
    <3> QED BY <2>1, <3>1, LeastNat, Zenon
  <2>3. m \in 0 .. N /\ i < m /\ L[m] # nil /\ ~ (L[i] # nil /\ r[L[m]] < r[L[i]])
    BY <2>2
  <2>4. m \in 1 .. N /\ m - 1 \in 0 .. N /\ m - 1 \notin Bad
    <3>1. m \in 1 .. N /\ m - 1 \in 0 .. N /\ ~(m <= m - 1)
      BY <2>3, <1>0
    <3> QED BY <2>2, <3>1
  <2>5. L[m - 1] # nil /\ r[L[m]] < r[L[m - 1]]
    BY <1>3, <2>3, <2>4
  <2>6. i = m - 1 \/ i < m - 1
    BY <2>3
  <2>7. CASE i < m - 1
    <3>1. L[i] # nil /\ r[L[m - 1]] < r[L[i]]
      BY <2>4, <2>5, <2>7
    <3>2. r[L[m]] \in Int /\ r[L[m - 1]] \in Int /\ r[L[i]] \in Int
      BY <1>0, <1>r, <2>3, <2>4, <2>5, <3>1
    <3> QED BY <2>3, <2>5, <3>1, <3>2
  <2> QED BY <2>3, <2>5, <2>6, <2>7
<1> QED BY <1>2, <1>4, <1>r

\* M is what is in list l.
HoldsOf(O, h, l, M) == M = {x \in O : h[x] = l}

\* A list ends, and its members are the objects that say so.
LEMMA ChainMembers ==
    ASSUME NEW O, NEW H, NEW nil, nil \notin O \cup H,
           NEW c, NEW n, NEW h, NEW r, NEW B, Linked(O, H, nil, c, n, h, r, B), NEW l \in H,
           IsFiniteSet(O), NEW N \in Nat, Cardinality(O) <= N, NEW L, IsWalk(O, nil, n, N, L), L[0] = c[l]
    PROVE  L[N] = nil /\ HoldsOf(O, h, l, {L[i] : i \in 0 .. N} \ {nil})
<1>0. N \in Nat /\ c[l] \in O \cup {nil} /\ B \in Nat /\ r \in [O -> 0 .. B]
  BY DEF Linked, LinkTypes
<1>1. /\ L \in [0 .. N -> O \cup {nil}] /\ L[0] = c[l]
      /\ \A i \in 1 .. N : L[i] = IF L[i - 1] = nil THEN nil ELSE n[L[i - 1]]
  BY DEF IsWalk
<1>2. /\ \A i \in 0 .. N : L[i] # nil => L[i] \in O /\ h[L[i]] = l
      /\ \A i, j \in 0 .. N : i < j /\ L[j] # nil
                 => L[i] # nil /\ r[L[j]] < r[L[i]]
  BY WalkOfChain
<1>c. IsReached(O, nil, c, n, h) /\ NextIsIn(O, nil, c, n, h, r) /\ l # nil
  BY DEF Linked
<1>5. L[N] = nil
  <2>1. SUFFICES ASSUME L[N] # nil PROVE FALSE
    OBVIOUS
  <2>2. \A i \in 0 .. N : L[i] # nil /\ L[i] \in O
    <3> SUFFICES ASSUME NEW i \in 0 .. N PROVE L[i] # nil
      BY <1>2
    <3>1. (i = N \/ i < N) /\ N \in 0 .. N
      BY <1>0
    <3> QED BY <3>1, <2>1, <1>0, <1>2
  <2>3. L \in [0 .. N -> O]
    BY <1>1, <2>2
  <2>4. IsFiniteSet(0 .. N) /\ Cardinality(0 .. N) = N + 1
    BY <1>0, FS_Interval
  <2>5. PICK i \in 0 .. N, j \in 0 .. N : i # j /\ L[i] = L[j]
    <3>1. Cardinality(O) < Cardinality(0 .. N)
      BY <1>0, <2>4, FS_CardinalityType
    <3> QED BY <2>3, <2>4, <3>1, FS_PigeonHole
  <2>6. r[L[i]] \in Int
    BY <1>0, <2>2
  <2>7. i < j \/ j < i
    BY <2>5
  <2> QED BY <1>2, <2>2, <2>5, <2>6, <2>7
<1>6. ASSUME NEW x \in O, h[x] = l
      PROVE  \E i \in 0 .. N : L[i] = x
  <2> DEFINE Out == {y \in O : h[y] = l /\ \A i \in 0 .. N : L[i] # y}
             T == {B - r[y] : y \in Out}
  <2>1. SUFFICES ASSUME Out # {} PROVE FALSE
    BY <1>6
  <2>2. T \in SUBSET Nat /\ T # {}
    BY <2>1, <1>0
  <2>3. PICK m \in T : \A k \in T : m <= k
    BY <2>2, LeastNat, Zenon
  <2>4. PICK y \in Out : m = B - r[y]
    BY <2>3
  <2>5. y # L[0] /\ h[y] = l /\ y \in O
    BY <2>4, <1>0
  <2>6. PICK z \in O : h[z] = l /\ n[z] = y
    BY <2>5, <1>1, <1>c DEF IsReached
  <2>7. r[y] < r[z]
    BY <2>5, <2>6, <1>c DEF NextIsIn
  <2>8. z \notin Out
    <3>1. SUFFICES ASSUME z \in Out PROVE FALSE
      OBVIOUS
    <3>2. B - r[z] \in T
      BY <3>1
    <3>3. m <= B - r[z]
      BY <2>3, <3>2
    <3> QED BY <2>4, <2>5, <2>7, <3>3, <1>0
  <2>9. PICK i \in 0 .. N : L[i] = z
    BY <2>6, <2>8
  <2>10. i # N /\ i + 1 \in 1 .. N /\ (i + 1) - 1 = i
    BY <2>9, <1>5, <1>0
  <2>11. L[i + 1] = y
    BY <2>9, <2>10, <2>6, <1>1
  <2>12. i + 1 \in 0 .. N
    BY <2>10
  <2> QED BY <2>4, <2>11, <2>12
<1>7. {L[i] : i \in 0 .. N} \ {nil} = {x \in O : h[x] = l}
  BY <1>2, <1>6
<1> QED BY <1>5, <1>7 DEF HoldsOf

\* A list has one end, and an object is in it only if it has a first one.
OneEnd(O, nil, n, h, l) ==
    \A y, z \in O : h[y] = l /\ n[y] = nil /\ h[z] = l /\ n[z] = nil
                         => y = z
HasEnds(O, nil, n, c, h, l) ==
    \A x \in O : h[x] = l
        => c[l] # nil /\ \E y \in O : h[y] = l /\ n[y] = nil

LEMMA ChainEnd ==
    ASSUME NEW O, NEW H, NEW nil, nil \notin O \cup H,
           NEW c, NEW n, NEW h, NEW r, NEW B, Linked(O, H, nil, c, n, h, r, B), NEW l \in H,
           IsFiniteSet(O)
    PROVE  OneEnd(O, nil, n, h, l) /\ HasEnds(O, nil, n, c, h, l)
<1>0. c[l] \in O \cup {nil} /\ B \in Nat /\ r \in [O -> 0 .. B] /\ n \in [O -> O \cup {nil}]
  BY DEF Linked, LinkTypes
<1>N. PICK N \in Nat : Cardinality(O) <= N
  <2>1. Cardinality(O) \in Nat /\ Cardinality(O) <= Cardinality(O)
    BY FS_CardinalityType
  <2> QED BY <2>1
<1>w. PICK L : IsWalk(O, nil, n, N, L) /\ L[0] = c[l]
  <2>1. Nexts(O, nil, n)
    BY <1>0 DEF Nexts
  <2>2. \A first \in O \cup {nil} : \E L : IsWalk(O, nil, n, N, L) /\ L[0] = first
    BY <2>1, WalkExists
  <2> QED BY <1>0, <2>2, Zenon
<1>1. /\ L \in [0 .. N -> O \cup {nil}] /\ L[0] = c[l]
      /\ \A i \in 1 .. N : L[i] = IF L[i - 1] = nil THEN nil ELSE n[L[i - 1]]
  BY <1>w DEF IsWalk
<1>2. /\ \A i \in 0 .. N : L[i] # nil => L[i] \in O /\ h[L[i]] = l
      /\ \A i, j \in 0 .. N : i < j /\ L[j] # nil
                 => L[i] # nil /\ r[L[j]] < r[L[i]]
  BY <1>N, <1>w, WalkOfChain
<1>3. \A y \in O : h[y] = l => \E i \in 0 .. N : L[i] = y
  <2>1. HoldsOf(O, h, l, {L[i] : i \in 0 .. N} \ {nil})
    BY <1>N, <1>w, ChainMembers
  <2> QED BY <2>1 DEF HoldsOf
<1>4. ASSUME NEW y \in O, NEW z \in O, h[y] = l, h[z] = l, n[y] = nil, n[z] = nil
      PROVE  y = z
  <2>1. PICK i \in 0 .. N : L[i] = y
    BY <1>3, <1>4
  <2>2. PICK j \in 0 .. N : L[j] = z
    BY <1>3, <1>4
  <2>3. \A a, b \in 0 .. N : a < b /\ L[a] # nil /\ n[L[a]] = nil => L[b] = nil
    <3> SUFFICES ASSUME NEW a \in 0 .. N, NEW b \in 0 .. N, a < b, L[a] # nil,
                        n[L[a]] = nil, L[b] # nil
                 PROVE  FALSE
      OBVIOUS
    <3>1. a + 1 \in 1 .. N /\ (a + 1) - 1 = a
      BY <1>N
    <3>2. L[a + 1] = nil
      BY <3>1, <1>1
    <3>3. a + 1 \in 0 .. N /\ (a + 1 = b \/ a + 1 < b)
      BY <3>1
    <3> QED BY <3>2, <3>3, <1>2
  <2>4. i = j \/ i < j \/ j < i
    BY <2>1, <2>2
  <2> QED BY <2>1, <2>2, <2>3, <2>4, <1>4
<1>5. ASSUME NEW x \in O, h[x] = l
      PROVE  \E y \in O : h[y] = l /\ n[y] = nil
  <2> DEFINE T == {r[y] : y \in {z \in O : h[z] = l}}
  <2>1. T \in SUBSET Nat /\ T # {}
    BY <1>0, <1>5
  <2>2. PICK m \in T : \A k \in T : m <= k
    BY <2>1, LeastNat, Zenon
  <2>3. PICK y \in O : h[y] = l /\ m = r[y]
    BY <2>2
  <2>4. SUFFICES ASSUME n[y] # nil PROVE FALSE
    BY <2>3
  <2>5. h[n[y]] = l /\ r[n[y]] < r[y] /\ n[y] \in O
    BY <2>3, <2>4 DEF Linked, NextIsIn, LinkTypes
  <2>6. r[n[y]] \in T
    BY <2>5
  <2> QED BY <2>2, <2>3, <2>5, <2>6, <1>0
<1>6. ASSUME NEW x \in O, h[x] = l
      PROVE  c[l] # nil
  <2>1. PICK i \in 0 .. N : L[i] = x
    BY <1>3, <1>6
  <2>2. i = 0 \/ 0 < i
    BY <1>0
  <2>3. x # nil /\ 0 \in 0 .. N
    BY <1>N
  <2> QED BY <2>1, <2>2, <2>3, <1>1, <1>2
<1>7. \A x \in O : h[x] = l => c[l] # nil /\ \E y \in O : h[y] = l /\ n[y] = nil
  BY <1>5, <1>6
<1>8. \A y, z \in O : h[y] = l /\ n[y] = nil /\ h[z] = l /\ n[z] = nil
         => y = z
  BY <1>4
<1> QED BY <1>7, <1>8 DEF OneEnd, HasEnds

Turned(O, h, l, r, B) == [x \in O |-> IF h[x] = l THEN B - r[x] ELSE r[x]]
Reverses(O, nil, n, c, h, l, last, nn) ==
    /\ c[l] # nil /\ h[last] = l /\ n[last] = nil /\ nn[c[l]] = nil
    /\ \A x \in O : h[x] # l => nn[x] = n[x]
    /\ \A x \in O : h[x] = l /\ x # c[l]
                      => nn[x] \in O /\ h[nn[x]] = l /\ n[nn[x]] = x

\* The same, with one list the other way round.
LEMMA ChainReverse ==
    ASSUME NEW O, NEW H, NEW nil, nil \notin O \cup H,
           IsFiniteSet(O),
           NEW c, NEW n, NEW h, NEW r, NEW B, NEW l \in H, NEW last \in O,
           NEW nn \in [O -> O \cup {nil}],
           Linked(O, H, nil, c, n, h, r, B), Reverses(O, nil, n, c, h, l, last, nn)
    PROVE  Linked(O, H, nil, [c EXCEPT ![l] = last], nn, h, Turned(O, h, l, r, B), B)
<1> DEFINE cc == [c EXCEPT ![l] = last]
           rr == [x \in O |-> IF h[x] = l THEN B - r[x] ELSE r[x]]
<1> SUFFICES Linked(O, H, nil, cc, nn, h, rr, B)
  BY DEF Turned
<1>b. /\ c[l] # nil /\ h[last] = l /\ n[last] = nil /\ nn[c[l]] = nil
      /\ \A x \in O : h[x] # l => nn[x] = n[x]
      /\ \A x \in O : h[x] = l /\ x # c[l]
                        => nn[x] \in O /\ h[nn[x]] = l /\ n[nn[x]] = x
  BY DEF Reverses
<1> USE <1>b
<1>c. LinkTypes(O, H, nil, c, n, h, r, B) /\ FirstIsIn(H, nil, c, h) /\ NextIsIn(O, nil, c, n, h, r)
      /\ IsReached(O, nil, c, n, h) /\ OneLink(O, nil, n, h)
  BY DEF Linked
<1>1. /\ B \in Nat /\ \A x \in O : rr[x] = IF h[x] = l THEN B - r[x] ELSE r[x]
      /\ \A x \in O : r[x] \in 0 .. B /\ h[x] \in H \cup {nil}
      /\ \A x \in O : nn[x] # nil => nn[x] \in O
      /\ \A x \in O : n[x] # nil => n[x] \in O
      /\ \A k \in H : cc[k] = IF k = l THEN last ELSE c[k]
      /\ \A k \in H : c[k] # nil => c[k] \in O
      /\ l # nil
  BY <1>c DEF LinkTypes
<1>2. LinkTypes(O, H, nil, cc, nn, h, rr, B)
  <2>1. rr \in [O -> 0 .. B]
    BY <1>1
  <2> QED BY <1>c, <2>1 DEF LinkTypes
<1> HIDE DEF cc, rr
<1>3. FirstIsIn(H, nil, cc, h)
  BY <1>1, <1>c DEF FirstIsIn
<1>4. NextIsIn(O, nil, cc, nn, h, rr)
  <2> SUFFICES ASSUME NEW x \in O, h[x] # nil, nn[x] # nil
               PROVE  h[nn[x]] = h[x] /\ rr[nn[x]] < rr[x] /\ nn[x] # cc[h[x]]
    BY DEF NextIsIn
  <2>1. CASE h[x] # l
    <3>1. nn[x] = n[x] /\ h[x] \in H /\ n[x] \in O
      BY <2>1, <1>1
    <3>2. h[n[x]] = h[x] /\ r[n[x]] < r[x] /\ n[x] # c[h[x]]
      BY <3>1, <1>c DEF NextIsIn
    <3> QED BY <2>1, <3>1, <3>2, <1>1
  <2>2. CASE h[x] = l
    <3>1. nn[x] \in O /\ h[nn[x]] = l /\ n[nn[x]] = x
      BY <2>2
    <3>2. r[x] < r[nn[x]] /\ nn[x] # last
      BY <3>1, <1>c, <1>1 DEF NextIsIn
    <3> QED BY <2>2, <3>1, <3>2, <1>1
  <2> QED BY <2>1, <2>2
<1>5. IsReached(O, nil, cc, nn, h)
  <2> SUFFICES ASSUME NEW x \in O, h[x] # nil
               PROVE  x = cc[h[x]] \/ \E y \in O : h[y] = h[x] /\ nn[y] = x
    BY DEF IsReached
  <2>1. CASE h[x] # l
    <3>1. h[x] \in H /\ cc[h[x]] = c[h[x]]
      BY <2>1, <1>1
    <3>2. x = c[h[x]] \/ \E y \in O : h[y] = h[x] /\ n[y] = x
      BY <1>c DEF IsReached
    <3> QED BY <2>1, <3>1, <3>2
  <2>2. CASE h[x] = l /\ x = last
    BY <2>2, <1>1
  <2>3. CASE h[x] = l /\ x # last
    <3>1. n[x] # nil
      <4>1. OneEnd(O, nil, n, h, l) /\ HasEnds(O, nil, n, c, h, l)
        BY ChainEnd, Zenon
      <4>2. h[last] = l /\ n[last] = nil /\ last \in O
        OBVIOUS
      <4> QED BY <2>3, <4>1, <4>2 DEF OneEnd
    <3>0. PICK y \in O : y = n[x]
      BY <3>1, <1>1
    <3>2. h[y] = l /\ y # c[l]
      BY <3>0, <3>1, <2>3, <1>1, <1>c DEF NextIsIn
    <3>3. nn[y] \in O /\ h[nn[y]] = l /\ n[nn[y]] = y
      BY <3>2
    <3>4. nn[y] = x
      <4>1. h[nn[y]] # nil /\ h[x] # nil /\ n[nn[y]] = n[x]
        BY <3>0, <3>3, <2>3, <1>1
      <4> QED BY <4>1, <3>0, <3>1, <3>3, <1>c DEF OneLink
    <3> QED BY <3>2, <3>4, <2>3
  <2> QED BY <2>1, <2>2, <2>3
<1>6. OneLink(O, nil, nn, h)
  <2> SUFFICES ASSUME NEW x \in O, NEW y \in O, h[x] # nil, h[y] # nil,
                      nn[x] = nn[y], nn[x] # nil
               PROVE  x = y
    BY DEF OneLink
  <2>1. h[nn[x]] = h[x] /\ h[nn[y]] = h[y]
    BY <1>4 DEF NextIsIn
  <2>2. CASE h[x] = l
    <3>1. n[nn[x]] = x /\ n[nn[y]] = y
      BY <2>1, <2>2
    <3> QED BY <3>1
  <2>3. CASE h[x] # l
    BY <2>1, <2>3, <1>c DEF OneLink
  <2> QED BY <2>2, <2>3
<1> QED BY <1>2, <1>3, <1>4, <1>5, <1>6 DEF Linked

\* The least of the numbers of S, nil when there is none.
Least(nil, S) == IF S = {} THEN nil ELSE CHOOSE x \in S : \A y \in S : x <= y

LEMMA LeastIs ==
    ASSUME NEW S, S \in SUBSET Nat, NEW nil, nil \notin S
    PROVE  /\ Least(nil, S) \in S \cup {nil}
           /\ S = {} <=> Least(nil, S) = nil
           /\ S # {} => Least(nil, S) \in S /\ \A y \in S : Least(nil, S) <= y
<1>1. CASE S = {}
  BY <1>1 DEF Least
<1>2. CASE S # {}
  <2>1. \E x \in S : \A y \in S : x <= y
    BY <1>2, LeastNat, Zenon
  <2>2. Least(nil, S) \in S /\ \A y \in S : Least(nil, S) <= y
    BY <1>2, <2>1, Zenon DEF Least
  <2> QED BY <1>2, <2>2
<1> QED BY <1>1, <1>2

\* Lists in the order of their members, which are numbers.
InList(O, h, l) == {x \in O : h[x] = l}
LaterIn(O, h, x) == {y \in O : h[y] = h[x] /\ y > x}
Sorted(O, H, nil, c, n, h) ==
    /\ c \in [H -> O \cup {nil}] /\ n \in [O -> O \cup {nil}]
    /\ h \in [O -> H \cup {nil}]
    /\ \A l \in H : c[l] = Least(nil, InList(O, h, l))
    /\ \A x \in O : h[x] # nil => n[x] = Least(nil, LaterIn(O, h, x))

LEMMA SortedChain ==
    ASSUME NEW O, NEW H, NEW nil, nil \notin O \cup H, NEW B \in Nat, O \subseteq 0 .. B,
           NEW c, NEW n, NEW h, Sorted(O, H, nil, c, n, h)
    PROVE  \E r : Linked(O, H, nil, c, n, h, r, B)
<1> DEFINE r == [o \in O |-> B - o]
<1>0. /\ c \in [H -> O \cup {nil}] /\ n \in [O -> O \cup {nil}]
      /\ h \in [O -> H \cup {nil}]
  BY DEF Sorted
<1>1. /\ O \in SUBSET Nat /\ r \in [O -> 0 .. B]
      /\ \A o \in O : r[o] = B - o /\ o \in Nat /\ o \in Int
  OBVIOUS
<1>2. LinkTypes(O, H, nil, c, n, h, r, B)
  BY <1>0, <1>1 DEF LinkTypes
<1> HIDE DEF r
<1>3. ASSUME NEW l \in H
      PROVE  /\ c[l] # nil => c[l] \in O /\ h[c[l]] = l
             /\ \A y \in O : h[y] = l => c[l] # nil /\ c[l] <= y
  <2> DEFINE S == InList(O, h, l)
  <2>1. S \in SUBSET Nat /\ nil \notin S /\ c[l] = Least(nil, S)
    BY <1>1 DEF InList, Sorted
  <2>2. /\ S = {} <=> Least(nil, S) = nil
        /\ S # {} => Least(nil, S) \in S /\ \A y \in S : Least(nil, S) <= y
    BY <2>1, LeastIs, Zenon
  <2> QED BY <2>1, <2>2 DEF InList
<1>4. ASSUME NEW x \in O, h[x] # nil
      PROVE  /\ n[x] # nil => n[x] \in O /\ h[n[x]] = h[x] /\ n[x] > x
             /\ \A y \in O : h[y] = h[x] /\ y > x => n[x] # nil /\ n[x] <= y
  <2> DEFINE S == LaterIn(O, h, x)
  <2>1. S \in SUBSET Nat /\ nil \notin S /\ n[x] = Least(nil, S)
    BY <1>1, <1>4 DEF LaterIn, Sorted
  <2>2. /\ S = {} <=> Least(nil, S) = nil
        /\ S # {} => Least(nil, S) \in S /\ \A y \in S : Least(nil, S) <= y
    BY <2>1, LeastIs, Zenon
  <2> QED BY <2>1, <2>2 DEF LaterIn
<1>5. FirstIsIn(H, nil, c, h)
  BY <1>3 DEF FirstIsIn
<1>6. NextIsIn(O, nil, c, n, h, r)
  <2> SUFFICES ASSUME NEW x \in O, h[x] # nil, n[x] # nil
               PROVE  h[n[x]] = h[x] /\ r[n[x]] < r[x] /\ n[x] # c[h[x]]
    BY DEF NextIsIn
  <2>1. n[x] \in O /\ h[n[x]] = h[x] /\ n[x] > x
    BY <1>4
  <2>2. h[x] \in H
    BY <1>0
  <2>3. c[h[x]] # nil /\ c[h[x]] <= x /\ c[h[x]] \in O
    BY <1>3, <2>2
  <2>4. /\ n[x] \in Nat /\ x \in Nat /\ c[h[x]] \in Nat /\ B \in Nat
        /\ r[n[x]] = B - n[x] /\ r[x] = B - x
    BY <1>1, <2>1, <2>3
  <2>5. \A i, j, k \in Nat : i > j /\ k <= j => i # k
    OBVIOUS
  <2>6. \A i, j, k \in Nat : i > j => k - i < k - j
    OBVIOUS
  <2> QED BY <2>1, <2>3, <2>4, <2>5, <2>6
<1>7. IsReached(O, nil, c, n, h)
  <2> SUFFICES ASSUME NEW x \in O, h[x] # nil, x # c[h[x]]
               PROVE  \E y \in O : h[y] = h[x] /\ n[y] = x
    BY DEF IsReached
  <2>1. h[x] \in H
    BY <1>0
  <2>2. c[h[x]] \in O /\ h[c[h[x]]] = h[x] /\ c[h[x]] < x
    <3>1. c[h[x]] # nil /\ c[h[x]] <= x /\ c[h[x]] \in O /\ h[c[h[x]]] = h[x]
      BY <1>3, <2>1
    <3>2. c[h[x]] \in Int /\ x \in Int
      BY <3>1, <1>1
    <3> QED BY <3>1, <3>2
  <2> DEFINE Below == {y \in O : h[y] = h[x] /\ y < x}
             Q == {x - y : y \in Below}
  <2>3. Q \in SUBSET Nat /\ Q # {}
    <3>1. \A y \in Below : y \in Nat /\ x \in Nat /\ y < x
      BY <1>1
    <3>2. c[h[x]] \in Below
      BY <2>2
    <3> QED BY <3>1, <3>2
  <2>4. PICK m \in Q : \A k \in Q : m <= k
    BY <2>3, LeastNat, Zenon
  <2>5. PICK y \in Below : m = x - y
    BY <2>4
  <2>6. \A z \in Below : z <= y
    <3> SUFFICES ASSUME NEW z \in Below PROVE z <= y
      OBVIOUS
    <3>1. x - y <= x - z
      BY <2>4, <2>5
    <3> QED BY <1>1, <3>1
  <2>7. y \in O /\ h[y] = h[x] /\ y < x
    OBVIOUS
  <2> HIDE DEF Q
  <2>8. n[y] # nil /\ n[y] <= x /\ n[y] \in O /\ h[n[y]] = h[y] /\ n[y] > y
    <3>1. \A z \in O : h[z] = h[y] /\ z > y => n[y] # nil /\ n[y] <= z
      BY <1>4, <2>7
    <3>2. n[y] # nil => n[y] \in O /\ h[n[y]] = h[y] /\ n[y] > y
      BY <1>4, <2>7
    <3>3. x > y
      BY <1>1, <2>7
    <3> QED BY <3>1, <3>2, <3>3, <2>7
  <2>9. n[y] = x
    <3> SUFFICES ASSUME n[y] # x PROVE FALSE
      OBVIOUS
    <3>1. n[y] \in Int /\ y \in Int /\ x \in Int
      BY <1>1, <2>7, <2>8
    <3>2. n[y] \in Below
      BY <3>1, <2>7, <2>8
    <3>3. n[y] <= y
      BY <2>6, <3>2
    <3> QED BY <3>1, <2>8, <3>3
  <2> QED BY <2>7, <2>9
<1>8. OneLink(O, nil, n, h)
  <2>1. ASSUME NEW x \in O, NEW y \in O, h[x] # nil, h[y] # nil, n[x] = n[y],
               n[x] # nil, x < y
        PROVE  FALSE
    <3>1. n[x] \in O /\ h[n[x]] = h[x] /\ h[n[y]] = h[y] /\ n[y] > y
      BY <2>1, <1>4
    <3>2. y > x
      BY <1>1, <2>1
    <3>3. n[x] <= y
      BY <2>1, <1>4, <3>1, <3>2
    <3>4. y \in Int /\ n[x] \in Int /\ n[y] = n[x]
      BY <1>1, <2>1, <3>1
    <3> QED BY <3>1, <3>3, <3>4
  <2>2. \A x, y \in O : x < y \/ y < x \/ x = y
    BY <1>1
  <2> QED BY <2>1, <2>2, Zenon DEF OneLink
<1> QED BY <1>2, <1>5, <1>6, <1>7, <1>8 DEF Linked

=============================================================================
