--------------------------- MODULE TextQueueProofs ---------------------------
(***************************************************************************)
(* Proofs about TextQueue, for any blocks, limits and texts: the pointers  *)
(* and counts of the output queue are right, it keeps its limit, and no    *)
(* character is lost, doubled or out of order without a notice.            *)
(***************************************************************************)
EXTENDS TextQueue, ListsProofs

USE QueueAssumption

-----------------------------------------------------------------------------
(* Chains.                                                                 *)

Chars == 0 .. MaxText
Cells == [text : Seq(Chars), nxt : Links]
Typed(blocks) == DOMAIN blocks \subseteq Blocks /\ \A b \in DOMAIN blocks : blocks[b] \in Cells

\* c is the chain of blocks that begins with first.
IsChain(blocks, first, c) ==
    /\ c \in Seq(Blocks) /\ Distinct(c)
    /\ first = IF c = << >> THEN NULL ELSE c[1]
    /\ \A i \in 1 .. Len(c) :
          /\ c[i] \in DOMAIN blocks
          /\ blocks[c[i]].nxt = IF i < Len(c) THEN c[i + 1] ELSE NULL

LEMMA CountTo == \A n \in Nat : Cardinality(1 .. n) = n
<1> SUFFICES ASSUME NEW n \in Nat PROVE Cardinality(1 .. n) = n
  OBVIOUS
<1>1. 1 \in Int /\ n \in Int
  OBVIOUS
<1>2. Cardinality(1 .. n) = IF 1 > n THEN 0 ELSE n - 1 + 1
  BY <1>1, FS_Interval
<1> QED BY <1>2

LEMMA ChainIsShort ==
    ASSUME NEW c \in Seq(Blocks), Distinct(c)
    PROVE  Cardinality(Blocks) \in Nat /\ Len(c) \in Nat /\ Len(c) <= Cardinality(Blocks)
<1>1. c \in Injection(1 .. Len(c), Blocks) /\ Len(c) \in Nat
  <2>1. c \in [1 .. Len(c) -> Blocks] /\ Len(c) \in Nat
    BY LenProperties
  <2> QED BY <2>1 DEF Injection, IsInjective, Distinct
<1>2. Cardinality(1 .. Len(c)) <= Cardinality(Blocks)
  BY <1>1, FS_Injection
<1>3. Cardinality(1 .. Len(c)) = Len(c)
  BY <1>1, CountTo
<1> QED BY <1>1, <1>2, <1>3, FS_CardinalityType

\* What Chain() returns.
LEMMA ChainIs ==
    ASSUME NEW blocks, DOMAIN blocks \subseteq Blocks, NEW first, NEW c, IsChain(blocks, first, c)
    PROVE  Chain(blocks, first) = c
<1> DEFINE n == Cardinality(Blocks)
           m == Len(c)
           next == [b \in Links |-> IF b \in DOMAIN blocks THEN blocks[b].nxt ELSE NULL]
           Rec(h) == [i \in 1 .. n |-> IF i = 1 THEN first ELSE next[h[i - 1]]]
           at == CHOOSE h : h = Rec(h)
           g == [i \in 1 .. n |-> IF i <= m THEN c[i] ELSE NULL]
<1>1. n \in Nat /\ m \in Nat /\ m <= n /\ c \in Seq(Blocks)
  BY ChainIsShort DEF IsChain
<1>2. Chain(blocks, first)
      = [i \in 1 .. Cardinality({k \in DOMAIN at : at[k] # NULL}) |-> at[i]]
  BY Zenon DEF Chain
<1>3. \A i \in 1 .. m : c[i] \in Blocks /\ c[i] # NULL
  BY <1>1, ElementOfSeq
<1>0. /\ \A i \in 1 .. n : g[i] = IF i <= m THEN c[i] ELSE NULL
      /\ \A b \in Links : next[b] = IF b \in DOMAIN blocks THEN blocks[b].nxt ELSE NULL
      /\ DOMAIN g = 1 .. n /\ g = [i \in 1 .. n |-> g[i]]
  OBVIOUS
<1> HIDE DEF g, next
<1>4. g = Rec(g)
  <2>1. ASSUME NEW i \in 1 .. n PROVE g[i] = Rec(g)[i]
    <3>1. CASE i = 1
      <4>1. m = 0 <=> c = << >>
        BY <1>1, EmptySeq
      <4> QED BY <1>1, <1>0, <3>1, <4>1 DEF IsChain
    <3>2. CASE i # 1
      <4>1. i - 1 \in 1 .. n /\ Rec(g)[i] = next[g[i - 1]]
        BY <1>1, <3>2
      <4>2. CASE i - 1 <= m
        <5>1. /\ g[i - 1] = c[i - 1] /\ c[i - 1] \in Links /\ c[i - 1] \in DOMAIN blocks
              /\ blocks[c[i - 1]].nxt = IF i - 1 < m THEN c[(i - 1) + 1] ELSE NULL
          <6>1. i - 1 \in 1 .. m
            BY <1>1, <4>1, <4>2
          <6>2. g[i - 1] = c[i - 1]
            BY <1>0, <4>1, <4>2
          <6>3. c[i - 1] \in Links
            BY <1>3, <6>1 DEF Links
          <6> QED BY <6>1, <6>2, <6>3, Zenon DEF IsChain
        <5>2. (i - 1) + 1 = i
          BY <4>1
        <5>3. next[g[i - 1]] = IF i - 1 < m THEN c[i] ELSE NULL
          BY <1>0, <5>1, <5>2
        <5> QED BY <1>1, <1>0, <4>1, <4>2, <5>3
      <4>3. CASE ~ (i - 1 <= m)
        <5>1. g[i - 1] = NULL /\ g[i] = NULL /\ NULL \in Links /\ NULL \notin DOMAIN blocks
          BY <1>1, <1>0, <4>1, <4>3 DEF Links
        <5> QED BY <1>0, <4>1, <5>1
      <4> QED BY <4>2, <4>3
    <3> QED BY <3>1, <3>2
  <2> QED BY <1>0, <2>1
<1>5. at = Rec(at)
  BY <1>4, Zenon
<1> HIDE DEF at
<1>6. DOMAIN at = 1 .. n /\ \A i \in 1 .. n : at[i] = IF i = 1 THEN first ELSE next[at[i - 1]]
  BY <1>5, Zenon
<1>7. \A i \in 1 .. n : g[i] = IF i = 1 THEN first ELSE next[g[i - 1]]
  BY <1>4, Zenon
<1>8. \A i \in 1 .. n : at[i] = g[i]
  <2> DEFINE Bad == {i \in 1 .. n : at[i] # g[i]}
  <2>1. SUFFICES ASSUME Bad # {} PROVE FALSE
    OBVIOUS
  <2>2. PICK k \in Bad : \A i \in Bad : k <= i
    <3>1. Bad \in SUBSET Nat
      OBVIOUS
    <3> QED BY <2>1, <3>1, LeastNat, Zenon
  <2>3. k \in 1 .. n /\ at[k] # g[k]
    BY <2>2
  <2>4. k # 1
    BY <1>6, <1>7, <2>3
  <2>5. k - 1 \in 1 .. n /\ ~ (k <= k - 1)
    BY <1>1, <2>3, <2>4
  <2>6. at[k - 1] = g[k - 1]
    <3>1. k - 1 \notin Bad
      <4> HIDE DEF Bad
      <4> QED BY <2>2, <2>5
    <3> QED BY <2>5, <3>1
  <2> QED BY <1>6, <1>7, <2>3, <2>4, <2>6
<1>9. {k \in DOMAIN at : at[k] # NULL} = 1 .. m
  BY <1>1, <1>3, <1>6, <1>8, <1>0
<1>10. Chain(blocks, first) = [i \in 1 .. m |-> at[i]]
  <2>1. Cardinality(1 .. m) = m
    BY <1>1, CountTo
  <2> QED BY <1>2, <1>9, <2>1
<1>11. \A i \in 1 .. m : at[i] = c[i]
  BY <1>1, <1>8, <1>0
<1>12. c = [i \in 1 .. m |-> c[i]]
  BY <1>1, LenProperties
<1> QED BY <1>10, <1>11, <1>12

\* r is c without its first k elements.
IsRest(r, c, k) == Len(r) = Len(c) - k /\ \A i \in 1 .. Len(c) - k : r[i] = c[k + i]

\* A chain that loses its first k blocks.
LEMMA ChainDropped ==
    ASSUME NEW blocks, NEW first, NEW c, IsChain(blocks, first, c), NEW k \in 0 .. Len(c),
           NEW gone, gone = {c[i] : i \in 1 .. k}
    PROVE  LET rest == SubSeq(c, k + 1, Len(c))
               left == Freed(blocks, gone)
           IN  /\ IsChain(left, IF k = Len(c) THEN NULL ELSE c[k + 1], rest)
               /\ DOMAIN blocks = ToSet(c) => DOMAIN left = ToSet(rest)
               /\ IsRest(rest, c, k)
<1> DEFINE rest == SubSeq(c, k + 1, Len(c))
           left == Freed(blocks, gone)
           n == Len(c)
<1>1. c \in Seq(Blocks) /\ n \in Nat /\ k \in 0 .. n
  BY DEF IsChain
<1>2. /\ rest \in Seq(Blocks) /\ Len(rest) = n - k
      /\ \A i \in 1 .. n - k : rest[i] = c[k + i]
  <2>1. \A i \in k + 1 .. n : c[i] \in Blocks
    BY <1>1, ElementOfSeq
  <2>2. k + 1 \in Int /\ n \in Int
    BY <1>1
  <2>3. /\ rest \in Seq(Blocks) /\ Len(rest) = IF k + 1 <= n THEN n - (k + 1) + 1 ELSE 0
        /\ \A i \in 1 .. n - (k + 1) + 1 : rest[i] = c[k + 1 + i - 1]
    BY <2>1, <2>2, SubSeqProperties
  <2> HIDE DEF rest
  <2>4. n - (k + 1) + 1 = n - k /\ \A i \in 1 .. n - k : k + 1 + i - 1 = k + i
    BY <1>1
  <2>5. (IF k + 1 <= n THEN n - (k + 1) + 1 ELSE 0) = n - k
    BY <1>1
  <2>6. \A i \in 1 .. n - k : rest[i] = c[k + i]
    BY <2>3, <2>4, Zenon
  <2> QED BY <2>3, <2>5, <2>6
<1> HIDE DEF rest
<1>3. /\ DOMAIN left = DOMAIN blocks \ gone
      /\ \A b \in DOMAIN left : left[b] = blocks[b]
  BY DEF Freed
<1> HIDE DEF left
<1>4. \A i \in 1 .. n - k : k + i \in 1 .. n /\ c[k + i] \notin gone
  <2> SUFFICES ASSUME NEW i \in 1 .. n - k
               PROVE  k + i \in 1 .. n /\ c[k + i] \notin gone
    OBVIOUS
  <2>1. k + i \in 1 .. n
    BY <1>1
  <2>2. \A j \in 1 .. k : j \in 1 .. n /\ j # k + i
    BY <1>1
  <2>3. \A j \in 1 .. k : c[j] # c[k + i]
    BY <2>1, <2>2 DEF IsChain, Distinct
  <2> QED BY <2>1, <2>3
<1>5. Distinct(rest)
  <2> SUFFICES ASSUME NEW i \in 1 .. n - k, NEW j \in 1 .. n - k, rest[i] = rest[j]
               PROVE  i = j
    BY <1>2 DEF Distinct
  <2>1. c[k + i] = c[k + j] /\ k + i \in 1 .. n /\ k + j \in 1 .. n
    BY <1>2, <1>4
  <2>2. k + i = k + j
    BY <2>1 DEF IsChain, Distinct
  <2> QED BY <1>1, <2>2
<1>6. (IF k = n THEN NULL ELSE c[k + 1]) = IF rest = << >> THEN NULL ELSE rest[1]
  <2>1. rest = << >> <=> k = n
    BY <1>1, <1>2, EmptySeq
  <2>2. k # n => rest[1] = c[k + 1]
    BY <1>1, <1>2
  <2> QED BY <2>1, <2>2
<1>7. ASSUME NEW i \in 1 .. n - k
      PROVE  /\ rest[i] \in DOMAIN left
             /\ left[rest[i]].nxt = IF i < n - k THEN rest[i + 1] ELSE NULL
  <2>1. rest[i] = c[k + i] /\ k + i \in 1 .. n /\ c[k + i] \notin gone
    BY <1>2, <1>4
  <2>2. /\ c[k + i] \in DOMAIN blocks
        /\ blocks[c[k + i]].nxt = IF k + i < n THEN c[(k + i) + 1] ELSE NULL
    BY <2>1 DEF IsChain
  <2>3. rest[i] \in DOMAIN left /\ left[rest[i]] = blocks[c[k + i]]
    <3>1. c[k + i] \in DOMAIN left
      BY <1>3, <2>1, <2>2
    <3>2. left[c[k + i]] = blocks[c[k + i]]
      BY <1>3, <3>1, Zenon
    <3> QED BY <2>1, <3>1, <3>2
  <2>4. i < n - k => rest[i + 1] = c[(k + i) + 1]
    <3>1. i < n - k => i + 1 \in 1 .. n - k /\ k + (i + 1) = (k + i) + 1
      BY <1>1
    <3> QED BY SMTT(40), <1>2, <3>1
  <2>5. i < n - k <=> k + i < n
    BY <1>1
  <2> QED BY <2>2, <2>3, <2>4, <2>5
<1>8. IsChain(left, IF k = n THEN NULL ELSE c[k + 1], rest)
  BY <1>2, <1>5, <1>6, <1>7, Zenon DEF IsChain
<1>9. ASSUME DOMAIN blocks = ToSet(c) PROVE DOMAIN left = ToSet(rest)
  <2>1. \A b : b \in ToSet(c) <=> \E i \in 1 .. n : c[i] = b
    BY <1>1, SetOfSequence
  <2>2. \A b : b \in ToSet(rest) <=> \E i \in 1 .. n - k : rest[i] = b
    BY <1>2, SetOfSequence
  <2>3. ASSUME NEW b \in ToSet(rest) PROVE b \in DOMAIN left
    BY <1>7, <2>2
  <2>4. ASSUME NEW b \in DOMAIN left PROVE b \in ToSet(rest)
    <3>1. b \in ToSet(c) /\ b \notin gone
      BY <1>3, <1>9
    <3>2. PICK i \in 1 .. n : c[i] = b
      BY <2>1, <3>1
    <3>3. ~ (i \in 1 .. k)
      BY <3>1, <3>2
    <3>4. i - k \in 1 .. n - k /\ k + (i - k) = i
      BY <1>1, <3>3
    <3>5. rest[i - k] = b
      BY <1>2, <3>2, <3>4
    <3> QED BY <2>2, <3>4, <3>5
  <2> QED BY <2>3, <2>4
<1>10. IsRest(rest, c, k)
  BY <1>2 DEF IsRest
<1> QED BY <1>8, <1>9, <1>10 DEF rest, left

\* A block put in front of a chain.
LEMMA ChainFronted ==
    ASSUME NEW blocks, NEW first, NEW c, IsChain(blocks, first, c),
           NEW b \in Blocks, b \notin DOMAIN blocks, NEW text
    PROVE  LET made == Make(blocks, b, text, first)
           IN  /\ IsChain(made, b, <<b>> \o c)
               /\ DOMAIN blocks = ToSet(c) => DOMAIN made = ToSet(<<b>> \o c)
               /\ Len(<<b>> \o c) = Len(c) + 1
               /\ (<<b>> \o c)[Len(c) + 1] = IF c = << >> THEN b ELSE c[Len(c)]
<1> DEFINE made == Make(blocks, b, text, first)
           d == <<b>> \o c
           n == Len(c)
<1>1. c \in Seq(Blocks) /\ n \in Nat /\ (c = << >> <=> n = 0)
  <2>1. c \in Seq(Blocks)
    BY DEF IsChain
  <2> QED BY <2>1, EmptySeq
<1>2. /\ d \in Seq(Blocks) /\ Len(d) = n + 1 /\ d[1] = b /\ d # << >>
      /\ \A i \in 1 .. n : d[i + 1] = c[i]
      /\ ToSet(d) = {b} \cup ToSet(c)
  BY <1>1, PushProperties
<1> HIDE DEF d
<1>3. /\ DOMAIN made = DOMAIN blocks \cup {b} /\ made[b].nxt = first
      /\ \A x \in DOMAIN blocks : made[x] = blocks[x]
  BY DEF Make
<1> HIDE DEF made
<1>4. \A i \in 1 .. n + 1 : i # 1 => i - 1 \in 1 .. n /\ d[i] = c[i - 1]
  <2> SUFFICES ASSUME NEW i \in 1 .. n + 1, i # 1
               PROVE  i - 1 \in 1 .. n /\ d[i] = c[i - 1]
    OBVIOUS
  <2>1. i - 1 \in 1 .. n /\ (i - 1) + 1 = i
    BY <1>1
  <2>2. d[(i - 1) + 1] = c[i - 1]
    BY <1>2, <2>1, Zenon
  <2> QED BY <2>1, <2>2
<1>5. \A i \in 1 .. n : c[i] # b
  BY DEF IsChain
<1>6. Distinct(d)
  <2> SUFFICES ASSUME NEW i \in 1 .. n + 1, NEW j \in 1 .. n + 1, d[i] = d[j]
               PROVE  i = j
    BY <1>2 DEF Distinct
  <2>1. CASE i # 1 /\ j # 1
    <3>1. i - 1 \in 1 .. n /\ j - 1 \in 1 .. n /\ c[i - 1] = c[j - 1]
      BY <1>4, <2>1
    <3>2. i - 1 = j - 1
      BY <3>1 DEF IsChain, Distinct
    <3> QED BY <1>1, <3>2
  <2>2. CASE i = 1 \/ j = 1
    BY <1>2, <1>4, <1>5, <2>2
  <2> QED BY <2>1, <2>2
<1>7. ASSUME NEW i \in 1 .. n + 1
      PROVE  /\ d[i] \in DOMAIN made
             /\ made[d[i]].nxt = IF i < n + 1 THEN d[i + 1] ELSE NULL
  <2>1. CASE i = 1
    <3>1. n # 0 => d[1 + 1] = c[1] /\ first = c[1]
      BY <1>1, <1>2 DEF IsChain
    <3>2. n = 0 => first = NULL
      BY <1>1 DEF IsChain
    <3>3. 1 < n + 1 <=> n # 0
      BY <1>1
    <3> QED BY <1>2, <1>3, <2>1, <3>1, <3>2, <3>3
  <2>2. CASE i # 1
    <3>1. i - 1 \in 1 .. n /\ d[i] = c[i - 1]
      BY <1>4, <2>2
    <3>2. /\ c[i - 1] \in DOMAIN blocks
          /\ blocks[c[i - 1]].nxt = IF i - 1 < n THEN c[(i - 1) + 1] ELSE NULL
      BY <3>1 DEF IsChain
    <3>3. (i - 1 < n <=> i < n + 1) /\ (i - 1) + 1 = i
      BY <1>1, <3>1
    <3>4. i < n + 1 => d[i + 1] = c[i]
      <4>1. i < n + 1 => i \in 1 .. n
        BY <1>1
      <4> QED BY <1>2, <4>1
    <3>5. d[i] \in DOMAIN made /\ made[d[i]] = blocks[c[i - 1]]
      BY <1>3, <3>1, <3>2
    <3> QED BY <3>2, <3>3, <3>4, <3>5
  <2> QED BY <2>1, <2>2
<1>8. IsChain(made, b, d)
  BY <1>2, <1>6, <1>7, Zenon DEF IsChain
<1>9. d[n + 1] = IF c = << >> THEN b ELSE c[n]
  <2>1. n # 0 => n \in 1 .. n
    BY <1>1
  <2> QED BY <1>1, <1>2, <2>1
<1> QED BY <1>2, <1>3, <1>8, <1>9 DEF made, d

\* A block is hung at the end of a chain: the last block, or the head, points
\* to it.
Hung(blocks, first, c, more, first2, b) ==
    /\ DOMAIN more = DOMAIN blocks \cup {b} /\ more[b].nxt = NULL
    /\ first2 = IF c = << >> THEN b ELSE first
    /\ \A i \in 1 .. Len(c) : more[c[i]].nxt = IF i = Len(c) THEN b ELSE blocks[c[i]].nxt

LEMMA ChainAppended ==
    ASSUME NEW blocks, NEW first, NEW c, IsChain(blocks, first, c),
           NEW b \in Blocks, b \notin DOMAIN blocks,
           NEW more, NEW first2, Hung(blocks, first, c, more, first2, b)
    PROVE  /\ IsChain(more, first2, Append(c, b))
           /\ DOMAIN blocks = ToSet(c) => DOMAIN more = ToSet(Append(c, b))
           /\ Len(Append(c, b)) = Len(c) + 1
<1> DEFINE d == Append(c, b)
           n == Len(c)
<1>0. /\ DOMAIN more = DOMAIN blocks \cup {b} /\ more[b].nxt = NULL
      /\ first2 = IF c = << >> THEN b ELSE first
      /\ \A i \in 1 .. n : more[c[i]].nxt = IF i = n THEN b ELSE blocks[c[i]].nxt
  BY DEF Hung
<1>1. c \in Seq(Blocks) /\ n \in Nat /\ (c = << >> <=> n = 0) /\ Distinct(c)
  <2>1. c \in Seq(Blocks) /\ Distinct(c)
    BY DEF IsChain
  <2> QED BY <2>1, EmptySeq
<1>2. \A i \in 1 .. n : c[i] \in DOMAIN blocks /\ c[i] # b
  BY DEF IsChain
<1>3. b \notin ToSet(c)
  BY <1>1, <1>2, SetOfSequence
<1>4. d \in Seq(Blocks) /\ Distinct(d) /\ ToSet(d) = ToSet(c) \cup {b}
  BY <1>1, <1>3, AppendSet
<1>5. /\ d # << >> /\ Len(d) = n + 1 /\ d[n + 1] = b
      /\ \A i \in 1 .. n : d[i] = c[i]
  BY <1>1, AppendProperties
<1> HIDE DEF d
<1>6. ASSUME NEW i \in 1 .. n + 1
      PROVE  /\ d[i] \in DOMAIN more
             /\ more[d[i]].nxt = IF i < n + 1 THEN d[i + 1] ELSE NULL
  <2>1. CASE i = n + 1
    <3>1. ~ (i < n + 1) /\ d[i] = b
      BY <1>1, <1>5, <2>1
    <3> QED BY <1>0, <3>1
  <2>2. CASE i # n + 1
    <3>1. i \in 1 .. n /\ d[i] = c[i] /\ i < n + 1
      BY <1>1, <1>5, <2>2
    <3>2. blocks[c[i]].nxt = IF i < n THEN c[i + 1] ELSE NULL
      BY <3>1 DEF IsChain
    <3>3. i # n => i < n /\ i + 1 \in 1 .. n
      BY <1>1, <3>1
    <3>4. d[i + 1] = IF i = n THEN b ELSE c[i + 1]
      BY <1>5, <3>3
    <3> QED BY <1>0, <1>2, <3>1, <3>2, <3>3, <3>4
  <2> QED BY <2>1, <2>2
<1>7. first2 = d[1]
  <2>1. n # 0 => 1 \in 1 .. n
    BY <1>1
  <2> QED BY <1>0, <1>1, <1>5, <2>1 DEF IsChain
<1>8. IsChain(more, first2, d)
  BY <1>4, <1>5, <1>6, <1>7, Zenon DEF IsChain
<1> QED BY <1>0, <1>4, <1>5, <1>8 DEF d

-----------------------------------------------------------------------------
(* The text of a chain.                                                    *)

Strings == Seq(Chars)
Texts(blocks, c) == [i \in 1 .. Len(c) |-> blocks[c[i]].text]
InDomain(blocks, c) == \A i \in 1 .. Len(c) : c[i] \in DOMAIN blocks

LEMMA CellFields == ASSUME NEW cell \in Cells PROVE cell.text \in Strings /\ cell.nxt \in Links
BY DEF Cells, Strings

LEMMA TextsType ==
    ASSUME NEW blocks, Typed(blocks), NEW c \in Seq(Blocks), InDomain(blocks, c)
    PROVE  /\ Texts(blocks, c) \in Seq(Strings) /\ Len(Texts(blocks, c)) = Len(c)
           /\ \A i \in 1 .. Len(c) : Texts(blocks, c)[i] = blocks[c[i]].text
<1>1. Len(c) \in Nat
  OBVIOUS
<1>2. \A i \in 1 .. Len(c) : blocks[c[i]].text \in Strings
  BY CellFields DEF InDomain, Typed
<1>3. \A m \in Nat : \A t \in [1 .. m -> Strings] : t \in Seq(Strings) /\ Len(t) = m
  OBVIOUS
<1>4. Texts(blocks, c) \in [1 .. Len(c) -> Strings]
  BY <1>2 DEF Texts
<1> QED BY <1>1, <1>3, <1>4 DEF Texts

LEMMA TextType ==
    ASSUME NEW blocks, Typed(blocks), NEW c \in Seq(Blocks), InDomain(blocks, c)
    PROVE  Text(blocks, c) \in Strings
<1>1. FlattenSeq(Texts(blocks, c)) \in Seq(Chars)
  BY TextsType, FlattenProperties DEF Strings
<1> QED BY <1>1 DEF Text, Texts, Strings

LEMMA TextNone == \A blocks : Text(blocks, << >>) = << >>
<1> SUFFICES ASSUME NEW blocks PROVE Text(blocks, << >>) = << >>
  OBVIOUS
<1>1. Texts(blocks, << >>) = << >>
  BY DEF Texts
<1>2. FlattenSeq(<< >>) = << >>
  BY EmptySeq DEF FlattenSeq
<1> QED BY <1>1, <1>2, Zenon DEF Text, Texts

LEMMA TextSame ==
    ASSUME NEW blocks, NEW more, NEW c,
           \A i \in 1 .. Len(c) : more[c[i]].text = blocks[c[i]].text
    PROVE  Text(more, c) = Text(blocks, c)
<1>1. Texts(more, c) = Texts(blocks, c)
  BY DEF Texts
<1> QED BY <1>1, Zenon DEF Text, Texts

LEMMA TextConcat ==
    ASSUME NEW blocks, Typed(blocks), NEW c \in Seq(Blocks), InDomain(blocks, c),
           NEW d \in Seq(Blocks), InDomain(blocks, d)
    PROVE  InDomain(blocks, c \o d) /\ Text(blocks, c \o d) = Text(blocks, c) \o Text(blocks, d)
<1> DEFINE e == c \o d
<1>1. /\ e \in Seq(Blocks) /\ Len(e) = Len(c) + Len(d) /\ Len(c) \in Nat /\ Len(d) \in Nat
      /\ \A i \in 1 .. Len(c) + Len(d) : e[i] = IF i <= Len(c) THEN c[i] ELSE d[i - Len(c)]
  BY ConcatProperties
<1> HIDE DEF e
<1>2. \A i \in 1 .. Len(c) + Len(d) :
         IF i <= Len(c) THEN i \in 1 .. Len(c) ELSE i - Len(c) \in 1 .. Len(d)
  BY <1>1
<1>3. InDomain(blocks, e)
  BY <1>1, <1>2 DEF InDomain
<1> DEFINE tc == Texts(blocks, c)
           td == Texts(blocks, d)
           te == Texts(blocks, e)
           tj == tc \o td
<1>4. /\ tc \in Seq(Strings) /\ Len(tc) = Len(c)
      /\ \A i \in 1 .. Len(c) : tc[i] = blocks[c[i]].text
  BY TextsType
<1>5. /\ td \in Seq(Strings) /\ Len(td) = Len(d)
      /\ \A i \in 1 .. Len(d) : td[i] = blocks[d[i]].text
  BY TextsType
<1>6. /\ te \in Seq(Strings) /\ Len(te) = Len(e)
      /\ \A i \in 1 .. Len(e) : te[i] = blocks[e[i]].text
  BY <1>1, <1>3, TextsType
<1> HIDE DEF tc, td, te
<1>7. /\ tj \in Seq(Strings) /\ Len(tj) = Len(tc) + Len(td)
      /\ \A i \in 1 .. Len(tc) + Len(td) : tj[i] = IF i <= Len(tc) THEN tc[i] ELSE td[i - Len(tc)]
  BY ZenonT(40), <1>4, <1>5, ConcatProperties
<1> HIDE DEF tj
<1>8. ASSUME NEW i \in 1 .. Len(e) PROVE te[i] = tj[i]
  <2>1. CASE i <= Len(c)
    <3>1. i \in 1 .. Len(c) /\ e[i] = c[i]
      BY <1>1, <1>2, <2>1
    <3> QED BY <1>1, <1>4, <1>5, <1>6, <1>7, <2>1, <3>1
  <2>2. CASE ~ (i <= Len(c))
    <3>1. i - Len(c) \in 1 .. Len(d) /\ e[i] = d[i - Len(c)]
      BY <1>1, <1>2, <2>2
    <3>2. te[i] = blocks[d[i - Len(c)]].text
      BY <1>6, <3>1
    <3>3. td[i - Len(c)] = blocks[d[i - Len(c)]].text
      BY <1>5, <3>1
    <3>4. tj[i] = td[i - Len(c)]
      BY <1>1, <1>4, <1>5, <1>7, <2>2
    <3> QED BY <3>2, <3>3, <3>4
  <2> QED BY <2>1, <2>2
<1>9. te = tj
  BY <1>1, <1>4, <1>5, <1>6, <1>7, <1>8, SeqEqual
<1>10. FlattenSeq(tc \o td) = FlattenSeq(tc) \o FlattenSeq(td)
  BY <1>4, <1>5, FlattenConcat DEF Strings
<1> QED BY <1>3, <1>9, <1>10, Zenon DEF Text, Texts, tc, td, te, tj, e

LEMMA TextOne ==
    ASSUME NEW blocks, Typed(blocks), NEW b \in DOMAIN blocks
    PROVE  /\ <<b>> \in Seq(Blocks) /\ InDomain(blocks, <<b>>)
           /\ Text(blocks, <<b>>) = blocks[b].text
<1>1. <<b>> \in Seq(Blocks) /\ Len(<<b>>) = 1 /\ <<b>>[1] = b
  BY DEF Typed
<1>2. InDomain(blocks, <<b>>)
  BY <1>1 DEF InDomain
<1> DEFINE t == blocks[b].text
<1>3. t \in Strings
  BY CellFields DEF Typed
<1>4. Texts(blocks, <<b>>) = <<t>>
  BY <1>1 DEF Texts
<1>5. Append(<< >>, t) = <<t>> /\ << >> \in Seq(Strings)
  OBVIOUS
<1>6. FlattenSeq(Append(<< >>, t)) = FlattenSeq(<< >>) \o t
  BY <1>3, <1>5, FlattenAppend DEF Strings
<1>7. FlattenSeq(<< >>) = << >> /\ << >> \o t = t
  BY <1>3, EmptySeq, ConcatEmptySeq DEF FlattenSeq, Strings
<1>8. Text(blocks, <<b>>) = FlattenSeq(<<t>>)
  BY <1>4, Zenon DEF Text, Texts
<1> QED BY <1>1, <1>2, <1>5, <1>6, <1>7, <1>8, Zenon

-----------------------------------------------------------------------------
(* What the operations on the queue do to its chain.                       *)

Queues == [head : Links, tail : Blocks \cup {AtHead}, lines : Nat]

\* The pointers and the count are those of the chain c.
Holds(q, blocks, c) ==
    /\ Typed(blocks) /\ q \in Queues
    /\ IsChain(blocks, q.head, c) /\ DOMAIN blocks = ToSet(c)
    /\ q.lines = Len(c)
    /\ q.tail = IF c = << >> THEN AtHead ELSE c[Len(c)]

LEMMA HoldsParts ==
    ASSUME NEW q, NEW blocks, NEW c, Holds(q, blocks, c)
    PROVE  /\ Typed(blocks) /\ q \in Queues /\ c \in Seq(Blocks) /\ Distinct(c)
           /\ InDomain(blocks, c) /\ Len(c) \in Nat /\ (c = << >> <=> Len(c) = 0)
           /\ Text(blocks, c) \in Strings /\ Chain(blocks, q.head) = c
           /\ q.lines = Len(c) /\ DOMAIN blocks \subseteq Blocks
<1>1. /\ Typed(blocks) /\ q \in Queues /\ c \in Seq(Blocks) /\ InDomain(blocks, c)
      /\ DOMAIN blocks \subseteq Blocks /\ q.lines = Len(c) /\ IsChain(blocks, q.head, c)
      /\ Distinct(c)
  BY DEF Holds, IsChain, InDomain, Typed
<1>2. Len(c) \in Nat /\ (c = << >> <=> Len(c) = 0)
  BY <1>1, EmptySeq
<1> QED BY <1>1, <1>2, TextType, ChainIs

LEMMA UnusedIs ==
    ASSUME NEW blocks, \E b \in Blocks : b \notin DOMAIN blocks
    PROVE  Unused(blocks) \in Blocks /\ Unused(blocks) \notin DOMAIN blocks
BY DEF Unused

\* made are the blocks and the block b, with a text and a link.
IsMade(made, blocks, b, text, nxt) ==
    /\ Typed(made) /\ DOMAIN made = DOMAIN blocks \cup {b}
    /\ made[b].text = text /\ made[b].nxt = nxt
    /\ \A x \in DOMAIN blocks : x # b => made[x] = blocks[x]

LEMMA MadeIs ==
    ASSUME NEW blocks, Typed(blocks), NEW b \in Blocks, NEW text \in Strings, NEW nxt \in Links
    PROVE  IsMade(Make(blocks, b, text, nxt), blocks, b, text, nxt)
<1> DEFINE made == Make(blocks, b, text, nxt)
<1>1. [text |-> text, nxt |-> nxt] \in Cells
  BY DEF Cells, Strings
<1>2. /\ DOMAIN made = DOMAIN blocks \cup {b} /\ made[b] = [text |-> text, nxt |-> nxt]
      /\ \A x \in DOMAIN blocks : x # b => made[x] = blocks[x]
  BY DEF Make
<1> HIDE DEF made
<1>3. Typed(made)
  BY <1>1, <1>2 DEF Typed
<1>4. made[b].text = text /\ made[b].nxt = nxt
  BY <1>2
<1>5. IsMade(made, blocks, b, text, nxt)
  BY <1>2, <1>3, <1>4 DEF IsMade
<1> QED BY <1>5 DEF made

\* after is the queue with a block more, that has the text.
Added(after, blocks, c, text, d) ==
    /\ Holds(after.q, after.blocks, d) /\ Len(d) = Len(c) + 1
    /\ Text(after.blocks, d) = Text(blocks, c) \o text

\* add_to_queue(), of what is not empty.
LEMMA AddedKeeps ==
    ASSUME NEW q, NEW blocks, NEW c, Holds(q, blocks, c), NEW text \in Strings, text # << >>,
           \E b \in Blocks : b \notin DOMAIN blocks
    PROVE  \E d : Added(AddToQueue([q |-> q, blocks |-> blocks], text), blocks, c, text, d)
<1> DEFINE b == Unused(blocks)
           made == Make(blocks, b, text, NULL)
           stored == Store(q, made, q.tail, b)
           more == stored.blocks
           q2 == [stored.q EXCEPT !.tail = b, !.lines = @ + 1]
           after == AddToQueue([q |-> q, blocks |-> blocks], text)
           d == Append(c, b)
<1>1. b \in Blocks /\ b \notin DOMAIN blocks
  BY UnusedIs
<1>2. after = [q |-> q2, blocks |-> more]
  BY DEF AddToQueue
<1>3. /\ Typed(blocks) /\ q \in Queues /\ c \in Seq(Blocks) /\ Distinct(c)
      /\ InDomain(blocks, c) /\ Len(c) \in Nat /\ (c = << >> <=> Len(c) = 0)
      /\ q.lines = Len(c) /\ DOMAIN blocks = ToSet(c) /\ IsChain(blocks, q.head, c)
      /\ q.tail = IF c = << >> THEN AtHead ELSE c[Len(c)]
  BY HoldsParts DEF Holds
<1> HIDE DEF b
<1>4. /\ Typed(made) /\ DOMAIN made = DOMAIN blocks \cup {b}
      /\ made[b].text = text /\ made[b].nxt = NULL
      /\ \A x \in DOMAIN blocks : x # b => made[x] = blocks[x]
  <2>1. NULL \in Links
    BY DEF Links
  <2>2. IsMade(made, blocks, b, text, NULL)
    BY <1>1, <1>3, <2>1, MadeIs
  <2> HIDE DEF made
  <2> QED BY <2>2 DEF IsMade
<1> HIDE DEF made
<1>5. /\ Typed(more) /\ DOMAIN more = DOMAIN blocks \cup {b}
      /\ more[b].nxt = NULL /\ \A x \in DOMAIN more : more[x].text = made[x].text
      /\ \A i \in 1 .. Len(c) : more[c[i]].nxt = IF i = Len(c) THEN b ELSE blocks[c[i]].nxt
      /\ stored.q = IF c = << >> THEN [q EXCEPT !.head = b] ELSE q
  <2>1. CASE c = << >>
    <3>1. q.tail = AtHead
      BY <1>3, <2>1
    <3>2. stored = [q |-> [q EXCEPT !.head = b], blocks |-> made]
      BY <3>1 DEF Store
    <3>3. more = made /\ stored.q = [q EXCEPT !.head = b]
      BY <3>2
    <3> QED BY <1>3, <1>4, <2>1, <3>3
  <2>2. CASE c # << >>
    <3> DEFINE z == c[Len(c)]
    <3>1. q.tail = z /\ Len(c) \in 1 .. Len(c)
      BY <1>3, <2>2
    <3>2. z \in DOMAIN blocks /\ z \in Blocks /\ z # b
      BY <1>1, <1>3, <3>1 DEF InDomain, Typed
    <3>3. \A i \in 1 .. Len(c) : c[i] \in DOMAIN blocks /\ c[i] # b /\ (c[i] = z <=> i = Len(c))
      BY <1>1, <1>3, <3>1 DEF InDomain, Distinct
    <3> HIDE DEF z
    <3>4. z # AtHead
      BY <3>2 DEF AtHead
    <3>5. stored = [q |-> q, blocks |-> [made EXCEPT ![z].nxt = b]]
      BY <3>1, <3>4 DEF Store
    <3>6. more = [made EXCEPT ![z].nxt = b] /\ stored.q = q
      BY <3>5
    <3>7. made[z] \in Cells /\ z \in DOMAIN made
      BY <1>4, <3>2 DEF Typed
    <3>8. PICK cell \in Cells : /\ cell = [made[z] EXCEPT !.nxt = b]
                                /\ cell.nxt = b /\ cell.text = made[z].text
      <4>1. b \in Links
        BY <1>1 DEF Links
      <4>2. [made[z] EXCEPT !.nxt = b] \in Cells
        BY <3>7, <4>1 DEF Cells
      <4>3. /\ [made[z] EXCEPT !.nxt = b].nxt = b
            /\ [made[z] EXCEPT !.nxt = b].text = made[z].text
        BY <3>7 DEF Cells
      <4> QED BY <4>2, <4>3
    <3>9. more = [made EXCEPT ![z] = cell]
      BY <3>6, <3>8
    <3> HIDE DEF stored
    <3>10. /\ DOMAIN more = DOMAIN made /\ more[z] = cell
           /\ \A x \in DOMAIN made : x # z => more[x] = made[x]
      BY <3>7, <3>9
    <3>11. Typed(more)
      BY <1>4, <3>8, <3>10 DEF Typed
    <3>12. \A x \in DOMAIN more : more[x].text = made[x].text
      BY <3>8, <3>10
    <3>13. more[b] = made[b]
      BY <1>4, <3>2, <3>10
    <3>14. ASSUME NEW i \in 1 .. Len(c)
           PROVE  more[c[i]].nxt = IF i = Len(c) THEN b ELSE blocks[c[i]].nxt
      <4>1. CASE i = Len(c)
        BY <3>3, <3>8, <3>10, <4>1
      <4>2. CASE i # Len(c)
        <5>1. c[i] # z /\ c[i] \in DOMAIN made /\ made[c[i]] = blocks[c[i]]
          BY <1>4, <3>3, <4>2
        <5> QED BY <3>10, <4>2, <5>1
      <4> QED BY <4>1, <4>2
    <3> QED BY <1>4, <2>2, <3>6, <3>10, <3>11, <3>12, <3>13, <3>14
  <2> QED BY <2>1, <2>2
<1> HIDE DEF stored
<1>6. q2 \in Queues /\ q2.head = (IF c = << >> THEN b ELSE q.head) /\ q2.tail = b /\ q2.lines = Len(c) + 1
  <2>1. stored.q \in Queues /\ stored.q.lines = Len(c)
        /\ stored.q.head = IF c = << >> THEN b ELSE q.head
    BY <1>1, <1>3, <1>5 DEF Queues, Links
  <2>2. PICK p \in Queues : p = stored.q
    BY <2>1
  <2>3. q2 = [p EXCEPT !.tail = b, !.lines = @ + 1]
    BY <2>2
  <2>4. p.lines = Len(c) /\ p.head = IF c = << >> THEN b ELSE q.head
    BY <2>1, <2>2
  <2> HIDE DEF q2
  <2>5. PICK r \in Queues : /\ r = [p EXCEPT !.tail = b]
                            /\ r.head = p.head /\ r.tail = b /\ r.lines = p.lines
    <3>1. [p EXCEPT !.tail = b] \in Queues
      BY <1>1 DEF Queues
    <3>2. /\ [p EXCEPT !.tail = b].head = p.head /\ [p EXCEPT !.tail = b].tail = b
          /\ [p EXCEPT !.tail = b].lines = p.lines
      BY DEF Queues
    <3> QED BY <3>1, <3>2
  <2>6. q2 = [r EXCEPT !.lines = p.lines + 1]
    BY <2>3, <2>5, Zenon
  <2>7. q2 \in Queues /\ q2.head = r.head /\ q2.tail = r.tail /\ q2.lines = p.lines + 1
    BY <2>6 DEF Queues
  <2> QED BY <2>4, <2>5, <2>7
<1> HIDE DEF q2, more
<1>7. IsChain(more, q2.head, d) /\ DOMAIN more = ToSet(d) /\ Len(d) = Len(c) + 1
  <2>1. Hung(blocks, q.head, c, more, q2.head, b)
    BY <1>5, <1>6 DEF Hung
  <2> QED BY <1>1, <1>3, <2>1, ChainAppended
<1>8. d \in Seq(Blocks) /\ d # << >> /\ d[Len(c) + 1] = b
  BY <1>1, <1>3, AppendProperties
<1>9. Holds(q2, more, d)
  <2> HIDE DEF d
  <2> QED BY <1>5, <1>6, <1>7, <1>8 DEF Holds
<1>10. Text(more, d) = Text(blocks, c) \o text
  <2>1. d = c \o <<b>>
    BY <1>1, <1>3, AppendIsConcat
  <2>2. InDomain(more, c)
    BY <1>3, <1>5 DEF InDomain
  <2>3. b \in DOMAIN more
    BY <1>5
  <2>4. <<b>> \in Seq(Blocks) /\ InDomain(more, <<b>>) /\ Text(more, <<b>>) = more[b].text
    BY <1>5, <2>3, TextOne
  <2>5. Text(more, c \o <<b>>) = Text(more, c) \o Text(more, <<b>>)
    BY <1>3, <1>5, <2>2, <2>4, TextConcat
  <2>6. \A i \in 1 .. Len(c) : more[c[i]].text = blocks[c[i]].text
    BY <1>1, <1>3, <1>4, <1>5 DEF InDomain
  <2>7. Text(more, c) = Text(blocks, c)
    BY <2>6, TextSame
  <2>8. more[b].text = text
    BY <1>4, <1>5, <2>3
  <2> QED BY <2>1, <2>4, <2>5, <2>7, <2>8, Zenon
<1> HIDE DEF d
<1>11. after.q = q2 /\ after.blocks = more
  BY <1>2
<1> HIDE DEF after
<1>12. Added(after, blocks, c, text, d)
  BY <1>7, <1>9, <1>10, <1>11 DEF Added
<1> QED BY <1>12 DEF after

\* left and r are what is left of the blocks and of their chain c without the
\* first k of them.
Cut(blocks, c, k, left, r) ==
    /\ Typed(left) /\ r \in Seq(Blocks) /\ Len(r) = Len(c) - k
    /\ IsChain(left, IF k = Len(c) THEN NULL ELSE c[k + 1], r) /\ DOMAIN left = ToSet(r)
    /\ InDomain(left, r)
    /\ k < Len(c) => r[Len(r)] = c[Len(c)] /\ c[k + 1] \in DOMAIN left
                     /\ left[c[k + 1]] = blocks[c[k + 1]]
    /\ Text(left, r) = Text(blocks, r) /\ InDomain(blocks, r)

LEMMA CutIs ==
    ASSUME NEW q, NEW blocks, NEW c, Holds(q, blocks, c), NEW k \in 0 .. Len(c)
    PROVE  Cut(blocks, c, k, Freed(blocks, {c[i] : i \in 1 .. k}), SubSeq(c, k + 1, Len(c)))
<1> DEFINE gone == {c[i] : i \in 1 .. k}
           left == Freed(blocks, gone)
           r == SubSeq(c, k + 1, Len(c))
           first == IF k = Len(c) THEN NULL ELSE c[k + 1]
<1>1. /\ Typed(blocks) /\ q \in Queues /\ c \in Seq(Blocks) /\ Distinct(c)
      /\ InDomain(blocks, c) /\ Len(c) \in Nat
      /\ DOMAIN blocks = ToSet(c) /\ IsChain(blocks, q.head, c)
  BY HoldsParts DEF Holds
<1>2. /\ IsChain(left, first, r) /\ DOMAIN left = ToSet(r)
      /\ \A i \in 1 .. Len(c) - k : r[i] = c[k + i]
      /\ Len(r) = Len(c) - k
  <2>1. IsChain(left, first, r) /\ DOMAIN left = ToSet(r) /\ IsRest(r, c, k)
    BY SMTT(40), <1>1, ChainDropped
  <2> HIDE DEF left, r
  <2> QED BY <2>1 DEF IsRest
<1>3. \A b \in DOMAIN left : b \in DOMAIN blocks /\ left[b] = blocks[b]
  BY DEF Freed
<1> HIDE DEF left, r
<1>4. Typed(left) /\ r \in Seq(Blocks) /\ InDomain(left, r)
  BY <1>1, <1>2, <1>3 DEF Typed, IsChain, InDomain
<1>5. ASSUME k < Len(c)
      PROVE  r[Len(r)] = c[Len(c)] /\ c[k + 1] \in DOMAIN left /\ left[c[k + 1]] = blocks[c[k + 1]]
  <2>1. Len(c) - k \in 1 .. Len(c) - k /\ 1 \in 1 .. Len(c) - k /\ k + (Len(c) - k) = Len(c)
    BY <1>1, <1>5
  <2>2. r[Len(r)] = c[Len(c)] /\ r[1] = c[k + 1]
    BY <1>2, <2>1
  <2>3. r[1] \in DOMAIN left
    BY <1>2, <1>4, <2>1 DEF InDomain
  <2> QED BY <1>3, <2>2, <2>3
<1>6. InDomain(blocks, r) /\ \A i \in 1 .. Len(r) : left[r[i]].text = blocks[r[i]].text
  BY <1>3, <1>4 DEF InDomain
<1>7. Text(left, r) = Text(blocks, r)
  BY <1>6, TextSame
<1>8. Cut(blocks, c, k, left, r)
  BY <1>2, <1>4, <1>5, <1>6, <1>7 DEF Cut
<1> QED BY <1>8 DEF left, r

\* The text of a chain is that of its first blocks and that of the others.
LEMMA TextParts ==
    ASSUME NEW q, NEW blocks, NEW c, Holds(q, blocks, c), NEW k \in 0 .. Len(c)
    PROVE  /\ SubSeq(c, 1, k) \in Seq(Blocks) /\ InDomain(blocks, SubSeq(c, 1, k))
           /\ Text(blocks, SubSeq(c, 1, k)) \in Strings
           /\ Text(blocks, SubSeq(c, k + 1, Len(c))) \in Strings
           /\ Text(blocks, c) = Text(blocks, SubSeq(c, 1, k)) \o Text(blocks, SubSeq(c, k + 1, Len(c)))
<1> DEFINE a == SubSeq(c, 1, k)
           r == SubSeq(c, k + 1, Len(c))
<1>1. /\ Typed(blocks) /\ c \in Seq(Blocks) /\ InDomain(blocks, c) /\ Len(c) \in Nat
  BY HoldsParts
<1>2. a \in Seq(Blocks) /\ Len(a) = k /\ \A i \in 1 .. k : a[i] = c[i]
  <2>1. \A i \in 1 .. k : c[i] \in Blocks
    BY <1>1, ElementOfSeq
  <2>2. /\ a \in Seq(Blocks) /\ Len(a) = IF 1 <= k THEN k - 1 + 1 ELSE 0
        /\ \A i \in 1 .. k - 1 + 1 : a[i] = c[1 + i - 1]
    BY <2>1, SubSeqProperties
  <2> HIDE DEF a
  <2>3. \A i \in 1 .. k : i \in 1 .. k - 1 + 1 /\ 1 + i - 1 = i
    BY <1>1
  <2> QED BY <1>1, <2>2, <2>3
<1>3. r \in Seq(Blocks) /\ InDomain(blocks, r)
  BY CutIs DEF Cut
<1>4. c = a \o r
  <2>1. SubSeq(c, 1, Len(c)) = c
    BY <1>1, SubSeqFull, Zenon
  <2>2. 1 \in 1 .. Len(c) + 1 /\ k \in 1 - 1 .. Len(c) /\ Len(c) \in k .. Len(c)
    BY <1>1
  <2>3. SubSeq(c, 1, k) \o SubSeq(c, k + 1, Len(c)) = SubSeq(c, 1, Len(c))
    BY <1>1, <2>2, ConcatAdjacentSubSeq, Zenon
  <2> QED BY <2>1, <2>3, Zenon
<1> HIDE DEF a, r
<1>5. InDomain(blocks, a)
  BY <1>1, <1>2 DEF InDomain
<1>6. Text(blocks, a \o r) = Text(blocks, a) \o Text(blocks, r)
  BY <1>1, <1>2, <1>3, <1>5, TextConcat
<1>7. Text(blocks, a) \in Strings /\ Text(blocks, r) \in Strings
  BY <1>1, <1>2, <1>3, <1>5, TextType
<1> QED BY <1>2, <1>4, <1>5, <1>6, <1>7 DEF a, r

LEMMA DroppedIs ==
    ASSUME NEW q, NEW blocks, NEW c, Holds(q, blocks, c), NEW n \in Nat
    PROVE  /\ Dropped(blocks, c, n) \in 0 .. Len(c)
           /\ \/ Dropped(blocks, c, n) = Len(c)
              \/ Size(blocks, SubSeq(c, 1, Dropped(blocks, c, n))) >= n
<1> DEFINE Enough == {k \in 0 .. Len(c) : k = Len(c) \/ Size(blocks, SubSeq(c, 1, k)) >= n}
<1>1. Len(c) \in Nat
  BY HoldsParts
<1>2. Enough \in SUBSET Nat /\ Len(c) \in Enough
  BY <1>1
<1>3. PICK k \in Enough : \A j \in Enough : k <= j
  BY <1>2, LeastNat, Zenon
<1>4. k \in 0 .. Len(c) /\ (k = Len(c) \/ Size(blocks, SubSeq(c, 1, k)) >= n)
  BY <1>3
<1>5. ASSUME NEW j \in 0 .. k - 1 PROVE Size(blocks, SubSeq(c, 1, j)) < n
  <2>1. j \in 0 .. Len(c) /\ ~ (k <= j)
    BY <1>1, <1>4
  <2>2. j \notin Enough
    <3> HIDE DEF Enough
    <3> QED BY <1>3, <2>1
  <2>3. ~ (Size(blocks, SubSeq(c, 1, j)) >= n)
    BY <2>1, <2>2
  <2>4. Text(blocks, SubSeq(c, 1, j)) \in Strings
    BY <2>1, TextParts
  <2>5. Size(blocks, SubSeq(c, 1, j)) \in Nat
    BY <2>4 DEF Size, Strings
  <2> QED BY <2>3, <2>5
<1>6. \E k1 \in 0 .. Len(c) :
         /\ k1 = Len(c) \/ Size(blocks, SubSeq(c, 1, k1)) >= n
         /\ \A j \in 0 .. k1 - 1 : Size(blocks, SubSeq(c, 1, j)) < n
  BY <1>4, <1>5
<1>7. /\ Dropped(blocks, c, n) \in 0 .. Len(c)
      /\ \/ Dropped(blocks, c, n) = Len(c)
         \/ Size(blocks, SubSeq(c, 1, Dropped(blocks, c, n))) >= n
  <2> DEFINE P(k1) == /\ k1 = Len(c) \/ Size(blocks, SubSeq(c, 1, k1)) >= n
                      /\ \A j \in 0 .. k1 - 1 : Size(blocks, SubSeq(c, 1, j)) < n
  <2>1. \E k1 \in 0 .. Len(c) : P(k1)
    BY <1>6
  <2>2. Dropped(blocks, c, n) = CHOOSE k1 \in 0 .. Len(c) : P(k1)
    BY DEF Dropped
  <2> HIDE DEF P
  <2>3. Dropped(blocks, c, n) \in 0 .. Len(c) /\ P(Dropped(blocks, c, n))
    BY <2>1, <2>2
  <2> QED BY <2>3 DEF P
<1> QED BY <1>7

\* The notice that flush_queue() puts in front.
Zeros == [i \in 1 .. Notice |-> 0]

LEMMA ZerosType == Zeros \in Strings /\ Len(Zeros) = Notice /\ Zeros # << >> /\ \A i \in 1 .. Notice : Zeros[i] = 0
<1>1. Notice \in Nat \ {0} /\ 0 \in Chars
  BY DEF Chars
<1>2. \A m \in Nat : \A t \in [1 .. m -> Chars] : t \in Seq(Chars) /\ Len(t) = m
  OBVIOUS
<1>3. Zeros \in [1 .. Notice -> Chars]
  BY <1>1 DEF Zeros
<1>4. Zeros \in Seq(Chars) /\ Len(Zeros) = Notice
  BY <1>1, <1>2, <1>3
<1> QED BY <1>1, <1>4, EmptySeq DEF Zeros, Strings

\* m is what a flush of the queue for n characters returns: its first k blocks,
\* with the text x, are replaced by the notice.
Flushed(m, blocks, c, n, d, x, y, k) ==
    /\ Holds(m.q, m.blocks, d) /\ Len(d) = Len(c) - k + 1 /\ k \in 0 .. Len(c)
    /\ x \in Strings /\ y \in Strings
    /\ Text(blocks, c) = x \o y /\ Text(m.blocks, d) = Zeros \o y
    /\ m.flushed = Len(x) - Notice
    /\ k = Len(c) \/ Len(x) >= n + Notice

LEMMA FlushIs ==
    ASSUME NEW q, NEW blocks, NEW c, Holds(q, blocks, c), NEW n \in Nat,
           \E b \in Blocks : b \notin DOMAIN blocks
    PROVE  \E d, x, y, k : Flushed(FlushQueue([q |-> q, blocks |-> blocks], n), blocks, c, n, d, x, y, k)
<1> DEFINE k == Dropped(blocks, c, Room(n))
           first == IF k = Len(c) THEN NULL ELSE c[k + 1]
           left == Freed(blocks, {c[i] : i \in 1 .. k})
           b == Unused(left)
           more == Make(left, b, Zeros, first)
           q2 == [head |-> b, tail |-> TailAfter(q, b, first), lines |-> q.lines - k + 1]
           a == SubSeq(c, 1, k)
           r == SubSeq(c, k + 1, Len(c))
           d == <<b>> \o r
           x == Text(blocks, a)
           y == Text(blocks, r)
           m == FlushQueue([q |-> q, blocks |-> blocks], n)
<1>1. /\ Typed(blocks) /\ q \in Queues /\ c \in Seq(Blocks) /\ (c = << >> <=> Len(c) = 0)
      /\ InDomain(blocks, c) /\ Len(c) \in Nat /\ q.lines = Len(c) /\ Chain(blocks, q.head) = c
      /\ DOMAIN blocks = ToSet(c) /\ IsChain(blocks, q.head, c)
      /\ q.tail = IF c = << >> THEN AtHead ELSE c[Len(c)]
  BY HoldsParts DEF Holds
<1>2. m = [q |-> q2, blocks |-> more, flushed |-> Len(x) - Notice]
  BY <1>1, Zenon DEF FlushQueue, NoticeText, Zeros, ReallyFlushed, Size
<1>3. k \in 0 .. Len(c) /\ (k = Len(c) \/ Len(x) >= n + Notice)
  <2>1. Room(n) \in Nat /\ Room(n) = n + Notice
    BY DEF Room
  <2>2. /\ Dropped(blocks, c, Room(n)) \in 0 .. Len(c)
        /\ \/ Dropped(blocks, c, Room(n)) = Len(c)
           \/ Size(blocks, SubSeq(c, 1, Dropped(blocks, c, Room(n)))) >= Room(n)
    BY <2>1, DroppedIs
  <2> QED BY <2>1, <2>2 DEF Size
<1> HIDE DEF k
<1>4. /\ Typed(left) /\ r \in Seq(Blocks) /\ Len(r) = Len(c) - k
      /\ IsChain(left, first, r) /\ DOMAIN left = ToSet(r)
      /\ InDomain(left, r)
      /\ k < Len(c) => r[Len(r)] = c[Len(c)]
      /\ Text(left, r) = y
  <2>1. Cut(blocks, c, k, left, r)
    BY <1>3, CutIs
  <2> HIDE DEF left, r, y
  <2> QED BY <2>1 DEF Cut, y
<1>5. x \in Strings /\ y \in Strings /\ Text(blocks, c) = x \o y
  BY <1>3, TextParts
<1>6. b \in Blocks /\ b \notin DOMAIN left
  <2>1. DOMAIN left \subseteq DOMAIN blocks
    BY DEF Freed
  <2> HIDE DEF left
  <2> QED BY <2>1, UnusedIs
<1> HIDE DEF left, r, x, y, b, a, m
<1>7. first \in Links
  BY <1>1, <1>3, ElementOfSeq DEF Links
<1>8. IsMade(more, left, b, Zeros, first)
  BY <1>4, <1>6, <1>7, ZerosType, MadeIs
<1>9. /\ IsChain(more, b, d) /\ DOMAIN more = ToSet(d) /\ Len(d) = Len(r) + 1
      /\ d[Len(r) + 1] = IF r = << >> THEN b ELSE r[Len(r)]
  <2>1. /\ IsChain(Make(left, b, Zeros, first), b, <<b>> \o r)
        /\ DOMAIN left = ToSet(r) => DOMAIN Make(left, b, Zeros, first) = ToSet(<<b>> \o r)
        /\ Len(<<b>> \o r) = Len(r) + 1
        /\ (<<b>> \o r)[Len(r) + 1] = IF r = << >> THEN b ELSE r[Len(r)]
    BY SMTT(40), <1>4, <1>6, ChainFronted
  <2> QED BY <1>4, <2>1
<1> HIDE DEF more
<1>10. /\ Typed(more) /\ more[b].text = Zeros /\ \A z \in DOMAIN left : more[z] = left[z]
       /\ b \in DOMAIN more
  BY <1>6, <1>8 DEF IsMade
<1>11. d \in Seq(Blocks) /\ d # << >>
  BY <1>4, <1>6, PushProperties
<1>12. Text(more, d) = Zeros \o y
  <2>1. InDomain(more, <<b>>) /\ <<b>> \in Seq(Blocks) /\ Text(more, <<b>>) = more[b].text
    BY <1>10, TextOne
  <2>2. InDomain(more, r)
    BY <1>4, <1>8 DEF InDomain, IsMade
  <2>3. Text(more, <<b>> \o r) = Text(more, <<b>>) \o Text(more, r)
    BY <1>4, <1>10, <2>1, <2>2, TextConcat
  <2>4. \A i \in 1 .. Len(r) : more[r[i]].text = left[r[i]].text
    BY <1>4, <1>10 DEF InDomain
  <2>5. Text(more, r) = Text(left, r)
    BY <2>4, TextSame
  <2> QED BY <1>4, <1>10, <2>1, <2>3, <2>5, Zenon
<1>13. q2 \in Queues /\ q2.head = b /\ q2.lines = Len(c) - k + 1 /\ q2.tail = TailAfter(q, b, first)
  <2>1. TailAfter(q, b, first) \in Blocks \cup {AtHead}
    BY <1>1, <1>6 DEF TailAfter, Queues
  <2>2. q.lines - k + 1 \in Nat /\ q.lines - k + 1 = Len(c) - k + 1
    BY <1>1, <1>3
  <2>3. b \in Links
    BY <1>6 DEF Links
  <2> QED BY <2>1, <2>2, <2>3 DEF Queues
<1>14. q2.tail = d[Len(d)]
  <2>1. CASE k = Len(c)
    <3>1. first = NULL /\ r = << >>
      <4>1. first = NULL
        BY <2>1
      <4>2. Len(r) = 0
        BY <1>1, <1>4, <2>1
      <4> QED BY <1>4, <4>1, <4>2, EmptySeq
    <3>2. d[Len(d)] = b
      BY <1>9, <3>1
    <3> QED BY <1>13, <3>1, <3>2 DEF TailAfter
  <2>2. CASE k # Len(c)
    <3>1. k < Len(c) /\ first = c[k + 1] /\ k + 1 \in 1 .. Len(c) /\ c # << >>
      BY <1>1, <1>3, <2>2
    <3>2. first # NULL
      <4>1. c[k + 1] \in Blocks
        BY <1>1, <3>1, ElementOfSeq
      <4> QED BY <3>1, <4>1
    <3>3. r # << >>
      <4>1. Len(r) # 0
        BY <1>1, <1>3, <1>4, <3>1
      <4> QED BY <1>4, <4>1, EmptySeq
    <3>4. d[Len(d)] = r[Len(r)] /\ r[Len(r)] = c[Len(c)]
      BY <1>4, <1>9, <3>1, <3>3
    <3> QED BY <1>1, <1>13, <3>1, <3>2, <3>4 DEF TailAfter
  <2> QED BY <2>1, <2>2
<1> HIDE DEF q2, first
<1>15. Holds(q2, more, d)
  <2>1. Len(d) = Len(c) - k + 1
    BY <1>4, <1>9
  <2> HIDE DEF d
  <2> QED BY <1>9, <1>10, <1>11, <1>13, <1>14, <2>1 DEF Holds
<1>16. m.q = q2 /\ m.blocks = more /\ m.flushed = Len(x) - Notice
  BY <1>2
<1>17. Len(d) = Len(c) - k + 1
  BY <1>4, <1>9
<1> HIDE DEF d
<1>18. Flushed(m, blocks, c, n, d, x, y, k)
  BY <1>3, <1>5, <1>12, <1>15, <1>16, <1>17 DEF Flushed
<1> QED BY <1>18 DEF m

\* There are as many blocks as links in the chain, so that one is unused when
\* the chain is short.
LEMMA BlocksCounted ==
    ASSUME NEW q, NEW blocks, NEW c, Holds(q, blocks, c)
    PROVE  Cardinality(DOMAIN blocks) = Len(c) /\ Cardinality(Blocks) \in Nat
<1>1. /\ c \in Seq(Blocks) /\ Distinct(c) /\ Len(c) \in Nat /\ DOMAIN blocks = ToSet(c)
  BY HoldsParts DEF Holds
<1>2. \A b : b \in DOMAIN blocks <=> \E i \in 1 .. Len(c) : c[i] = b
  BY <1>1, SetOfSequence
<1>3. c \in [1 .. Len(c) -> DOMAIN blocks]
  <2>1. c = [i \in 1 .. Len(c) |-> c[i]]
    BY <1>1, LenProperties
  <2>2. \A i \in 1 .. Len(c) : c[i] \in DOMAIN blocks
    BY <1>2
  <2> QED BY <2>1, <2>2
<1>4. c \in Surjection(1 .. Len(c), DOMAIN blocks) /\ c \in Injection(1 .. Len(c), DOMAIN blocks)
  BY <1>1, <1>2, <1>3 DEF Surjection, Injection, IsInjective, Distinct
<1>5. IsFiniteSet(1 .. Len(c)) /\ Cardinality(1 .. Len(c)) = Len(c)
  <2>1. 1 \in Int /\ Len(c) \in Int
    BY <1>1
  <2> QED BY <1>1, <2>1, CountTo, FS_Interval
<1>6. Cardinality(DOMAIN blocks) = Cardinality(1 .. Len(c))
  BY <1>4, <1>5, FS_Surjection
<1> QED BY <1>5, <1>6, FS_CardinalityType

LEMMA OneIsUnused ==
    ASSUME NEW q, NEW blocks, NEW c, Holds(q, blocks, c), Len(c) < Cardinality(Blocks)
    PROVE  \E b \in Blocks : b \notin DOMAIN blocks
<1>1. SUFFICES ASSUME \A b \in Blocks : b \in DOMAIN blocks PROVE FALSE
  OBVIOUS
<1>2. DOMAIN blocks = Blocks
  BY <1>1, HoldsParts
<1>3. Len(c) \in Nat
  BY HoldsParts
<1> QED BY <1>2, <1>3, BlocksCounted

-----------------------------------------------------------------------------
(* process_output().                                                       *)

\* What process_output() leaves when it writes the first blocks, whole of them,
\* and a part of the next.
QueueSent(q, c, whole) ==
    IF whole = Len(c) THEN [head |-> NULL, tail |-> AtHead, lines |-> 0]
    ELSE [q EXCEPT !.head = c[whole + 1], !.lines = @ - whole]

Shortened(blocks, h, part) == [blocks EXCEPT ![h].text = Rest(@, part)]

BlocksSent(blocks, c, whole, part) ==
    LET left == Freed(blocks, {c[i] : i \in 1 .. whole})
    IN IF part > 0 THEN Shortened(left, c[whole + 1], part) ELSE left

TextSent(blocks, c, whole, part) ==
    Text(blocks, SubSeq(c, 1, whole))
        \o IF part > 0 THEN SubSeq(blocks[c[whole + 1]].text, 1, part) ELSE << >>

Sendable(blocks, c, whole, part) ==
    /\ whole \in 0 .. Len(c) /\ part \in Nat
    /\ part > 0 => whole < Len(c) /\ part < Len(blocks[c[whole + 1]].text)

\* The queue q with these blocks and this chain is left, and x has been sent.
Sent(q, blocks, c, whole, part, q2, more, d, x, y) ==
    /\ Holds(q2, more, d) /\ Len(d) = Len(c) - whole
    /\ x \in Strings /\ y \in Strings /\ Text(blocks, c) = x \o y /\ Text(more, d) = y
    /\ Len(x) = Size(blocks, SubSeq(c, 1, whole)) + part

\* A text in two parts.
LEMMA StringParts ==
    ASSUME NEW t \in Strings, NEW n \in 0 .. Len(t)
    PROVE  /\ SubSeq(t, 1, n) \in Strings /\ Len(SubSeq(t, 1, n)) = n
           /\ SubSeq(t, n + 1, Len(t)) \in Strings /\ Len(SubSeq(t, n + 1, Len(t))) = Len(t) - n
           /\ SubSeq(t, 1, n) \o SubSeq(t, n + 1, Len(t)) = t
<1>1. t \in Seq(Chars) /\ Len(t) \in Nat
  BY DEF Strings
<1>2. \A i \in 1 .. Len(t) : t[i] \in Chars
  BY <1>1, ElementOfSeq
<1>3. SubSeq(t, 1, n) \in Seq(Chars) /\ Len(SubSeq(t, 1, n)) = n
  <2>1. \A i \in 1 .. n : t[i] \in Chars
    BY <1>1, <1>2
  <2>2. SubSeq(t, 1, n) \in Seq(Chars) /\ Len(SubSeq(t, 1, n)) = IF 1 <= n THEN n - 1 + 1 ELSE 0
    BY <2>1, SubSeqProperties
  <2> QED BY <1>1, <2>2
<1>4. SubSeq(t, n + 1, Len(t)) \in Seq(Chars) /\ Len(SubSeq(t, n + 1, Len(t))) = Len(t) - n
  <2>1. (\A i \in n + 1 .. Len(t) : t[i] \in Chars) /\ n + 1 \in Int /\ Len(t) \in Int
    BY <1>1, <1>2
  <2>2. /\ SubSeq(t, n + 1, Len(t)) \in Seq(Chars)
        /\ Len(SubSeq(t, n + 1, Len(t))) = IF n + 1 <= Len(t) THEN Len(t) - (n + 1) + 1 ELSE 0
    BY <2>1, SubSeqProperties
  <2> QED BY <1>1, <2>2
<1>5. SubSeq(t, 1, n) \o SubSeq(t, n + 1, Len(t)) = t
  <2>1. SubSeq(t, 1, Len(t)) = t
    BY <1>1, SubSeqFull, Zenon
  <2>2. 1 \in 1 .. Len(t) + 1 /\ n \in 1 - 1 .. Len(t) /\ Len(t) \in n .. Len(t)
    BY <1>1
  <2>3. SubSeq(t, 1, n) \o SubSeq(t, n + 1, Len(t)) = SubSeq(t, 1, Len(t))
    BY <1>1, <2>2, ConcatAdjacentSubSeq, Zenon
  <2> QED BY <2>1, <2>3, Zenon
<1> QED BY <1>3, <1>4, <1>5 DEF Strings

LEMMA SentWhole ==
    ASSUME NEW q, NEW blocks, NEW c, Holds(q, blocks, c), NEW k \in 0 .. Len(c)
    PROVE  Sent(q, blocks, c, k, 0, QueueSent(q, c, k), BlocksSent(blocks, c, k, 0),
                SubSeq(c, k + 1, Len(c)), Text(blocks, SubSeq(c, 1, k)),
                Text(blocks, SubSeq(c, k + 1, Len(c))))
<1> DEFINE left == Freed(blocks, {c[i] : i \in 1 .. k})
           r == SubSeq(c, k + 1, Len(c))
           x == Text(blocks, SubSeq(c, 1, k))
           y == Text(blocks, r)
           q2 == QueueSent(q, c, k)
<1>1. /\ Typed(blocks) /\ q \in Queues /\ c \in Seq(Blocks) /\ (c = << >> <=> Len(c) = 0)
      /\ Len(c) \in Nat /\ q.lines = Len(c)
      /\ q.tail = IF c = << >> THEN AtHead ELSE c[Len(c)]
  BY HoldsParts DEF Holds
<1>2. /\ Typed(left) /\ r \in Seq(Blocks) /\ Len(r) = Len(c) - k
      /\ IsChain(left, IF k = Len(c) THEN NULL ELSE c[k + 1], r) /\ DOMAIN left = ToSet(r)
      /\ k < Len(c) => r[Len(r)] = c[Len(c)]
      /\ Text(left, r) = y
  <2>1. Cut(blocks, c, k, left, r)
    BY CutIs
  <2> HIDE DEF left, r, y
  <2> QED BY <2>1 DEF Cut, y
<1>3. x \in Strings /\ y \in Strings /\ Text(blocks, c) = x \o y
  BY TextParts
<1>4. BlocksSent(blocks, c, k, 0) = left
  BY DEF BlocksSent
<1> HIDE DEF left, r, x, y
<1>5. Holds(q2, left, r)
  <2>1. CASE k = Len(c)
    <3>1. q2 = [head |-> NULL, tail |-> AtHead, lines |-> 0]
      BY <2>1 DEF QueueSent
    <3>2. q2 \in Queues /\ q2.head = NULL /\ q2.tail = AtHead /\ q2.lines = 0
      BY <3>1 DEF Queues, Links
    <3>3. Len(r) = 0
      BY <1>1, <1>2, <2>1
    <3>4. r = << >>
      BY <1>2, <3>3, EmptySeq
    <3>5. IsChain(left, q2.head, r)
      BY <1>2, <2>1, <3>2
    <3> HIDE DEF q2
    <3> QED BY <1>2, <3>2, <3>3, <3>4, <3>5 DEF Holds
  <2>2. CASE k # Len(c)
    <3> DEFINE h == c[k + 1]
    <3>1. h \in Links
      <4>1. k + 1 \in 1 .. Len(c)
        BY <1>1, <2>2
      <4> QED BY <1>1, <4>1, ElementOfSeq DEF Links
    <3>2. PICK p \in Queues : p = [q EXCEPT !.head = h] /\ p.head = h /\ p.tail = q.tail /\ p.lines = q.lines
      <4>1. [q EXCEPT !.head = h] \in Queues
        BY <1>1, <3>1 DEF Queues
      <4>2. /\ [q EXCEPT !.head = h].head = h /\ [q EXCEPT !.head = h].tail = q.tail
            /\ [q EXCEPT !.head = h].lines = q.lines
        BY <1>1 DEF Queues
      <4> QED BY <4>1, <4>2
    <3>3. q2 = [p EXCEPT !.lines = q.lines - k]
      BY <2>2, <3>2, Zenon DEF QueueSent
    <3>4. q.lines - k \in Nat /\ q.lines - k = Len(r)
      BY <1>1, <1>2
    <3> HIDE DEF q2, h
    <3>5. q2 \in Queues /\ q2.head = h /\ q2.tail = q.tail /\ q2.lines = Len(r)
      BY <3>2, <3>3, <3>4 DEF Queues
    <3>6. k < Len(c) /\ Len(r) # 0 /\ c # << >>
      <4>1. k < Len(c)
        BY <1>1, <2>2
      <4>2. c # << >>
        BY <1>1, <4>1
      <4>3. Len(r) # 0
        BY <1>1, <1>2, <4>1
      <4> QED BY <4>1, <4>2, <4>3
    <3>7. r # << >>
      BY <1>2, <3>6, EmptySeq
    <3>8. IsChain(left, q2.head, r)
      BY <1>2, <2>2, <3>5 DEF h
    <3>9. q2.tail = r[Len(r)]
      BY <1>1, <1>2, <3>5, <3>6
    <3> QED BY <1>2, <3>5, <3>7, <3>8, <3>9 DEF Holds
  <2> QED BY <2>1, <2>2
<1>6. Len(x) \in Nat /\ Len(x) = Size(blocks, SubSeq(c, 1, k)) + 0
  <2>1. Len(x) \in Nat
    BY <1>3 DEF Strings
  <2> QED BY <2>1 DEF Size, x
<1> HIDE DEF q2
<1>7. Sent(q, blocks, c, k, 0, q2, left, r, x, y)
  BY <1>2, <1>3, <1>5, <1>6 DEF Sent
<1> QED BY <1>4, <1>7 DEF q2, r, x, y

\* A block loses the text u, the first of the chain c.
LosesText(q, blocks, c, more, part, u) ==
    /\ Holds(q, more, c) /\ u \in Strings /\ Len(u) = part
    /\ Text(blocks, c) = u \o Text(more, c)

LEMMA HeadShortened ==
    ASSUME NEW q, NEW blocks, NEW c, Holds(q, blocks, c), c # << >>, NEW h, IsChain(blocks, h, c),
           NEW part \in Nat, part < Len(blocks[h].text)
    PROVE  LosesText(q, blocks, c, Shortened(blocks, h, part), part, SubSeq(blocks[h].text, 1, part))
<1> DEFINE t == blocks[h].text
           u == SubSeq(t, 1, part)
           v == SubSeq(t, part + 1, Len(t))
           more == Shortened(blocks, h, part)
           r == SubSeq(c, 2, Len(c))
<1>1. /\ Typed(blocks) /\ q \in Queues /\ c \in Seq(Blocks) /\ InDomain(blocks, c)
      /\ DOMAIN blocks = ToSet(c) /\ IsChain(blocks, q.head, c) /\ q.lines = Len(c)
      /\ q.tail = IF c = << >> THEN AtHead ELSE c[Len(c)]
      /\ Len(c) \in Nat /\ (c = << >> <=> Len(c) = 0)
  BY HoldsParts DEF Holds
<1>2. 1 \in 1 .. Len(c) /\ 1 \in 0 .. Len(c) /\ h = c[1]
  <2>1. h = c[1]
    BY DEF IsChain
  <2> QED BY <1>1, <2>1
<1>3. h \in DOMAIN blocks /\ blocks[h] \in Cells /\ t \in Strings
  <2>1. h \in DOMAIN blocks
    BY <1>1, <1>2 DEF InDomain
  <2> QED BY <1>1, <2>1, CellFields DEF Typed
<1>4. u \in Strings /\ Len(u) = part /\ v \in Strings /\ u \o v = t
  <2>1. part \in 0 .. Len(t)
    <3>1. Len(t) \in Nat
      BY <1>3 DEF Strings
    <3> QED BY <3>1
  <2> HIDE DEF t
  <2> QED BY <1>3, <2>1, StringParts
<1>5. PICK cell \in Cells : /\ cell = [blocks[h] EXCEPT !.text = v]
                            /\ cell.nxt = blocks[h].nxt /\ cell.text = v
  <2> HIDE DEF v
  <2>1. [blocks[h] EXCEPT !.text = v] \in Cells
    BY <1>3, <1>4 DEF Cells, Strings
  <2>2. /\ [blocks[h] EXCEPT !.text = v].nxt = blocks[h].nxt
        /\ [blocks[h] EXCEPT !.text = v].text = v
    BY <1>3 DEF Cells
  <2> QED BY <2>1, <2>2
<1>6. more = [blocks EXCEPT ![h] = cell]
  BY <1>5 DEF Rest, Shortened
<1> HIDE DEF more
<1>7. /\ DOMAIN more = DOMAIN blocks /\ more[h] = cell
      /\ \A b \in DOMAIN blocks : b # h => more[b] = blocks[b]
  BY <1>3, <1>6
<1>8. Typed(more) /\ \A b \in DOMAIN blocks : more[b].nxt = blocks[b].nxt
  BY <1>1, <1>5, <1>7 DEF Typed
<1>9. Holds(q, more, c)
  <2>1. IsChain(more, q.head, c)
    BY <1>1, <1>7, <1>8, Zenon DEF IsChain
  <2> QED BY <1>1, <1>7, <1>8, <2>1 DEF Holds
<1> HIDE DEF r, t, u, v
<1>10. SubSeq(c, 1, 1) = <<h>>
  <2> DEFINE w == SubSeq(c, 1, 1)
  <2>1. c[1] \in Blocks /\ 1 \in Int
    BY <1>1, <1>2, ElementOfSeq
  <2>2. \A i \in 1 .. 1 : c[i] \in Blocks
    BY <2>1
  <2>3. /\ w \in Seq(Blocks) /\ Len(w) = IF 1 <= 1 THEN 1 - 1 + 1 ELSE 0
        /\ \A i \in 1 .. 1 - 1 + 1 : w[i] = c[1 + i - 1]
    BY <2>1, <2>2, SubSeqProperties
  <2> HIDE DEF w
  <2>4. w \in Seq(Blocks) /\ Len(w) = 1 /\ w[1] = h
    BY <1>2, <2>3
  <2>5. w = <<h>>
    BY <2>4
  <2> QED BY <2>5 DEF w
<1>11. 1 + 1 = 2
  OBVIOUS
<1>12. Text(blocks, c) = t \o Text(blocks, r) /\ Text(blocks, r) \in Strings
  <2>1. /\ Text(blocks, SubSeq(c, 1 + 1, Len(c))) \in Strings
        /\ Text(blocks, c) = Text(blocks, SubSeq(c, 1, 1)) \o Text(blocks, SubSeq(c, 1 + 1, Len(c)))
    BY <1>2, TextParts
  <2>2. Text(blocks, <<h>>) = t
    BY <1>1, <1>3, TextOne DEF t
  <2> QED BY <1>10, <1>11, <2>1, <2>2 DEF r
<1>13. Text(more, c) = v \o Text(more, r)
  <2>1. Text(more, c) = Text(more, SubSeq(c, 1, 1)) \o Text(more, SubSeq(c, 1 + 1, Len(c)))
    BY <1>2, <1>9, TextParts
  <2>2. Text(more, <<h>>) = v
    <3>1. h \in DOMAIN more
      BY <1>3, <1>7
    <3>2. Text(more, <<h>>) = more[h].text
      BY <1>8, <3>1, TextOne
    <3> QED BY <1>5, <1>7, <3>2, Zenon
  <2> QED BY <1>10, <1>11, <2>1, <2>2 DEF r
<1>14. Text(more, r) = Text(blocks, r)
  <2> DEFINE gone == {c[i] : i \in 1 .. 1}
  <2>1. Cut(blocks, c, 1, Freed(blocks, gone), SubSeq(c, 1 + 1, Len(c)))
    BY <1>2, CutIs
  <2>2. InDomain(Freed(blocks, gone), r)
    BY <1>11, <2>1 DEF Cut, r
  <2>3. h \in gone
    BY <1>2
  <2>4. \A i \in 1 .. Len(r) : r[i] \in DOMAIN blocks /\ r[i] # h
    <3>1. DOMAIN Freed(blocks, gone) = DOMAIN blocks \ gone
      BY DEF Freed
    <3> HIDE DEF gone
    <3> QED BY <2>2, <2>3, <3>1 DEF InDomain
  <2>5. \A i \in 1 .. Len(r) : more[r[i]].text = blocks[r[i]].text
    BY <1>7, <2>4
  <2> QED BY <2>5, TextSame
<1>15. Text(blocks, c) = u \o (v \o Text(blocks, r))
  <2>1. (u \o v) \o Text(blocks, r) = u \o (v \o Text(blocks, r))
    <3>1. u \in Seq(Chars) /\ v \in Seq(Chars) /\ Text(blocks, r) \in Seq(Chars)
      BY <1>4, <1>12 DEF Strings
    <3>2. Joined(Joined(u, v), Text(blocks, r)) = Joined(u, Joined(v, Text(blocks, r)))
      BY ONLY <3>1, JoinedAssociative
    <3> QED BY ONLY <3>2 DEF Joined
  <2> QED BY <1>4, <1>12, <2>1, Zenon
<1>16. LosesText(q, blocks, c, more, part, u)
  BY <1>4, <1>9, <1>13, <1>14, <1>15 DEF LosesText
<1> QED BY <1>16 DEF more, t, u

LEMMA SentIs ==
    ASSUME NEW q, NEW blocks, NEW c, Holds(q, blocks, c),
           NEW whole, NEW part, Sendable(blocks, c, whole, part)
    PROVE  \E d, y : Sent(q, blocks, c, whole, part, QueueSent(q, c, whole),
                          BlocksSent(blocks, c, whole, part), d, TextSent(blocks, c, whole, part), y)
<1> DEFINE q2 == QueueSent(q, c, whole)
           left == BlocksSent(blocks, c, whole, 0)
           more == BlocksSent(blocks, c, whole, part)
           d == SubSeq(c, whole + 1, Len(c))
           x == Text(blocks, SubSeq(c, 1, whole))
           y == Text(blocks, d)
           z == TextSent(blocks, c, whole, part)
           h == c[whole + 1]
           u == SubSeq(blocks[h].text, 1, part)
<1>1. whole \in 0 .. Len(c) /\ part \in Nat
      /\ (part > 0 => whole < Len(c) /\ part < Len(blocks[h].text))
  BY DEF Sendable
<1>2. Sent(q, blocks, c, whole, 0, q2, left, d, x, y)
  BY <1>1, SentWhole
<1>3. /\ Holds(q2, left, d) /\ Len(d) = Len(c) - whole
      /\ x \in Strings /\ y \in Strings /\ Text(blocks, c) = x \o y /\ Text(left, d) = y
      /\ Len(x) = Size(blocks, SubSeq(c, 1, whole))
  <2>1. Len(x) \in Nat
    BY <1>2 DEF Sent, Strings
  <2> HIDE DEF x, y, d, left, q2
  <2> QED BY <1>2, <2>1 DEF Sent, Size, x
<1>4. CASE part = 0
  <2>1. more = left
    BY <1>4 DEF BlocksSent
  <2>2. z = x
    <3>1. z = x \o << >>
      BY <1>4 DEF TextSent
    <3> HIDE DEF x, y
    <3> QED BY <1>3, <3>1, ConcatEmptySeq DEF Strings
  <2> HIDE DEF q2, left, more, x, y, z, d
  <2>3. Sent(q, blocks, c, whole, part, q2, more, d, z, y)
    BY <1>2, <1>4, <2>1, <2>2
  <2> QED BY <2>3 DEF q2, more, z
<1>5. CASE part # 0
  <2>1. part > 0 /\ whole < Len(c) /\ part < Len(blocks[h].text)
    BY <1>1, <1>5
  <2>2. left = Freed(blocks, {c[i] : i \in 1 .. whole})
    BY DEF BlocksSent
  <2>3. more = Shortened(left, h, part) /\ z = x \o u
    BY <2>1, <2>2, Zenon DEF BlocksSent, TextSent
  <2>4. /\ IsChain(left, h, d) /\ left[h] = blocks[h]
    <3>1. Cut(blocks, c, whole, left, d)
      BY <1>1, <2>2, CutIs
    <3>2. whole # Len(c)
      BY <2>1
    <3> HIDE DEF d, left
    <3> QED BY <2>1, <3>1, <3>2 DEF Cut
  <2> HIDE DEF left, more, d, z, x, y, q2
  <2>5. d # << >> /\ h = d[1]
    <3>1. Len(c) \in Nat
      BY HoldsParts
    <3>2. Len(d) # 0
      BY <1>1, <1>3, <2>1, <3>1
    <3>3. Len(<< >>) = 0
      OBVIOUS
    <3>4. d # << >>
      BY <3>2, <3>3
    <3> QED BY <2>4, <3>4 DEF IsChain
  <2> DEFINE rest == Shortened(left, h, part)
  <2>6. LosesText(q2, left, d, rest, part, SubSeq(left[h].text, 1, part))
    <3>1. part < Len(left[h].text)
      BY <2>1, <2>4
    <3> HIDE DEF h
    <3> QED BY <1>1, <1>3, <2>4, <2>5, <3>1, HeadShortened
  <2> HIDE DEF rest, h
  <2> DEFINE v == Text(more, d)
  <2>7. /\ Holds(q2, more, d) /\ u \in Strings /\ Len(u) = part /\ y = u \o v
    BY <1>3, <2>3, <2>4, <2>6 DEF rest, LosesText
  <2>8. v \in Strings
    BY <2>7, HoldsParts
  <2> HIDE DEF u, v
  <2>9. Text(blocks, c) = z \o v
    <3>1. x \in Seq(Chars) /\ u \in Seq(Chars) /\ v \in Seq(Chars)
      BY <1>3, <2>7, <2>8 DEF Strings
    <3>2. Joined(Joined(x, u), v) = Joined(x, Joined(u, v))
      BY ONLY <3>1, JoinedAssociative
    <3>3. (x \o u) \o v = x \o (u \o v)
      BY ONLY <3>2 DEF Joined
    <3> QED BY <1>3, <2>3, <2>7, <3>3, Zenon
  <2>10. z \in Strings /\ Len(z) = Size(blocks, SubSeq(c, 1, whole)) + part
    <3>1. x \in Seq(Chars) /\ u \in Seq(Chars)
      BY <1>3, <2>7 DEF Strings
    <3>2. x \o u \in Seq(Chars) /\ Len(x \o u) = Len(x) + Len(u)
      BY <3>1, ConcatProperties
    <3> QED BY <1>3, <2>3, <2>7, <3>2 DEF Strings
  <2>11. Sent(q, blocks, c, whole, part, q2, more, d, z, v)
    BY <1>3, <2>7, <2>8, <2>9, <2>10 DEF Sent, v
  <2> QED BY <2>11 DEF q2, more, z
<1> QED BY <1>1, <1>4, <1>5

-----------------------------------------------------------------------------
(* What is missing from a text.                                            *)

\* The i-th is the first character after the j-th, or after the beginning.
Follows(t, j, i) ==
    /\ t[i] # 0 /\ j < i /\ (j # 0 => t[j] # 0)
    /\ \A k \in 1 .. i - 1 : j < k => t[k] = 0

\* The characters are in order, and none is doubled.
Rising(t) == \A i, j \in 1 .. Len(t) : j < i /\ t[i] # 0 /\ t[j] # 0 => t[j] < t[i]

\* Where some are missing there is a whole notice.
Gaps(t) ==
    \A i \in 1 .. Len(t), j \in 0 .. Len(t) :
        Follows(t, j, i) => t[i] = (IF j = 0 THEN 0 ELSE t[j]) + 1 \/ i - j > Notice

\* u is t with a notice in the place of the x characters after the first a.
Replaced(t, u, a, x) ==
    /\ t \in Seq(Nat) /\ u \in Seq(Nat) /\ a \in Nat /\ x \in Nat
    /\ Len(t) >= a + x /\ Len(u) = Len(t) + Notice - x
    /\ \A i \in 1 .. a : u[i] = t[i]
    /\ \A i \in a + 1 .. a + Notice : u[i] = 0
    /\ \A i \in a + Notice + 1 .. Len(u) : u[i] = t[i - Notice + x]

LEMMA GapsReplaced ==
    ASSUME NEW t, NEW u, NEW a, NEW x, Replaced(t, u, a, x), Rising(t), Gaps(t)
    PROVE  Rising(u) /\ Gaps(u)
<1> DEFINE n == Len(t)
           m == Len(u)
           Old(i) == IF i <= a THEN i ELSE i - Notice + x
<1>1. /\ a \in Nat /\ x \in Nat /\ n \in Nat /\ m \in Nat /\ Notice \in Nat
      /\ n >= a + x /\ m = n + Notice - x
  BY DEF Replaced
<1>2. /\ \A i \in 1 .. a : u[i] = t[i]
      /\ \A i \in a + 1 .. a + Notice : u[i] = 0
      /\ \A i \in a + Notice + 1 .. m : u[i] = t[i - Notice + x]
  BY DEF Replaced
<1> HIDE DEF n, m
<1>3. ASSUME NEW i \in 1 .. m, u[i] # 0
      PROVE  /\ (i <= a \/ i > a + Notice) /\ Old(i) \in 1 .. n /\ u[i] = t[Old(i)]
  <2>1. i <= a \/ i > a + Notice
    <3>1. i \notin a + 1 .. a + Notice
      BY <1>2, <1>3
    <3> QED BY <1>1, <3>1
  <2>2. CASE i <= a
    <3>1. i \in 1 .. a /\ Old(i) = i /\ i \in 1 .. n
      BY <1>1, <2>2
    <3>2. u[i] = t[i]
      BY <1>2, <3>1
    <3> QED BY <2>1, <3>1, <3>2
  <2>3. CASE i > a + Notice
    <3>1. i \in a + Notice + 1 .. m /\ Old(i) = i - Notice + x /\ i - Notice + x \in 1 .. n
      BY <1>1, <2>3
    <3>2. u[i] = t[i - Notice + x]
      BY <1>2, <3>1
    <3> QED BY <2>1, <3>1, <3>2
  <2> QED BY <2>1, <2>2, <2>3
<1>4. Rising(u)
  <2> SUFFICES ASSUME NEW i \in 1 .. m, NEW j \in 1 .. m, j < i, u[i] # 0, u[j] # 0
               PROVE  u[j] < u[i]
    BY DEF Rising, m
  <2>1. /\ i <= a \/ i > a + Notice
        /\ j <= a \/ j > a + Notice
        /\ Old(i) \in 1 .. n /\ u[i] = t[Old(i)] /\ Old(j) \in 1 .. n /\ u[j] = t[Old(j)]
    BY <1>3
  <2>2. Old(j) < Old(i)
    BY <1>1, <2>1
  <2> HIDE DEF Old
  <2> QED BY <2>1, <2>2 DEF Rising, n
<1>5. Gaps(u)
  <2> SUFFICES ASSUME NEW i \in 1 .. m, NEW j \in 0 .. m, Follows(u, j, i)
               PROVE  u[i] = (IF j = 0 THEN 0 ELSE u[j]) + 1 \/ i - j > Notice
    BY DEF Gaps, m
  <2>1. /\ u[i] # 0 /\ j < i /\ (j # 0 => u[j] # 0)
        /\ \A k \in 1 .. i - 1 : j < k => u[k] = 0
    BY DEF Follows
  <2>2. (i <= a \/ i > a + Notice) /\ Old(i) \in 1 .. n /\ u[i] = t[Old(i)]
    BY <1>3, <2>1
  <2>3. j # 0 => (j <= a \/ j > a + Notice) /\ Old(j) \in 1 .. n /\ u[j] = t[Old(j)]
    <3>1. j # 0 => j \in 1 .. m
      BY <1>1
    <3> QED BY <1>3, <2>1, <3>1
  <2>4. CASE i <= a
    <3>1. j <= a /\ Old(i) = i /\ Old(j) = j /\ i \in 1 .. n /\ j \in 0 .. n
      BY <1>1, <2>1, <2>4
    <3>2. Follows(t, j, i)
      <4>1. \A k \in 1 .. i - 1 : k \in 1 .. a
        BY <1>1, <2>4
      <4>2. \A k \in 1 .. i - 1 : j < k => t[k] = 0
        BY <1>2, <2>1, <4>1
      <4>3. t[i] # 0 /\ (j # 0 => t[j] # 0)
        BY <2>1, <2>2, <2>3, <3>1
      <4> QED BY <2>1, <4>2, <4>3 DEF Follows
    <3>3. t[i] = (IF j = 0 THEN 0 ELSE t[j]) + 1 \/ i - j > Notice
      BY <3>1, <3>2 DEF Gaps, n
    <3> QED BY <2>2, <2>3, <3>1, <3>3
  <2>5. CASE i > a + Notice /\ j <= a
    BY <1>1, <2>5
  <2>6. CASE i > a + Notice /\ j > a + Notice
    <3> DEFINE i2 == i - Notice + x
               j2 == j - Notice + x
    <3>1. /\ Old(i) = i2 /\ Old(j) = j2 /\ j # 0 /\ j2 < i2 /\ i2 - j2 = i - j
          /\ i2 \in 1 .. n /\ j2 \in 1 .. n /\ j2 \in 0 .. n /\ j2 # 0
      BY <1>1, <2>1, <2>2, <2>3, <2>6
    <3>2. ASSUME NEW k \in 1 .. i2 - 1, j2 < k PROVE t[k] = 0
      <4>1. /\ k + Notice - x \in 1 .. i - 1 /\ j < k + Notice - x
            /\ k + Notice - x \in a + Notice + 1 .. m /\ (k + Notice - x) - Notice + x = k
        BY <1>1, <2>6, <3>2
      <4>2. u[k + Notice - x] = 0
        BY <2>1, <4>1
      <4>3. u[k + Notice - x] = t[(k + Notice - x) - Notice + x]
        BY <1>2, <4>1
      <4> QED BY <4>1, <4>2, <4>3
    <3>3. t[i2] = u[i] /\ t[j2] = u[j]
      BY <2>2, <2>3, <3>1
    <3> HIDE DEF i2, j2, Old
    <3>4. Follows(t, j2, i2)
      BY <2>1, <3>1, <3>2, <3>3 DEF Follows
    <3>5. t[i2] = t[j2] + 1 \/ i2 - j2 > Notice
      BY <3>1, <3>4 DEF Gaps, n
    <3> QED BY <3>1, <3>3, <3>5
  <2>7. CASE i > a + Notice /\ j > a /\ j <= a + Notice
    BY <1>1, <2>3, <2>7
  <2> QED BY <1>1, <2>2, <2>4, <2>5, <2>6, <2>7
<1> QED BY <1>4, <1>5

\* u is t with the characters that come after its last one.
Extended(t, u, w) ==
    /\ t \in Seq(Nat) /\ u \in Seq(Nat) /\ t # << >> /\ w \in Nat /\ t[Len(t)] = w + 1
    /\ Len(u) >= Len(t) /\ \A i \in 1 .. Len(t) : u[i] = t[i]
    /\ \A i \in Len(t) + 1 .. Len(u) : u[i] = w + 1 + (i - Len(t))

LEMMA GapsExtended ==
    ASSUME NEW t, NEW u, NEW w, Extended(t, u, w), Rising(t), Gaps(t)
    PROVE  Rising(u) /\ Gaps(u)
<1> DEFINE n == Len(t)
           m == Len(u)
<1>1. n \in Nat \ {0} /\ m \in Nat /\ n <= m /\ w \in Nat /\ t[n] = w + 1
  <2>1. t \in Seq(Nat) /\ t # << >> /\ u \in Seq(Nat)
    BY DEF Extended
  <2>2. n \in Nat /\ n # 0 /\ m \in Nat
    BY <2>1, EmptySeq
  <2> QED BY <2>2 DEF Extended
<1>2. /\ \A i \in 1 .. n : u[i] = t[i] /\ t[i] \in Nat
      /\ \A i \in n + 1 .. m : u[i] = w + 1 + (i - n)
  <2>1. t \in Seq(Nat)
    BY DEF Extended
  <2>2. \A i \in 1 .. n : t[i] \in Nat
    BY <2>1, ElementOfSeq
  <2> QED BY <2>2 DEF Extended
<1> HIDE DEF n, m
<1>3. \A i \in 1 .. n : t[i] <= w + 1
  <2> SUFFICES ASSUME NEW i \in 1 .. n PROVE t[i] <= w + 1
    OBVIOUS
  <2>1. n \in 1 .. n /\ t[n] # 0
    BY <1>1
  <2>2. i < n /\ t[i] # 0 => t[i] < t[n]
    BY <2>1 DEF Rising, n
  <2>3. t[i] \in Nat
    BY <1>2
  <2> QED BY <1>1, <2>2, <2>3
<1>4. Rising(u)
  <2> SUFFICES ASSUME NEW i \in 1 .. m, NEW j \in 1 .. m, j < i, u[i] # 0, u[j] # 0
               PROVE  u[j] < u[i]
    BY DEF Rising, m
  <2>1. CASE i <= n
    <3>1. i \in 1 .. n /\ j \in 1 .. n
      BY <1>1, <2>1
    <3>2. t[j] < t[i]
      BY <1>2, <3>1 DEF Rising, n
    <3> QED BY <1>2, <3>1, <3>2
  <2>2. CASE i > n
    <3>1. i \in n + 1 .. m /\ (j \in 1 .. n \/ j \in n + 1 .. m)
      BY <1>1, <2>2
    <3>2. u[i] = w + 1 + (i - n)
      BY <1>2, <3>1
    <3>3. CASE j \in 1 .. n
      <4>1. u[j] = t[j] /\ t[j] \in Nat /\ t[j] <= w + 1
        BY <1>2, <1>3, <3>3
      <4> QED BY <1>1, <2>2, <3>2, <4>1
    <3>4. CASE j \in n + 1 .. m
      <4>1. u[j] = w + 1 + (j - n)
        BY <1>2, <3>4
      <4> QED BY <1>1, <3>2, <4>1
    <3> QED BY <3>1, <3>3, <3>4
  <2> QED BY <1>1, <2>1, <2>2
<1>5. Gaps(u)
  <2> SUFFICES ASSUME NEW i \in 1 .. m, NEW j \in 0 .. m, Follows(u, j, i)
               PROVE  u[i] = (IF j = 0 THEN 0 ELSE u[j]) + 1 \/ i - j > Notice
    BY DEF Gaps, m
  <2>1. /\ u[i] # 0 /\ j < i /\ (j # 0 => u[j] # 0)
        /\ \A k \in 1 .. i - 1 : j < k => u[k] = 0
    BY DEF Follows
  <2>2. CASE i <= n
    <3>1. i \in 1 .. n /\ j \in 0 .. n /\ (j # 0 => j \in 1 .. n)
      BY <1>1, <2>1, <2>2
    <3>2. Follows(t, j, i)
      <4>1. \A k \in 1 .. i - 1 : k \in 1 .. n
        BY <1>1, <2>2
      <4> QED BY <1>2, <2>1, <3>1, <4>1 DEF Follows
    <3>3. t[i] = (IF j = 0 THEN 0 ELSE t[j]) + 1 \/ i - j > Notice
      BY <3>1, <3>2 DEF Gaps, n
    <3> QED BY <1>2, <3>1, <3>3
  <2>3. CASE i > n
    <3>1. i \in n + 1 .. m /\ i - 1 \in 1 .. m /\ i - 1 \in 1 .. i - 1
      BY <1>1, <2>3
    <3>2. u[i] = w + 1 + (i - n)
      BY <1>2, <3>1
    <3>3. u[i - 1] = w + 1 + (i - 1 - n) /\ u[i - 1] # 0
      <4>1. CASE i = n + 1
        <5>1. i - 1 = n /\ n \in 1 .. n
          BY <1>1, <4>1
        <5>2. u[i - 1] = w + 1
          BY <1>1, <1>2, <5>1
        <5> QED BY <1>1, <5>1, <5>2
      <4>2. CASE i # n + 1
        <5>1. i - 1 \in n + 1 .. m
          BY <1>1, <2>3, <4>2
        <5>2. u[i - 1] = w + 1 + ((i - 1) - n)
          BY <1>2, <5>1
        <5> QED BY <1>1, <5>1, <5>2
      <4> QED BY <4>1, <4>2
    <3>4. ~ (j < i - 1)
      BY <2>1, <3>1, <3>3
    <3>5. j = i - 1 /\ j # 0
      BY <1>1, <2>1, <2>3, <3>4
    <3> QED BY <1>1, <3>2, <3>3, <3>5
  <2> QED BY <1>1, <2>2, <2>3
<1> QED BY <1>4, <1>5

\* What NothingLostSilently looks at: what has been written, and the next character.
Whole(sent, left, w) == (sent \o left) \o <<w + 1>>

LEMMA StringIsNat == \A s \in Strings : s \in Seq(Nat)
<1> SUFFICES ASSUME NEW s \in Strings PROVE s \in Seq(Nat)
  OBVIOUS
<1>1. s \in Seq(Chars) /\ Len(s) \in Nat /\ s \in [1 .. Len(s) -> Chars]
  BY LenProperties DEF Strings
<1>2. Chars \subseteq Nat
  BY DEF Chars
<1>3. s \in [1 .. Len(s) -> Nat]
  BY <1>1, <1>2
<1> QED BY <1>1, <1>3

\* The characters of a whole text.
IsWhole(t, s, l, w) ==
    /\ t \in Seq(Nat) /\ t # << >> /\ Len(t) = Len(s) + Len(l) + 1 /\ Len(s) \in Nat /\ Len(l) \in Nat
    /\ \A i \in 1 .. Len(s) : t[i] = s[i]
    /\ \A i \in Len(s) + 1 .. Len(s) + Len(l) : t[i] = l[i - Len(s)]
    /\ t[Len(s) + Len(l) + 1] = w + 1

LEMMA WholeIs ==
    ASSUME NEW s \in Strings, NEW l \in Strings, NEW w \in Nat
    PROVE  IsWhole(Whole(s, l, w), s, l, w)
<1> DEFINE f == s \o l
           e == <<w + 1>>
           t == f \o e
<1>1. s \in Seq(Nat) /\ l \in Seq(Nat) /\ Len(s) \in Nat /\ Len(l) \in Nat
  <2>1. s \in Seq(Nat) /\ l \in Seq(Nat)
    BY StringIsNat
  <2> QED BY <2>1
<1>2. e \in Seq(Nat) /\ Len(e) = 1 /\ e[1] = w + 1
  OBVIOUS
<1>3. /\ f \in Seq(Nat) /\ Len(f) = Len(s) + Len(l)
      /\ \A i \in 1 .. Len(s) + Len(l) : f[i] = IF i <= Len(s) THEN s[i] ELSE l[i - Len(s)]
  BY <1>1, ConcatProperties
<1> HIDE DEF f, e
<1>4. /\ t \in Seq(Nat) /\ Len(t) = Len(f) + 1
      /\ \A i \in 1 .. Len(f) + 1 : t[i] = IF i <= Len(f) THEN f[i] ELSE e[i - Len(f)]
  <2>1. /\ t \in Seq(Nat) /\ Len(t) = Len(f) + Len(e)
        /\ \A i \in 1 .. Len(f) + Len(e) : t[i] = IF i <= Len(f) THEN f[i] ELSE e[i - Len(f)]
    BY ZenonT(40), <1>2, <1>3, ConcatProperties
  <2> HIDE DEF t
  <2> QED BY <1>2, <2>1
<1> HIDE DEF t
<1>5. Len(t) = Len(s) + Len(l) + 1 /\ Len(t) # 0
  BY <1>1, <1>3, <1>4
<1>6. t # << >>
  BY <1>4, <1>5, EmptySeq
<1>0. Len(f) = Len(s) + Len(l) /\ Len(s) \in Nat /\ Len(l) \in Nat
  BY <1>1, <1>3
<1>7. \A i \in 1 .. Len(s) : t[i] = s[i]
  <2> SUFFICES ASSUME NEW i \in 1 .. Len(s) PROVE t[i] = s[i]
    OBVIOUS
  <2>1. i \in 1 .. Len(s) + Len(l) /\ i \in 1 .. Len(f) + 1 /\ i <= Len(f) /\ i <= Len(s)
    BY <1>0
  <2>2. t[i] = f[i]
    BY <1>4, <2>1
  <2>3. f[i] = s[i]
    BY <1>3, <2>1
  <2> QED BY <2>2, <2>3
<1>8. \A i \in Len(s) + 1 .. Len(s) + Len(l) : t[i] = l[i - Len(s)]
  <2> SUFFICES ASSUME NEW i \in Len(s) + 1 .. Len(s) + Len(l) PROVE t[i] = l[i - Len(s)]
    OBVIOUS
  <2>1. i \in 1 .. Len(s) + Len(l) /\ i \in 1 .. Len(f) + 1 /\ i <= Len(f) /\ ~ (i <= Len(s))
    BY <1>0
  <2>2. t[i] = f[i]
    BY <1>4, <2>1
  <2>3. f[i] = l[i - Len(s)]
    BY <1>3, <2>1
  <2> QED BY <2>2, <2>3
<1>9. t[Len(s) + Len(l) + 1] = w + 1
  <2>1. /\ Len(f) + 1 \in 1 .. Len(f) + 1 /\ ~ (Len(f) + 1 <= Len(f)) /\ (Len(f) + 1) - Len(f) = 1
        /\ Len(s) + Len(l) + 1 = Len(f) + 1
    BY <1>0
  <2>2. t[Len(f) + 1] = e[(Len(f) + 1) - Len(f)]
    BY <1>4, <2>1
  <2> QED BY <1>2, <2>1, <2>2
<1>10. IsWhole(t, s, l, w)
  BY <1>1, <1>4, <1>5, <1>6, <1>7, <1>8, <1>9 DEF IsWhole
<1> QED BY <1>10 DEF t, f, e, Whole

\* A notice takes the place of the beginning of what is left.
LEMMA WholeReplaced ==
    ASSUME NEW s \in Strings, NEW x \in Strings, NEW y \in Strings, NEW w \in Nat
    PROVE  Replaced(Whole(s, x \o y, w), Whole(s, Zeros \o y, w), Len(s), Len(x))
<1> DEFINE l == x \o y
           k == Zeros \o y
           t == Whole(s, l, w)
           u == Whole(s, k, w)
<1>1. x \in Seq(Chars) /\ y \in Seq(Chars) /\ Zeros \in Seq(Chars) /\ Len(Zeros) = Notice
      /\ (\A i \in 1 .. Notice : Zeros[i] = 0) /\ Notice \in Nat
  BY ZerosType DEF Strings
<1>2. /\ l \in Strings /\ Len(l) = Len(x) + Len(y) /\ Len(x) \in Nat /\ Len(y) \in Nat
      /\ \A i \in 1 .. Len(x) + Len(y) : l[i] = IF i <= Len(x) THEN x[i] ELSE y[i - Len(x)]
  BY <1>1, ConcatProperties DEF Strings
<1>3. /\ k \in Strings /\ Len(k) = Notice + Len(y)
      /\ \A i \in 1 .. Notice + Len(y) : k[i] = IF i <= Notice THEN Zeros[i] ELSE y[i - Notice]
  <2>1. /\ k \in Seq(Chars) /\ Len(k) = Len(Zeros) + Len(y)
        /\ \A i \in 1 .. Len(Zeros) + Len(y) : k[i] = IF i <= Len(Zeros) THEN Zeros[i] ELSE y[i - Len(Zeros)]
    BY <1>1, ConcatProperties
  <2> HIDE DEF k
  <2> QED BY <1>1, <2>1 DEF Strings
<1> HIDE DEF l, k
<1>4. IsWhole(t, s, l, w) /\ IsWhole(u, s, k, w)
  BY <1>2, <1>3, WholeIs
<1> HIDE DEF t, u
<1> DEFINE a == Len(s)
           p == Len(x)
           r == Len(y)
<1>5. /\ a \in Nat /\ p \in Nat /\ r \in Nat
      /\ t \in Seq(Nat) /\ u \in Seq(Nat) /\ Len(t) = a + p + r + 1 /\ Len(u) = a + Notice + r + 1
      /\ \A i \in 1 .. a : t[i] = s[i] /\ u[i] = s[i]
      /\ \A i \in a + 1 .. a + p + r : t[i] = l[i - a]
      /\ \A i \in a + 1 .. a + Notice + r : u[i] = k[i - a]
      /\ t[a + p + r + 1] = w + 1 /\ u[a + Notice + r + 1] = w + 1
  <2>1. a \in Nat /\ p \in Nat /\ r \in Nat
    BY <1>2, <1>4 DEF IsWhole
  <2>2. /\ t \in Seq(Nat) /\ Len(t) = a + Len(l) + 1
        /\ \A i \in 1 .. a : t[i] = s[i]
        /\ \A i \in a + 1 .. a + Len(l) : t[i] = l[i - a]
        /\ t[a + Len(l) + 1] = w + 1
    BY <1>4 DEF IsWhole
  <2>3. /\ u \in Seq(Nat) /\ Len(u) = a + Len(k) + 1
        /\ \A i \in 1 .. a : u[i] = s[i]
        /\ \A i \in a + 1 .. a + Len(k) : u[i] = k[i - a]
        /\ u[a + Len(k) + 1] = w + 1
    BY <1>4 DEF IsWhole
  <2>4. a + Len(l) = a + p + r /\ a + Len(k) = a + Notice + r
    BY <1>1, <1>2, <1>3, <2>1
  <2> HIDE DEF a, p, r
  <2> QED BY <2>1, <2>2, <2>3, <2>4
<1> HIDE DEF a, p, r
<1>6. \A i \in a + 1 .. a + Notice : u[i] = 0
  <2> SUFFICES ASSUME NEW i \in a + 1 .. a + Notice PROVE u[i] = 0
    OBVIOUS
  <2>1. /\ i \in a + 1 .. a + Notice + r /\ i - a \in 1 .. Notice + r /\ i - a \in 1 .. Notice
        /\ i - a <= Notice
    BY <1>1, <1>5
  <2>2. u[i] = k[i - a]
    BY <1>5, <2>1
  <2>3. k[i - a] = Zeros[i - a]
    BY <1>3, <2>1 DEF r
  <2> QED BY <1>1, <2>1, <2>2, <2>3
<1>7. \A i \in a + Notice + 1 .. Len(u) : u[i] = t[i - Notice + p]
  <2> SUFFICES ASSUME NEW i \in a + Notice + 1 .. Len(u) PROVE u[i] = t[i - Notice + p]
    OBVIOUS
  <2>1. CASE i = a + Notice + r + 1
    <3>1. i - Notice + p = a + p + r + 1
      BY <1>1, <1>5, <2>1
    <3> QED BY <1>5, <2>1, <3>1
  <2>2. CASE i # a + Notice + r + 1
    <3> DEFINE o == i - Notice + p
    <3>1. /\ i \in a + 1 .. a + Notice + r /\ o \in a + 1 .. a + p + r
          /\ i - a \in 1 .. Notice + r /\ ~ (i - a <= Notice)
          /\ o - a \in 1 .. p + r /\ ~ (o - a <= p) /\ (o - a) - p = (i - a) - Notice
      BY <1>1, <1>5, <2>2
    <3> HIDE DEF o
    <3>2. u[i] = k[i - a] /\ t[o] = l[o - a]
      BY <1>5, <3>1
    <3>3. k[i - a] = y[(i - a) - Notice]
      BY <1>3, <3>1 DEF r
    <3>4. l[o - a] = y[(o - a) - p]
      BY <1>2, <3>1 DEF r, p
    <3> QED BY <3>1, <3>2, <3>3, <3>4 DEF o
  <2> QED BY <2>1, <2>2
<1>8. Replaced(t, u, a, p)
  <2>1. Len(t) >= a + p /\ Len(u) = Len(t) + Notice - p
    <3>1. /\ Len(t) = a + p + r + 1 /\ Len(u) = a + Notice + r + 1
          /\ a \in Nat /\ p \in Nat /\ r \in Nat /\ Notice \in Nat
      BY <1>1, <1>5
    <3> QED BY <3>1
  <2> QED BY <1>5, <1>6, <1>7, <2>1 DEF Replaced
<1> QED BY <1>8 DEF t, u, l, k, a, p

\* The next characters are written.
LEMMA WholeExtended ==
    ASSUME NEW s \in Strings, NEW l \in Strings, NEW w \in Nat, NEW n \in Nat,
           NEW new \in Strings, Len(new) = n, \A i \in 1 .. n : new[i] = w + i
    PROVE  Extended(Whole(s, l, w), Whole(s, l \o new, w + n), w)
<1> DEFINE k == l \o new
           t == Whole(s, l, w)
           u == Whole(s, k, w + n)
<1>1. /\ k \in Strings /\ Len(k) = Len(l) + n /\ Len(l) \in Nat
      /\ \A i \in 1 .. Len(l) + n : k[i] = IF i <= Len(l) THEN l[i] ELSE new[i - Len(l)]
  <2>1. l \in Seq(Chars) /\ new \in Seq(Chars) /\ Len(l) \in Nat
    BY DEF Strings
  <2>2. /\ k \in Seq(Chars) /\ Len(k) = Len(l) + Len(new)
        /\ \A i \in 1 .. Len(l) + Len(new) : k[i] = IF i <= Len(l) THEN l[i] ELSE new[i - Len(l)]
    BY <2>1, ConcatProperties
  <2> HIDE DEF k
  <2> QED BY <2>1, <2>2 DEF Strings
<1> HIDE DEF k
<1>2. w + n \in Nat
  OBVIOUS
<1>3. IsWhole(t, s, l, w) /\ IsWhole(u, s, k, w + n)
  BY <1>1, <1>2, WholeIs
<1> HIDE DEF t, u
<1> DEFINE a == Len(s)
           p == Len(l)
<1>4. /\ a \in Nat /\ p \in Nat /\ t # << >>
      /\ t \in Seq(Nat) /\ u \in Seq(Nat) /\ Len(t) = a + p + 1 /\ Len(u) = a + p + n + 1
      /\ \A i \in 1 .. a : t[i] = s[i] /\ u[i] = s[i]
      /\ \A i \in a + 1 .. a + p : t[i] = l[i - a]
      /\ \A i \in a + 1 .. a + p + n : u[i] = k[i - a]
      /\ t[a + p + 1] = w + 1 /\ u[a + p + n + 1] = w + n + 1
  <2>1. a \in Nat /\ p \in Nat
    BY <1>1, <1>3 DEF IsWhole
  <2>2. /\ t \in Seq(Nat) /\ t # << >> /\ Len(t) = a + p + 1
        /\ \A i \in 1 .. a : t[i] = s[i]
        /\ \A i \in a + 1 .. a + p : t[i] = l[i - a]
        /\ t[a + p + 1] = w + 1
    BY <1>3 DEF IsWhole
  <2>3. /\ u \in Seq(Nat) /\ Len(u) = a + Len(k) + 1
        /\ \A i \in 1 .. a : u[i] = s[i]
        /\ \A i \in a + 1 .. a + Len(k) : u[i] = k[i - a]
        /\ u[a + Len(k) + 1] = w + n + 1
    BY <1>3 DEF IsWhole
  <2>4. a + Len(k) = a + p + n
    BY <1>1, <2>1
  <2> HIDE DEF a, p
  <2> QED BY <2>1, <2>2, <2>3, <2>4
<1> HIDE DEF a, p
<1>5. ASSUME NEW i \in a + p + 1 .. a + p + n PROVE u[i] = w + (i - (a + p))
  <2>1. /\ i \in a + 1 .. a + p + n /\ i - a \in 1 .. p + n /\ ~ (i - a <= p)
        /\ (i - a) - p \in 1 .. n /\ (i - a) - p = i - (a + p)
    BY <1>4
  <2>2. u[i] = k[i - a]
    BY <1>4, <2>1
  <2>3. k[i - a] = new[(i - a) - p]
    BY <1>1, <2>1 DEF p
  <2> QED BY <2>1, <2>2, <2>3
<1>6. \A i \in 1 .. Len(t) : u[i] = t[i]
  <2> SUFFICES ASSUME NEW i \in 1 .. a + p + 1 PROVE u[i] = t[i]
    BY <1>4
  <2>1. CASE i <= a
    <3>1. a \in Nat
      BY <1>4
    <3>2. i \in 1 .. a
      BY <2>1, <3>1
    <3>3. t[i] = s[i] /\ u[i] = s[i]
      BY <1>4, <3>2, Zenon
    <3> QED BY <3>3
  <2>2. CASE i > a /\ i <= a + p
    <3>1. i \in a + 1 .. a + p /\ i \in a + 1 .. a + p + n /\ i - a \in 1 .. p + n /\ i - a <= p
      BY <1>4, <2>2
    <3>2. t[i] = l[i - a] /\ u[i] = k[i - a]
      BY <1>4, <3>1
    <3>3. k[i - a] = l[i - a]
      BY <1>1, <3>1 DEF p
    <3> QED BY <3>2, <3>3
  <2>3. CASE i = a + p + 1
    <3>1. CASE n = 0
      BY <1>4, <2>3, <3>1
    <3>2. CASE n # 0
      <4>1. i \in a + p + 1 .. a + p + n /\ i - (a + p) = 1
        BY <1>4, <2>3, <3>2
      <4>2. u[i] = w + 1
        BY <1>5, <4>1
      <4> QED BY <1>4, <2>3, <4>2
    <3> QED BY <3>1, <3>2
  <2>4. a \in Nat /\ p \in Nat
    BY <1>4
  <2>5. i <= a \/ (i > a /\ i <= a + p) \/ i = a + p + 1
    BY <2>4
  <2> QED BY <2>1, <2>2, <2>3, <2>5, Zenon
<1>7. \A i \in Len(t) + 1 .. Len(u) : u[i] = w + 1 + (i - Len(t))
  <2> SUFFICES ASSUME NEW i \in a + p + 2 .. a + p + n + 1
               PROVE  u[i] = w + 1 + (i - (a + p + 1))
    BY <1>4
  <2>1. CASE i = a + p + n + 1
    BY <1>4, <2>1
  <2>2. CASE i # a + p + n + 1
    <3>1. i \in a + p + 1 .. a + p + n
      BY <1>4, <2>2
    <3>2. u[i] = w + (i - (a + p))
      BY <1>5, <3>1
    <3> QED BY <1>4, <3>2
  <2> QED BY <2>1, <2>2
<1>8. Extended(t, u, w)
  BY <1>4, <1>6, <1>7 DEF Extended
<1> QED BY <1>8 DEF t, u, k

-----------------------------------------------------------------------------
(* The invariant.                                                          *)

\* Nothing is missing without a notice, and nothing is doubled or out of order.
Told(sent, left, w) == Rising(Whole(sent, left, w)) /\ Gaps(Whole(sent, left, w))

\* The queue with the chain c agrees with its counts and with what was sent.
Core(q, blocks, size, w, sent, c) ==
    /\ Holds(q, blocks, c) /\ size = Len(Text(blocks, c))
    /\ w \in Chars /\ sent \in Strings /\ Told(sent, Text(blocks, c), w)
    /\ size <= tp_max_output \/ q.lines <= 2

InputOK ==
    /\ input \in Seq(Lines) /\ Len(input) <= MaxInput /\ blocked \in BOOLEAN
    /\ quota \in 0 .. tp_command_burst_size + MaxCredit
    /\ since \in -(tp_command_time - 1) .. tp_command_time - 1 /\ back \in 0 .. MaxBack

QueueInv ==
    /\ Core(queue, block, output_size, written, wire, Chain(block, queue.head))
    /\ booted \in BOOLEAN /\ InputOK

LEMMA CoreIs ==
    ASSUME NEW q, NEW blocks, NEW size, NEW w, NEW sent, NEW c, Core(q, blocks, size, w, sent, c)
    PROVE  Core(q, blocks, size, w, sent, Chain(blocks, q.head))
<1>1. Chain(blocks, q.head) = c
  BY HoldsParts DEF Core
<1> QED BY <1>1

\* What queue_write() adds the text to.
MadeRoom(q, blocks, space) ==
    IF space < 0 THEN FlushQueue([q |-> q, blocks |-> blocks], -space)
    ELSE [q |-> q, blocks |-> blocks, flushed |-> 0]

Roomy(m, c, size, w, sent, n, d) ==
    /\ Holds(m.q, m.blocks, d) /\ Len(d) <= Len(c) + 1
    /\ size - m.flushed = Len(Text(m.blocks, d)) /\ Told(sent, Text(m.blocks, d), w)
    /\ size - m.flushed + n <= tp_max_output \/ Len(d) <= 1

LEMMA RoomIsMade ==
    ASSUME NEW q, NEW blocks, NEW size, NEW w, NEW sent, NEW c, Core(q, blocks, size, w, sent, c),
           NEW n \in Nat, \E b \in Blocks : b \notin DOMAIN blocks
    PROVE  \E d : Roomy(MadeRoom(q, blocks, tp_max_output - size - n), c, size, w, sent, n, d)
<1> DEFINE space == tp_max_output - size - n
           m == MadeRoom(q, blocks, space)
<1>1. /\ Holds(q, blocks, c) /\ Text(blocks, c) \in Strings /\ Len(c) \in Nat
      /\ size \in Nat /\ size = Len(Text(blocks, c))
      /\ w \in Nat /\ sent \in Strings /\ Told(sent, Text(blocks, c), w)
  <2>1. Text(blocks, c) \in Strings /\ Len(c) \in Nat
    BY HoldsParts DEF Core
  <2>2. Len(Text(blocks, c)) \in Nat
    BY <2>1 DEF Strings
  <2>3. w \in Nat
    BY DEF Core, Chars
  <2> QED BY <2>1, <2>2, <2>3 DEF Core
<1>2. tp_max_output \in Nat /\ Notice \in Nat /\ space \in Int
  BY <1>1
<1>3. CASE space < 0
  <2>1. m = FlushQueue([q |-> q, blocks |-> blocks], -space) /\ -space \in Nat
    BY <1>2, <1>3 DEF MadeRoom
  <2>2. PICK d, x, y, k : Flushed(FlushQueue([q |-> q, blocks |-> blocks], -space), blocks, c, -space, d, x, y, k)
    <3> HIDE DEF space
    <3> QED BY <1>1, <2>1, FlushIs
  <2> HIDE DEF m
  <2>3. /\ Holds(m.q, m.blocks, d) /\ Len(d) = Len(c) - k + 1 /\ k \in 0 .. Len(c)
        /\ x \in Strings /\ y \in Strings
        /\ Text(blocks, c) = x \o y /\ Text(m.blocks, d) = Zeros \o y
        /\ m.flushed = Len(x) - Notice
        /\ k = Len(c) \/ Len(x) >= -space + Notice
    BY <2>1, <2>2 DEF Flushed
  <2>4. /\ Len(x) \in Nat /\ Len(y) \in Nat /\ Len(x \o y) = Len(x) + Len(y)
        /\ Len(Zeros \o y) = Notice + Len(y)
    <3>1. x \in Seq(Chars) /\ y \in Seq(Chars) /\ Zeros \in Seq(Chars) /\ Len(Zeros) = Notice
      BY <2>3, ZerosType DEF Strings
    <3>2. Len(x \o y) = Len(x) + Len(y) /\ Len(Zeros \o y) = Len(Zeros) + Len(y)
      BY <3>1, ConcatProperties
    <3> QED BY <3>1, <3>2
  <2>5. size - m.flushed = Notice + Len(y) /\ size = Len(x) + Len(y)
    BY <1>1, <1>2, <2>3, <2>4
  <2>6. Told(sent, Text(m.blocks, d), w)
    <3>1. Replaced(Whole(sent, x \o y, w), Whole(sent, Zeros \o y, w), Len(sent), Len(x))
      BY <1>1, <2>3, WholeReplaced
    <3>2. Rising(Whole(sent, x \o y, w)) /\ Gaps(Whole(sent, x \o y, w))
      BY <1>1, <2>3 DEF Told
    <3>3. Rising(Whole(sent, Zeros \o y, w)) /\ Gaps(Whole(sent, Zeros \o y, w))
      BY <3>1, <3>2, GapsReplaced
    <3> QED BY <2>3, <3>3 DEF Told
  <2>7. size - m.flushed + n <= tp_max_output \/ Len(d) <= 1
    <3>1. CASE k = Len(c)
      BY <1>1, <2>3, <3>1
    <3>2. CASE Len(x) >= -space + Notice
      <4>1. Len(x) >= -(tp_max_output - size - n) + Notice
        BY <3>2
      <4>2. size - m.flushed + n <= tp_max_output
        BY ONLY <1>1, <1>2, <2>4, <2>5, <4>1, n \in Nat
      <4> QED BY <4>2
    <3> QED BY <2>3, <3>1, <3>2
  <2>8. Len(d) <= Len(c) + 1
    BY <1>1, <2>3
  <2>9. size - m.flushed = Len(Text(m.blocks, d))
    BY <2>3, <2>4, <2>5
  <2>10. Roomy(m, c, size, w, sent, n, d)
    BY <2>3, <2>6, <2>7, <2>8, <2>9 DEF Roomy
  <2> QED BY <2>10 DEF m
<1>4. CASE ~ (space < 0)
  <2>1. m = [q |-> q, blocks |-> blocks, flushed |-> 0]
    BY SMTT(40), <1>4 DEF MadeRoom
  <2> HIDE DEF m
  <2>2. m.q = q /\ m.blocks = blocks /\ m.flushed = 0
    BY <2>1
  <2>3. size - m.flushed = size /\ size + n <= tp_max_output
    <3>1. ~ (tp_max_output - size - n < 0)
      BY <1>4
    <3> QED BY <1>1, <1>2, <2>2, <3>1
  <2>4. Len(c) <= Len(c) + 1
    BY <1>1
  <2>5. Roomy(m, c, size, w, sent, n, c)
    BY <1>1, <2>2, <2>3, <2>4 DEF Roomy
  <2> QED BY <2>5 DEF m
<1> QED BY <1>3, <1>4

LEMMA WriteKeeps ==
    ASSUME QueueInv, NEW n \in Nat, QueueWrite(n)
    PROVE  \E d : Core(queue', block', output_size', written', wire', d)
<1> DEFINE c == Chain(block, queue.head)
           space == tp_max_output - output_size - n
           made == MadeRoom(queue, block, space)
           new == [i \in 1 .. n |-> written + i]
           after == AddToQueue([q |-> made.q, blocks |-> made.blocks], new)
<1>1. /\ queue' = after.q /\ block' = after.blocks /\ output_size' = output_size - made.flushed + n
      /\ written' = written + n /\ wire' = wire /\ written + n <= MaxText
      /\ Cardinality(DOMAIN block) + 2 <= Cardinality(Blocks)
  BY Zenon DEF QueueWrite, MadeRoom
<1>2. /\ Core(queue, block, output_size, written, wire, c)
      /\ written \in Nat /\ wire \in Strings
  BY DEF QueueInv, Core, Chars
<1> HIDE DEF c, made
<1>3. Len(c) \in Nat /\ Cardinality(Blocks) \in Nat /\ Len(c) + 2 <= Cardinality(Blocks)
  <2>1. Holds(queue, block, c)
    BY <1>2 DEF Core
  <2> QED BY <1>1, <2>1, BlocksCounted, HoldsParts
<1>4. PICK d : Roomy(made, c, output_size, written, wire, n, d)
  <2>1. \E b \in Blocks : b \notin DOMAIN block
    <3>1. Holds(queue, block, c) /\ Len(c) < Cardinality(Blocks)
      BY <1>2, <1>3 DEF Core
    <3> QED BY <3>1, OneIsUnused
  <2>2. \E d : Roomy(MadeRoom(queue, block, tp_max_output - output_size - n), c, output_size, written, wire, n, d)
    BY <1>2, <2>1, RoomIsMade
  <2> QED BY <2>2 DEF made
<1>5. /\ Holds(made.q, made.blocks, d) /\ Len(d) <= Len(c) + 1
      /\ output_size - made.flushed = Len(Text(made.blocks, d))
      /\ Told(wire, Text(made.blocks, d), written)
      /\ output_size - made.flushed + n <= tp_max_output \/ Len(d) <= 1
  BY <1>4 DEF Roomy
<1>6. Text(made.blocks, d) \in Strings /\ Len(d) \in Nat /\ made.q.lines = Len(d)
  BY <1>5, HoldsParts
<1> DEFINE left == Text(made.blocks, d)
<1>7. /\ new \in Strings /\ Len(new) = n /\ (new = << >> <=> n = 0)
      /\ \A i \in 1 .. n : new[i] = written + i
  <2>1. MaxText \in Nat /\ \A i \in 1 .. n : written + i \in Chars
    BY <1>1, <1>2 DEF Chars
  <2>2. new \in [1 .. n -> Chars]
    BY <2>1
  <2>3. new \in Seq(Chars) /\ Len(new) = n
    <3>1. \A m \in Nat : \A t \in [1 .. m -> Chars] : t \in Seq(Chars) /\ Len(t) = m
      OBVIOUS
    <3> QED BY <2>2, <3>1
  <2>4. \A i \in 1 .. n : new[i] = written + i
    OBVIOUS
  <2> HIDE DEF new
  <2> QED BY <2>3, <2>4, EmptySeq DEF Strings
<1> HIDE DEF new, after
<1>8. \E e : /\ Holds(after.q, after.blocks, e) /\ Text(after.blocks, e) = left \o new
             /\ Len(e) <= Len(d) + 1
  <2>1. CASE n = 0
    <3>1. after = [q |-> made.q, blocks |-> made.blocks]
      BY <1>7, <2>1 DEF AddToQueue, after
    <3>2. after.q = made.q /\ after.blocks = made.blocks
      BY <3>1
    <3>3. left \o new = left
      <4>1. left \in Seq(Chars) /\ new = << >>
        BY <1>6, <1>7, <2>1 DEF Strings
      <4> HIDE DEF left
      <4> QED BY <4>1, ConcatEmptySeq
    <3>4. Len(d) <= Len(d) + 1
      BY <1>6
    <3> QED BY <1>5, <3>2, <3>3, <3>4
  <2>2. CASE n # 0
    <3>1. new # << >>
      BY <1>7, <2>2
    <3>2. \E b \in Blocks : b \notin DOMAIN made.blocks
      <4>1. Len(d) < Cardinality(Blocks)
        BY <1>3, <1>5, <1>6
      <4> QED BY <1>5, <4>1, OneIsUnused
    <3>3. PICK e : Added(after, made.blocks, d, new, e)
      BY <1>5, <1>7, <3>1, <3>2, AddedKeeps DEF after
    <3>4. Holds(after.q, after.blocks, e) /\ Text(after.blocks, e) = left \o new /\ Len(e) = Len(d) + 1
      BY <3>3 DEF Added
    <3>5. Len(e) <= Len(d) + 1
      BY <1>6, <3>4
    <3> QED BY <3>4, <3>5
  <2> QED BY <2>1, <2>2
<1>9. PICK e : /\ Holds(after.q, after.blocks, e) /\ Text(after.blocks, e) = left \o new
               /\ Len(e) <= Len(d) + 1
  BY <1>8
<1>10. Told(wire, left \o new, written + n)
  <2>1. left \in Strings
    BY <1>6
  <2>2. Rising(Whole(wire, left, written)) /\ Gaps(Whole(wire, left, written))
    BY <1>5 DEF Told
  <2> HIDE DEF left
  <2>3. Extended(Whole(wire, left, written), Whole(wire, left \o new, written + n), written)
    BY <1>2, <1>7, <2>1, WholeExtended
  <2> QED BY <2>2, <2>3, GapsExtended DEF Told
<1>11. Len(left \o new) = Len(left) + n /\ Len(left) \in Nat
  <2>1. left \in Seq(Chars) /\ new \in Seq(Chars) /\ Len(left) \in Nat
    BY <1>6, <1>7 DEF Strings
  <2> HIDE DEF left
  <2> QED BY <1>7, <2>1, ConcatProperties
<1> HIDE DEF left
<1>12. output_size' = Len(Text(after.blocks, e))
  <2>1. output_size - made.flushed = Len(left)
    BY <1>5 DEF left
  <2> QED BY <1>1, <1>9, <1>11, <2>1
<1>13. output_size' <= tp_max_output \/ after.q.lines <= 2
  <2>1. after.q.lines = Len(e) /\ Len(e) \in Nat
    BY <1>9, HoldsParts
  <2>2. CASE output_size - made.flushed + n <= tp_max_output
    BY <1>1, <2>2
  <2>3. CASE Len(d) <= 1
    BY <1>6, <1>9, <2>1, <2>3
  <2> QED BY <1>5, <2>2, <2>3
<1>14. written + n \in Chars
  BY <1>1, <1>2 DEF Chars
<1>15. Core(queue', block', output_size', written', wire', e)
  BY <1>1, <1>2, <1>9, <1>10, <1>12, <1>13, <1>14 DEF Core
<1> QED BY <1>15

LEMMA SendKeeps ==
    ASSUME QueueInv, NEW whole \in Nat, NEW part \in Nat, ProcessOutput(whole, part)
    PROVE  \E d : Core(queue', block', output_size', written', wire', d)
<1> DEFINE c == Chain(block, queue.head)
           x == TextSent(block, c, whole, part)
<1>1. /\ whole <= queue.lines
      /\ part > 0 => whole < Len(c) /\ part < Len(block[c[whole + 1]].text)
      /\ output_size' = output_size - Size(block, SubSeq(c, 1, whole)) - part
      /\ queue' = QueueSent(queue, c, whole) /\ block' = BlocksSent(block, c, whole, part)
      /\ written' = written
  BY Zenon DEF ProcessOutput, QueueSent, BlocksSent, Shortened
<1>2. wire' = (wire \o Text(block, SubSeq(c, 1, whole)))
               \o IF part > 0 THEN SubSeq(block[c[whole + 1]].text, 1, part) ELSE << >>
  BY Zenon DEF ProcessOutput
<1>3. /\ Core(queue, block, output_size, written, wire, c) /\ Holds(queue, block, c)
      /\ written \in Chars /\ wire \in Strings
  BY DEF QueueInv, Core
<1> HIDE DEF c
<1>4. Sendable(block, c, whole, part)
  <2>1. whole \in 0 .. Len(c)
    <3>1. queue.lines = Len(c) /\ Len(c) \in Nat
      BY <1>3, HoldsParts
    <3> QED BY <1>1, <3>1
  <2> QED BY <1>1, <2>1 DEF Sendable
<1>5. PICK d, y : Sent(queue, block, c, whole, part, queue', block', d, x, y)
  <2>1. \E d, y : Sent(queue, block, c, whole, part, QueueSent(queue, c, whole),
                       BlocksSent(block, c, whole, part), d, TextSent(block, c, whole, part), y)
    BY <1>3, <1>4, SentIs
  <2> QED BY <1>1, <2>1
<1>6. /\ Holds(queue', block', d) /\ Len(d) = Len(c) - whole
      /\ x \in Strings /\ y \in Strings /\ Text(block, c) = x \o y /\ Text(block', d) = y
      /\ Len(x) = Size(block, SubSeq(c, 1, whole)) + part
  BY <1>5 DEF Sent
<1>7. wire' = wire \o x
  <2> DEFINE p == Text(block, SubSeq(c, 1, whole))
             r == IF part > 0 THEN SubSeq(block[c[whole + 1]].text, 1, part) ELSE << >>
  <2>1. x = p \o r
    BY DEF TextSent
  <2>2. p \in Strings
    <3>1. whole \in 0 .. Len(c)
      BY <1>4 DEF Sendable
    <3> QED BY <1>3, <3>1, TextParts
  <2>3. r \in Strings
    <3>1. CASE part > 0
      <4> DEFINE t == block[c[whole + 1]].text
      <4>1. part < Len(t) /\ whole < Len(c)
        BY <1>1, <3>1
      <4>2. t \in Strings
        <5>1. whole + 1 \in 1 .. Len(c)
          BY <1>3, <4>1, HoldsParts
        <5>2. c[whole + 1] \in DOMAIN block /\ Typed(block)
          BY <1>3, <5>1, HoldsParts DEF InDomain
        <5> QED BY <5>2, CellFields DEF Typed
      <4> HIDE DEF t
      <4>3. part \in 0 .. Len(t)
        <5>1. Len(t) \in Nat
          BY <4>2 DEF Strings
        <5> QED BY <4>1, <5>1
      <4>4. SubSeq(t, 1, part) \in Strings
        BY <4>2, <4>3, StringParts
      <4> QED BY <3>1, <4>4 DEF t
    <3>2. CASE ~ (part > 0)
      <4>1. << >> \in Seq(Chars)
        OBVIOUS
      <4> QED BY <3>2, <4>1 DEF Strings
    <3> QED BY <3>1, <3>2
  <2>4. wire' = (wire \o p) \o r
    BY <1>2
  <2> HIDE DEF p, r, x
  <2>5. wire \in Seq(Chars) /\ p \in Seq(Chars) /\ r \in Seq(Chars)
    BY <1>3, <2>2, <2>3 DEF Strings
  <2>6. Joined(Joined(wire, p), r) = Joined(wire, Joined(p, r))
    BY ONLY <2>5, JoinedAssociative
  <2>7. (wire \o p) \o r = wire \o (p \o r)
    BY ONLY <2>6 DEF Joined
  <2> QED BY <2>1, <2>4, <2>7
<1> HIDE DEF x
<1>8. wire' \in Strings /\ wire' \o y = wire \o (x \o y) /\ Len(x \o y) = Len(x) + Len(y)
      /\ Len(x) \in Nat /\ Len(y) \in Nat
  <2>1. wire \in Seq(Chars) /\ x \in Seq(Chars) /\ y \in Seq(Chars)
    BY <1>3, <1>6 DEF Strings
  <2>2. Joined(Joined(wire, x), y) = Joined(wire, Joined(x, y))
    BY ONLY <2>1, JoinedAssociative
  <2>3. (wire \o x) \o y = wire \o (x \o y)
    BY ONLY <2>2 DEF Joined
  <2>4. wire \o x \in Seq(Chars)
    BY <2>1, ConcatProperties
  <2>5. Len(x \o y) = Len(x) + Len(y) /\ Len(x) \in Nat /\ Len(y) \in Nat
    BY <2>1, ConcatProperties
  <2> QED BY <1>7, <2>3, <2>4, <2>5 DEF Strings
<1>9. Told(wire', Text(block', d), written')
  <2>1. Whole(wire', Text(block', d), written') = Whole(wire, Text(block, c), written)
    BY <1>1, <1>6, <1>8, Zenon DEF Whole
  <2>2. Told(wire, Text(block, c), written)
    BY <1>3 DEF Core
  <2> QED BY <2>1, <2>2 DEF Told
<1>10. output_size' = Len(Text(block', d)) /\ output_size' <= output_size /\ output_size \in Nat
  <2>1. output_size = Len(x) + Len(y)
    BY <1>3, <1>6, <1>8 DEF Core
  <2> DEFINE z == Size(block, SubSeq(c, 1, whole))
  <2>2. z \in Int
    <3>1. whole \in 0 .. Len(c)
      BY <1>4 DEF Sendable
    <3>2. Text(block, SubSeq(c, 1, whole)) \in Strings
      BY <1>3, <3>1, TextParts
    <3> QED BY <3>2 DEF Size, Strings
  <2>3. output_size' = output_size - z - part
    BY <1>1
  <2>4. Len(x) = z + part
    BY <1>6
  <2> HIDE DEF z
  <2>5. Len(x) \in Nat /\ Len(y) \in Nat
    BY <1>8
  <2>6. output_size' = Len(y)
    BY ONLY <2>1, <2>2, <2>3, <2>4, <2>5, part \in Nat
  <2>7. output_size' <= output_size /\ output_size \in Nat
    BY ONLY <2>1, <2>5, <2>6
  <2> QED BY <1>6, <2>6, <2>7
<1>11. output_size' <= tp_max_output \/ queue'.lines <= 2
  <2>1. queue'.lines = Len(d) /\ queue.lines = Len(c) /\ Len(c) \in Nat
    BY SMTT(40), <1>3, <1>6, HoldsParts
  <2>2. output_size <= tp_max_output \/ queue.lines <= 2
    BY <1>3 DEF Core
  <2>3. queue'.lines <= queue.lines
    BY <1>6, <2>1
  <2>4. queue'.lines \in Nat /\ queue.lines \in Nat /\ output_size' \in Nat
    BY <1>6, <1>8, <1>10, <2>1, HoldsParts
  <2> QED BY <1>10, <2>2, <2>3, <2>4
<1>12. Core(queue', block', output_size', written', wire', d)
  BY <1>1, <1>3, <1>6, <1>8, <1>9, <1>10, <1>11 DEF Core
<1> QED BY <1>12

LEMMA SliceTypes ==
    ASSUME NEW t \in Int
    PROVE  /\ SinceSlice(t) \in -(tp_command_time - 1) .. tp_command_time - 1
           /\ Slices(t) \in Int
<1>1. tp_command_time \in Nat \ {0}
  OBVIOUS
<1>2. \A x \in Nat, T \in Nat \ {0} : x \div T \in Nat /\ x - (x \div T) * T \in 0 .. T - 1
  OBVIOUS
<1>3. CASE t >= 0
  <2> DEFINE d == t \div tp_command_time
  <2>1. t \in Nat
    BY <1>3
  <2>2. d \in Nat /\ t - d * tp_command_time \in 0 .. tp_command_time - 1
    BY <1>1, <1>2, <2>1
  <2>3. Slices(t) = d /\ SinceSlice(t) = t - d * tp_command_time
    BY <1>3 DEF Slices, SinceSlice
  <2> HIDE DEF d
  <2> QED BY <1>1, <2>2, <2>3
<1>4. CASE ~ (t >= 0)
  <2> DEFINE d == (-t) \div tp_command_time
  <2>1. -t \in Nat
    BY <1>4
  <2>2. d \in Nat /\ (-t) - d * tp_command_time \in 0 .. tp_command_time - 1
    BY <1>1, <1>2, <2>1
  <2>3. Slices(t) = -d /\ SinceSlice(t) = t - (-d) * tp_command_time
    BY <1>4 DEF Slices, SinceSlice
  <2> HIDE DEF d
  <2>4. t - (-d) * tp_command_time = -((-t) - d * tp_command_time)
    BY <1>1, <2>2
  <2> QED BY <1>1, <2>2, <2>3, <2>4
<1> QED BY <1>3, <1>4

LEMMA TurnKeeps ==
    ASSUME InputOK, NEW t \in Int, NEW interactive \in BOOLEAN, Turn(t, interactive)
    PROVE  InputOK'
<1> DEFINE slices == Slices(since + t)
           times == IF interactive THEN 8 ELSE 1
           more == quota + slices * tp_commands_per_time * times
<1>1. /\ quota' = IF slices <= 0 THEN quota ELSE Capped(more)
      /\ since' = SinceSlice(since + t)
      /\ back' = IF t < 0 THEN back + 1 ELSE back
      /\ back' <= MaxBack /\ input' = input /\ blocked' = blocked
  BY Zenon DEF Turn
<1>2. /\ tp_command_burst_size \in Nat \ {0} /\ tp_commands_per_time \in Nat \ {0} /\ MaxCredit \in Nat
      /\ MaxBack \in Nat /\ tp_command_time \in Nat \ {0} /\ times \in Nat
  OBVIOUS
<1>3. /\ quota \in 0 .. tp_command_burst_size + MaxCredit /\ since \in Int /\ back \in 0 .. MaxBack
      /\ input \in Seq(Lines) /\ Len(input) <= MaxInput /\ blocked \in BOOLEAN
  BY <1>2 DEF InputOK
<1> HIDE DEF times
<1>4. slices \in Int /\ since' \in -(tp_command_time - 1) .. tp_command_time - 1
  <2>1. since + t \in Int
    BY <1>3
  <2> QED BY <1>1, <2>1, SliceTypes
<1> HIDE DEF slices
<1>5. quota' \in 0 .. tp_command_burst_size + MaxCredit
  <2>1. CASE slices <= 0
    BY <1>1, <1>3, <2>1
  <2>2. CASE ~ (slices <= 0)
    <3>1. slices * tp_commands_per_time * times \in Nat
      <4>1. slices \in Nat
        BY <1>4, <2>2
      <4>2. \A x, y \in Nat : x * y \in Nat
        OBVIOUS
      <4>3. slices * tp_commands_per_time \in Nat
        BY <1>2, <4>1, <4>2
      <4> QED BY <1>2, <4>2, <4>3
    <3>2. more \in Nat
      BY <1>3, <3>1
    <3> HIDE DEF more
    <3>3. Capped(more) \in 0 .. tp_command_burst_size
      BY <1>2, <3>2 DEF Capped
    <3> QED BY <1>1, <1>2, <2>2, <3>3
  <2> QED BY <2>1, <2>2
<1>6. back' \in 0 .. MaxBack
  BY <1>1, <1>2, <1>3
<1> QED BY <1>1, <1>3, <1>4, <1>5, <1>6 DEF InputOK

LEMMA TypeKeeps == ASSUME InputOK, NEW line \in Lines, Type(line) PROVE InputOK'
<1>1. /\ input \in Seq(Lines) /\ Len(input) < MaxInput /\ input' = Append(input, line)
      /\ quota' = quota /\ since' = since /\ back' = back /\ MaxInput \in Nat
      /\ blocked' = blocked
  BY DEF InputOK, Type
<1>2. input' \in Seq(Lines) /\ Len(input') = Len(input) + 1 /\ Len(input) \in Nat
  BY <1>1, AppendProperties
<1>3. Len(input') <= MaxInput
  BY <1>1, <1>2
<1> QED BY <1>1, <1>2, <1>3 DEF InputOK

\* What is taken from the queue.
LEMMA TakenLine ==
    ASSUME InputOK, input # << >>, input' = Tail(input)
    PROVE  input' \in Seq(Lines) /\ Len(input') <= MaxInput /\ input[1] \in Lines
<1>1. input \in Seq(Lines) /\ Len(input) <= MaxInput /\ MaxInput \in Nat
  BY DEF InputOK
<1>2. input' \in Seq(Lines) /\ Len(input') = Len(input) - 1 /\ Len(input) \in Nat
  BY <1>1, HeadTailProperties
<1>3. input[1] \in Lines
  BY <1>1, ElementOfSeq
<1> QED BY <1>1, <1>2, <1>3

LEMMA EatKeeps == ASSUME InputOK, EatBlank PROVE InputOK'
<1>1. input' \in Seq(Lines) /\ Len(input') <= MaxInput
  BY TakenLine DEF EatBlank
<1> QED BY <1>1 DEF EatBlank, InputOK

LEMMA CommandKeeps == ASSUME InputOK, ProcessCommand PROVE InputOK'
<1>1. input' \in Seq(Lines) /\ Len(input') <= MaxInput /\ input[1] \in Lines
  BY TakenLine DEF ProcessCommand
<1>2. quota' \in 0 .. tp_command_burst_size + MaxCredit
  <2>1. /\ quota \in 0 .. tp_command_burst_size + MaxCredit /\ quota > 0
        /\ quota' = quota + Charge(input[1])
        /\ quota' <= tp_command_burst_size + MaxCredit
    BY DEF InputOK, ProcessCommand
  <2>2. tp_command_burst_size + MaxCredit \in Nat /\ Charge(input[1]) \in {-1, 0, 1}
    BY DEF Charge
  <2> QED BY <2>1, <2>2
<1>3. since' = since /\ back' = back /\ blocked' = blocked
  BY DEF ProcessCommand
<1> QED BY <1>1, <1>2, <1>3 DEF InputOK

LEMMA InitInv == Init => QueueInv
<1> SUFFICES ASSUME Init PROVE QueueInv
  OBVIOUS
<1>1. /\ block = << >> /\ queue = [head |-> NULL, tail |-> AtHead, lines |-> 0]
      /\ output_size = 0 /\ written = 0 /\ wire = << >> /\ booted = FALSE
      /\ input = << >> /\ blocked = FALSE /\ quota = tp_command_burst_size /\ since = 0 /\ back = 0
  BY DEF Init
<1>2. DOMAIN block = {} /\ Typed(block)
  <2>1. DOMAIN block = {}
    BY <1>1
  <2> QED BY <2>1 DEF Typed
<1>3. queue \in Queues /\ queue.head = NULL /\ queue.tail = AtHead /\ queue.lines = 0
  BY <1>1 DEF Queues, Links
<1>4. /\ << >> \in Seq(Blocks) /\ Len(<< >>) = 0 /\ ToSet(<< >>) = {}
      /\ << >> \in Strings
  <2>1. << >> \in Seq(Blocks) /\ Len(<< >>) = 0 /\ << >> \in Seq(Chars)
    OBVIOUS
  <2>2. ToSet(<< >>) = {}
    BY SetOfSequence, <2>1
  <2> QED BY <2>1, <2>2 DEF Strings
<1>5. Holds(queue, block, << >>)
  <2>1. IsChain(block, queue.head, << >>)
    BY <1>3, <1>4 DEF IsChain, Distinct
  <2> QED BY <1>2, <1>3, <1>4, <2>1 DEF Holds
<1>6. Text(block, << >>) = << >>
  BY TextNone
<1>7. Told(<< >>, << >>, 0)
  <2> DEFINE t == Whole(<< >>, << >>, 0)
  <2>1. IsWhole(t, << >>, << >>, 0)
    BY <1>4, WholeIs
  <2> HIDE DEF t
  <2>2. Len(t) = 1 /\ t[1] = 1
    BY <1>4, <2>1 DEF IsWhole
  <2>3. Rising(t)
    BY <2>2 DEF Rising
  <2>4. Gaps(t)
    <3> SUFFICES ASSUME NEW i \in 1 .. 1, NEW j \in 0 .. 1, Follows(t, j, i)
                 PROVE  t[i] = (IF j = 0 THEN 0 ELSE t[j]) + 1 \/ i - j > Notice
      BY <2>2 DEF Gaps
    <3>1. i = 1 /\ j < i
      BY DEF Follows
    <3>2. j = 0
      BY <3>1
    <3> QED BY <2>2, <3>1, <3>2
  <2> QED BY <2>3, <2>4 DEF Told, t
<1>8. Core(queue, block, output_size, written, wire, << >>)
  <2>1. 0 \in Chars /\ tp_max_output \in Nat
    BY DEF Chars
  <2> QED BY <1>1, <1>3, <1>4, <1>5, <1>6, <1>7, <2>1 DEF Core
<1>9. InputOK
  <2>1. << >> \in Seq(Lines) /\ Len(<< >>) = 0
    OBVIOUS
  <2>2. /\ quota \in 0 .. tp_command_burst_size + MaxCredit /\ back \in 0 .. MaxBack
        /\ since \in -(tp_command_time - 1) .. tp_command_time - 1
    <3>1. /\ {tp_command_burst_size, tp_command_time} \subseteq Nat \ {0}
          /\ {MaxCredit, MaxBack} \subseteq Nat
      OBVIOUS
    <3> QED BY <1>1, <3>1
  <2>3. Len(input) <= MaxInput /\ blocked \in BOOLEAN
    <3>1. MaxInput \in Nat
      OBVIOUS
    <3>2. Len(input) = 0 /\ blocked = FALSE
      BY Zenon, <1>1, <2>1
    <3>3. 0 <= MaxInput
      BY ONLY SMT, <3>1
    <3> QED BY ONLY Zenon, <3>2, <3>3
  <2>4. input \in Seq(Lines)
    BY Zenon, <1>1, <2>1
  <2> QED BY Zenon, <2>2, <2>3, <2>4 DEF InputOK
<1> QED BY <1>1, <1>8, <1>9, CoreIs DEF QueueInv

LEMMA QueueStep == QueueInv /\ [Next]_vars => QueueInv'
<1> SUFFICES ASSUME QueueInv, [Next]_vars PROVE QueueInv'
  OBVIOUS
<1> USE DEF QueueInv
<1>0. /\ booted \in BOOLEAN /\ InputOK
      /\ Core(queue, block, output_size, written, wire, Chain(block, queue.head))
  OBVIOUS
<1>1. ASSUME NEW n \in 0 .. MaxLine, QueueWrite(n) PROVE QueueInv'
  <2>1. n \in Nat
    OBVIOUS
  <2>2. \E d : Core(queue', block', output_size', written', wire', d)
    BY <1>1, <2>1, WriteKeeps
  <2>3. Core(queue', block', output_size', written', wire', Chain(block', queue'.head))
    BY <2>2, CoreIs
  <2>4. booted' = booted /\ InputOK'
    BY <1>0, <1>1 DEF QueueWrite, InputOK
  <2> QED BY <1>0, <2>3, <2>4
<1>2. ASSUME NEW whole \in 0 .. queue.lines, NEW part \in 0 .. MaxLine + Notice,
             ProcessOutput(whole, part)
      PROVE  QueueInv'
  <2>1. whole \in Nat /\ part \in Nat
    OBVIOUS
  <2>2. \E d : Core(queue', block', output_size', written', wire', d)
    BY <1>2, <2>1, SendKeeps
  <2>3. Core(queue', block', output_size', written', wire', Chain(block', queue'.head))
    BY <2>2, CoreIs
  <2>4. booted' = booted /\ InputOK'
    BY <1>0, <1>2 DEF ProcessOutput, InputOK
  <2> QED BY <1>0, <2>3, <2>4
<1>3. CASE OutputFails
  BY <1>0, <1>3 DEF OutputFails, output, InputOK
<1>4. ASSUME NEW line \in Lines, Type(line) PROVE QueueInv'
  <2>1. InputOK'
    BY <1>0, <1>4, TypeKeeps
  <2>2. UNCHANGED <<block, queue, output_size, written, booted, wire>>
    BY <1>4 DEF Type, output
  <2> QED BY <1>0, <2>1, <2>2
<1>5. ASSUME NEW t \in -MaxTurn .. MaxTurn, NEW interactive \in BOOLEAN, Turn(t, interactive)
      PROVE  QueueInv'
  <2>1. InputOK'
    BY <1>0, <1>5, TurnKeeps
  <2>2. UNCHANGED <<block, queue, output_size, written, booted, wire>>
    BY <1>5 DEF Turn, output
  <2> QED BY <1>0, <2>1, <2>2
<1>6. CASE ProcessCommand
  <2>1. InputOK'
    BY <1>0, <1>6, CommandKeeps
  <2>2. UNCHANGED <<block, queue, output_size, written, wire>> /\ booted' \in BOOLEAN
    BY <1>6 DEF ProcessCommand, output
  <2> QED BY <1>0, <2>1, <2>2
<1>8. CASE EatBlank
  <2>1. InputOK'
    BY <1>0, <1>8, EatKeeps
  <2>2. UNCHANGED <<block, queue, output_size, written, booted, wire>>
    BY <1>8 DEF EatBlank, output
  <2> QED BY <1>0, <2>1, <2>2
<1>9. CASE Block
  <2>1. InputOK'
    BY <1>0, <1>9 DEF Block, InputOK
  <2>2. UNCHANGED <<block, queue, output_size, written, booted, wire>>
    BY <1>9 DEF Block, output
  <2> QED BY <1>0, <2>1, <2>2
<1>7. CASE UNCHANGED vars
  BY <1>0, <1>7 DEF vars, output, InputOK
<1> QED BY <1>1, <1>2, <1>3, <1>4, <1>5, <1>6, <1>7, <1>8, <1>9, Zenon DEF Next, Send

LEMMA InvAgrees == QueueInv => QueueAgrees
<1> SUFFICES ASSUME QueueInv PROVE QueueAgrees
  OBVIOUS
<1> DEFINE c == Chain(block, queue.head)
<1>1. /\ Core(queue, block, output_size, written, wire, c) /\ Holds(queue, block, c)
      /\ booted \in BOOLEAN /\ InputOK
  BY DEF QueueInv, Core
<1> HIDE DEF c
<1>2. /\ Typed(block) /\ queue \in Queues /\ c \in Seq(Blocks) /\ Len(c) \in Nat
      /\ (c = << >> <=> Len(c) = 0) /\ Text(block, c) \in Strings /\ queue.lines = Len(c)
      /\ IsChain(block, queue.head, c) /\ DOMAIN block = ToSet(c)
      /\ queue.tail = IF c = << >> THEN AtHead ELSE c[Len(c)]
      /\ output_size = Len(Text(block, c))
  BY <1>1, HoldsParts DEF Holds, Core
<1>3. TypeOK
  <2>1. DOMAIN block \subseteq Blocks
    BY <1>2 DEF Typed
  <2>2. \A b \in DOMAIN block : block[b].text \in Seq(0 .. MaxText) /\ block[b].nxt \in Links
    BY <1>2, CellFields DEF Typed, Strings, Chars
  <2>3. queue \in [head : Links, tail : Blocks \cup {AtHead}, lines : Nat]
    BY <1>2 DEF Queues
  <2>4. output_size \in Nat
    BY <1>2 DEF Strings
  <2>5. written \in 0 .. MaxText /\ wire \in Seq(0 .. MaxText)
    BY <1>1 DEF Core, Strings, Chars
  <2> QED BY <1>1, <2>1, <2>2, <2>3, <2>4, <2>5, Zenon DEF TypeOK, InputOK
<1>4. DOMAIN block = {c[i] : i \in 1 .. Len(c)}
  <2>1. \A b : b \in ToSet(c) <=> \E i \in 1 .. Len(c) : c[i] = b
    BY <1>2, SetOfSequence
  <2> QED BY <1>2, <2>1
<1>5. c # << >> => block[c[Len(c)]].nxt = NULL
  <2> SUFFICES ASSUME c # << >> PROVE block[c[Len(c)]].nxt = NULL
    OBVIOUS
  <2>1. Len(c) \in 1 .. Len(c) /\ ~ (Len(c) < Len(c))
    BY <1>2
  <2>2. block[c[Len(c)]].nxt = IF Len(c) < Len(c) THEN c[Len(c) + 1] ELSE NULL
    BY <1>2, <2>1 DEF IsChain
  <2> QED BY <2>1, <2>2
<1> QED BY <1>2, <1>3, <1>4, <1>5, Zenon DEF QueueAgrees, Size, c

\* The last character before the i-th, or the beginning.
LEMMA OneBefore ==
    ASSUME NEW i \in Nat, NEW B \in SUBSET (0 .. i), 0 \in B
    PROVE  \E j \in B : \A k \in B : k <= j
<1> DEFINE Away == {m \in Nat : i - m \in B}
<1>1. Away \in SUBSET Nat /\ i \in Away
  OBVIOUS
<1>2. PICK m \in Away : \A k \in Away : m <= k
  BY <1>1, LeastNat, Zenon
<1>3. i - m \in B /\ m \in Nat
  BY <1>2
<1>4. ASSUME NEW k \in B PROVE k <= i - m
  <2>1. k \in Int /\ i - k \in Nat /\ i - (i - k) = k
    OBVIOUS
  <2>2. i - k \in Away
    BY <2>1
  <2>3. m <= i - k
    <3> HIDE DEF Away
    <3> QED BY <1>2, <2>2
  <2> QED BY <1>3, <2>1, <2>3
<1> QED BY <1>3, <1>4

LEMMA InvTells == QueueInv => NothingLostSilently
<1> SUFFICES ASSUME QueueInv PROVE NothingLostSilently
  OBVIOUS
<1> DEFINE c == Chain(block, queue.head)
           t == wire \o Text(block, c) \o <<written + 1>>
           Before(i) == {0} \cup {j \in 1 .. i - 1 : t[j] # 0}
<1>1. t = Whole(wire, Text(block, c), written)
  BY DEF Whole
<1>2. Rising(t) /\ Gaps(t) /\ t \in Seq(Nat)
  <2>1. Core(queue, block, output_size, written, wire, c)
    BY DEF QueueInv
  <2> HIDE DEF c, t
  <2>2. Told(wire, Text(block, c), written) /\ wire \in Strings /\ Text(block, c) \in Strings /\ written \in Nat
    BY <2>1, HoldsParts DEF Core, Chars
  <2>3. IsWhole(Whole(wire, Text(block, c), written), wire, Text(block, c), written)
    BY <2>2, WholeIs
  <2>4. t \in Seq(Nat)
    BY <1>1, <2>3 DEF IsWhole
  <2> QED BY <1>1, <2>2, <2>4 DEF Told
<1> HIDE DEF t
<1>3. ASSUME NEW i \in 1 .. Len(t), t[i] # 0
      PROVE  LET j == CHOOSE j \in Before(i) : \A k \in Before(i) : k <= j
                 last == IF j = 0 THEN 0 ELSE t[j]
             IN t[i] = last + 1 \/ (t[i] > last /\ i - j > Notice)
  <2> DEFINE B == Before(i)
             j == CHOOSE j \in B : \A k \in B : k <= j
             last == IF j = 0 THEN 0 ELSE t[j]
  <2>1. Len(t) \in Nat /\ i \in Nat /\ i # 0
    BY <1>2
  <2>2. B = {0} \cup {n \in 1 .. i - 1 : t[n] # 0}
    OBVIOUS
  <2> HIDE DEF B
  <2>3. \E m \in B : \A k \in B : k <= m
    <3>1. 0 \in B /\ B \in SUBSET (0 .. i)
      BY <2>1, <2>2
    <3> QED BY <2>1, <3>1, OneBefore
  <2>4. j \in B /\ \A k \in B : k <= j
    BY <2>3
  <2> HIDE DEF j
  <2>5. j < i /\ j \in 0 .. Len(t) /\ (j # 0 => t[j] # 0 /\ j \in 1 .. Len(t))
    BY <2>1, <2>2, <2>4
  <2>6. Follows(t, j, i)
    <3>1. ASSUME NEW k \in 1 .. i - 1, j < k PROVE t[k] = 0
      <4>1. ~ (k <= j)
        BY <2>1, <2>5, <3>1
      <4>2. k \notin B
        BY <2>4, <4>1
      <4> QED BY <2>2, <4>2
    <3> QED BY <1>3, <2>5, <3>1 DEF Follows
  <2>7. t[i] = last + 1 \/ i - j > Notice
    BY <1>2, <2>5, <2>6 DEF Gaps
  <2>8. t[i] > last
    <3>1. t[i] \in Nat
      BY <1>2, ElementOfSeq
    <3>2. j # 0 => t[j] < t[i] /\ t[j] \in Nat
      <4>1. j # 0 => t[j] < t[i]
        BY <1>2, <1>3, <2>5 DEF Rising
      <4>2. j # 0 => t[j] \in Nat
        BY <1>2, <2>5, ElementOfSeq
      <4> QED BY <4>1, <4>2
    <3> QED BY <1>3, <3>1, <3>2
  <2>9. t[i] = last + 1 \/ (t[i] > last /\ i - j > Notice)
    BY <2>7, <2>8
  <2> QED BY <2>9 DEF B, j
<1> QED BY <1>3, Zenon DEF NothingLostSilently, t, c

-----------------------------------------------------------------------------
(* The theorems.                                                           *)

(* The invariant: the queue is a chain of typed blocks whose pointers,     *)
(* count and size agree, and what was sent and is still to be sent has no  *)
(* gap without a notice, even before the character that comes next.        *)
THEOREM QueueInvariant == Spec => []QueueInv
<1>1. Init => QueueInv
  BY InitInv
<1>2. QueueInv /\ [Next]_vars => QueueInv'
  BY QueueStep
<1> QED BY <1>1, <1>2, PTL DEF Spec

(* The pointers and the counts of the output queue are those of its chain, *)
(* after any writes, partial sends and flushes, interface.c                *)
(* queue_write(), flush_queue(), process_output().                         *)
THEOREM QueueAgreesAlways == Spec => []QueueAgrees
<1>1. QueueInv => QueueAgrees
  BY InvAgrees
<1> QED BY <1>1, QueueInvariant, PTL

(* queue_write() keeps the queue within tp_max_output, unless there is     *)
(* nothing in it but the notice and what was written last.                 *)
THEOREM SizeBoundAlways == Spec => []SizeBound
<1>1. QueueInv => SizeBound
  BY DEF QueueInv, Core, SizeBound
<1> QED BY <1>1, QueueInvariant, PTL

(* No character is lost without a notice, doubled or sent out of order.    *)
THEOREM NothingLostAlways == Spec => []NothingLostSilently
<1>1. QueueInv => NothingLostSilently
  BY InvTells
<1> QED BY <1>1, QueueInvariant, PTL
=============================================================================
