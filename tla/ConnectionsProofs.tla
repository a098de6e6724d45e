-------------------------- MODULE ConnectionsProofs --------------------------
(***************************************************************************)
(* Proofs about Connections, for any descriptors, players and limits, and  *)
(* for whatever programs do while somebody comes or goes: the two tables   *)
(* agree with the list of descriptors, no call that has not returned holds *)
(* a descriptor that is freed, and the count of players is never too low.  *)
(***************************************************************************)
EXTENDS Connections, ListsProofs

-----------------------------------------------------------------------------
(* The inductive invariant.                                                *)

Gone(c) == {d \in Descrs : ~ c[d].connected}

ListTyped == descriptor_list \in Seq(Descrs) /\ Distinct(descriptor_list)

ConnTyped ==
    /\ conn \in [Descrs -> [connected : BOOLEAN, player : Players \cup {NOTHING}, booted : BOOLEAN]]
    /\ \A d \in Descrs \ Open : conn[d] = Closed
    /\ \A d \in Descrs : conn[d].connected <=> conn[d].player # NOTHING

TableRight ==
    /\ descr_count_table \in Seq(Descrs)
    /\ orphaned \/ descr_count_table = Without(descriptor_list, Gone(conn))

DescrsTyped == descrs \in [Players -> Seq(Descrs)]

PlainTyped ==
    /\ type \in [Players -> {"none", "player", "thing", "garbage"}]
    /\ con_players_curr \in Nat /\ acts \in 0 .. MaxActs
    /\ orphaned \in BOOLEAN /\ usurped \in BOOLEAN /\ haunted \subseteq Players

WalkTyped ==
    /\ walk \in [pass : {"commands", "boots", "select"}, round : 0 .. Rounds,
                 d : Descrs \cup {NOTHING}, next : Descrs \cup {NOTHING}]
    /\ walk.next \in Open \cup {NOTHING}

\* PLAYER_DESCRS of p holds descriptors that are connected to him: all of
\* them, where no toad was connected to his dbref when it was taken.
HisOwn(p) == /\ Distinct(descrs[p]) /\ ToSet(descrs[p]) \subseteq Of(p)
             /\ p \in haunted \/ Of(p) \subseteq ToSet(descrs[p])
HisOwnAgree == usurped \/ \A p \in Players : type[p] = "player" => HisOwn(p)

\* Who is connected has been created.
KnownPlayers == \A d \in Connected : type[conn[d].player] # "none"

\* A call that has not returned holds a descriptor of the list; the pass has
\* gone on from the one that is being closed.
Fits(c) ==
    /\ c.d \in Open
    /\ c.does = "closing" => c.d # walk.next
    /\ c.does = "set" /\ c.who # NOTHING => type[c.who] # "none"
AllFit == \A c \in ToSet(task) : Fits(c)

\* The pass and check_connect() are below all others; pset_user() and
\* shutdownsock() have announce_disconnect() of their descriptor above them
\* until it returns.
AtBottom(c) == c.does = "closing" \/ (c.does = "connecting" /\ c.counts)
Follows(c) == c.does \in {"set", "closing"}
Stacked(q) ==
    \A n \in 1 .. Len(q) :
        /\ AtBottom(q[n]) => n = Len(q)
        /\ n > 1 /\ Follows(q[n]) => /\ q[n - 1].does = "disconnecting"
                                     /\ q[n - 1].d = q[n].d

\* When it has returned nobody is connected on it, or what was a player.
LetGo(d) == ~ conn[d].connected \/ type[conn[d].player] # "player"
HeadFree == task # << >> /\ Follows(Head(task)) => LetGo(Head(task).d)

SelectIdle == walk.pass = "select" => task = << >>

\* Those who will be connected when all calls have returned are counted, or
\* will be.
ToBeSet == {d \in Descrs : \E c \in ToSet(task) : c.does = "set" /\ c.who # NOTHING /\ c.d = d}
WillCount(c) == c.does = "connecting" /\ c.counts
Pending == IF \E c \in ToSet(task) : WillCount(c) THEN 1 ELSE 0
Counted == Cardinality(Connected \cup ToBeSet) <= con_players_curr + Pending

Stack == task \in Seq(Calls) /\ Stacked(task) /\ AllFit /\ HeadFree /\ SelectIdle
Data == ListTyped /\ ConnTyped /\ TableRight /\ DescrsTyped /\ PlainTyped /\ HisOwnAgree /\ KnownPlayers

TablesInv == Data /\ WalkTyped /\ Stack /\ Counted

USE PlayersAssumption, LimitsAssumption

-----------------------------------------------------------------------------
(* The stack of calls that have not returned.                              *)

LEMMA CallFields ==
    ASSUME NEW c \in Calls
    PROVE  /\ c.d \in Descrs
           /\ c.does \in {"disconnecting", "closing", "set", "connecting", "program"}
           /\ c.does = "disconnecting" => c.player \in Players /\ c.runs \in BOOLEAN
           /\ c.does = "set" => c.who \in Players \cup {NOTHING}
           /\ c.does = "connecting" => c.counts \in BOOLEAN
BY DEF Calls

LEMMA StackedTail ==
    ASSUME NEW q \in Seq(Calls), q # << >>, Stacked(q)
    PROVE  /\ Stacked(Tail(q))
           /\ AtBottom(Head(q)) => Tail(q) = << >>
           /\ Tail(q) # << >> /\ Follows(Head(Tail(q))) =>
                 /\ Head(q).does = "disconnecting"
                 /\ Head(q).d = Head(Tail(q)).d
<1> DEFINE r == Tail(q)
<1>1. /\ r \in Seq(Calls) /\ Len(q) = Len(r) + 1 /\ Len(r) \in Nat /\ Head(q) = q[1]
      /\ \A n \in 1 .. Len(r) : r[n] = q[n + 1]
  BY PopProperties
<1>2. r = << >> <=> Len(r) = 0
  BY <1>1, EmptySeq
<1>3. r # << >> => Head(r) = r[1] /\ 1 \in 1 .. Len(r)
  BY <1>1, <1>2
<1> HIDE DEF r
<1>4. Stacked(r)
  <2> SUFFICES ASSUME NEW n \in 1 .. Len(r)
               PROVE  /\ AtBottom(r[n]) => n = Len(r)
                      /\ n > 1 /\ Follows(r[n]) => /\ r[n - 1].does = "disconnecting"
                                                   /\ r[n - 1].d = r[n].d
    BY DEF Stacked
  <2>1. n + 1 \in 1 .. Len(q) /\ n + 1 > 1 /\ (n + 1) - 1 = n /\ r[n] = q[n + 1]
    BY <1>1
  <2>2. /\ AtBottom(q[n + 1]) => n + 1 = Len(q)
        /\ Follows(q[n + 1]) => q[n].does = "disconnecting" /\ q[n].d = q[n + 1].d
    BY <2>1 DEF Stacked
  <2>3. n > 1 => n - 1 \in 1 .. Len(r) /\ r[n - 1] = q[n]
    BY <1>1
  <2> QED BY <1>1, <2>1, <2>2, <2>3
<1>5. AtBottom(Head(q)) => r = << >>
  BY <1>1, <1>2 DEF Stacked
<1>6. r # << >> /\ Follows(Head(r)) => Head(q).does = "disconnecting" /\ Head(q).d = Head(r).d
  <2>1. SUFFICES ASSUME r # << >>, Follows(Head(r))
                 PROVE  Head(q).does = "disconnecting" /\ Head(q).d = Head(r).d
    OBVIOUS
  <2>2. 2 \in 1 .. Len(q) /\ Head(r) = q[2] /\ 2 - 1 = 1 /\ 2 > 1
    BY <1>1, <1>3, <2>1
  <2>3. q[1].does = "disconnecting" /\ q[1].d = q[2].d
    BY <2>1, <2>2 DEF Stacked
  <2> QED BY <1>1, <2>2, <2>3
<1> QED BY <1>4, <1>5, <1>6 DEF r

LEMMA StackedPush ==
    ASSUME NEW q \in Seq(Calls), Stacked(q), NEW e \in Calls,
           q # << >> => ~ AtBottom(e),
           q # << >> /\ Follows(Head(q)) => e.does = "disconnecting" /\ e.d = Head(q).d
    PROVE  Stacked(<<e>> \o q)
<1> DEFINE r == <<e>> \o q
<1>1. /\ r \in Seq(Calls) /\ Len(r) = Len(q) + 1 /\ Len(q) \in Nat /\ r[1] = e
      /\ \A n \in 1 .. Len(q) : r[n + 1] = q[n]
  BY PushProperties
<1>2. q = << >> <=> Len(q) = 0
  BY EmptySeq
<1>3. q # << >> => Head(q) = q[1]
  BY <1>2
<1> HIDE DEF r
<1> SUFFICES ASSUME NEW n \in 1 .. Len(r)
             PROVE  /\ AtBottom(r[n]) => n = Len(r)
                    /\ n > 1 /\ Follows(r[n]) => /\ r[n - 1].does = "disconnecting"
                                                 /\ r[n - 1].d = r[n].d
  BY DEF Stacked, r
<1>4. CASE n = 1
  BY <1>1, <1>2, <1>4
<1>5. CASE n = 2
  <2>1. 1 \in 1 .. Len(q) /\ r[2] = q[1] /\ 2 - 1 = 1
    BY <1>1, <1>5
  <2>2. q # << >> /\ Head(q) = q[1]
    BY <1>2, <1>3, <2>1
  <2>3. AtBottom(q[1]) => 1 = Len(q)
    BY <2>1 DEF Stacked
  <2> QED BY <1>1, <1>5, <2>1, <2>2, <2>3
<1>6. CASE n > 2
  <2>1. /\ n - 1 \in 1 .. Len(q) /\ n - 1 > 1 /\ r[n] = q[n - 1]
        /\ n - 2 \in 1 .. Len(q) /\ r[n - 1] = q[(n - 1) - 1]
    <3>1. n - 1 \in 1 .. Len(q) /\ n - 1 > 1 /\ n - 2 \in 1 .. Len(q)
          /\ (n - 1) + 1 = n /\ (n - 2) + 1 = n - 1 /\ (n - 1) - 1 = n - 2
      <4>1. n \in Nat /\ n <= Len(q) + 1 /\ Len(q) \in Nat
        BY <1>1
      <4> QED BY <1>6, <4>1
    <3> QED BY <1>1, <3>1
  <2>2. /\ AtBottom(q[n - 1]) => n - 1 = Len(q)
        /\ Follows(q[n - 1]) => /\ q[(n - 1) - 1].does = "disconnecting"
                                /\ q[(n - 1) - 1].d = q[n - 1].d
    BY <2>1 DEF Stacked
  <2> QED BY <1>1, <2>1, <2>2
<1> QED BY <1>1, <1>4, <1>5, <1>6

\* Both, of a call that may be put there.
LEMMA CallPushed ==
    ASSUME NEW q \in Seq(Calls), Stacked(q), NEW e \in Calls,
           q # << >> => ~ AtBottom(e),
           q # << >> /\ Follows(Head(q)) => e.does = "disconnecting" /\ e.d = Head(q).d
    PROVE  LET r == <<e>> \o q
           IN  /\ r \in Seq(Calls) /\ Stacked(r) /\ ToSet(r) = {e} \cup ToSet(q)
               /\ Head(r) = e /\ r # << >>
<1>1. Stacked(<<e>> \o q)
  BY StackedPush
<1> QED BY <1>1, PushProperties

LEMMA EmptyStack ==
    /\ << >> \in Seq(Calls) /\ Stacked(<< >>) /\ ToSet(<< >>) = {}
    /\ \A e : <<e>> = <<e>> \o << >>
<1>1. << >> \in Seq(Calls) /\ ToSet(<< >>) = {}
  <2>1. << >> \in Seq(Calls)
    OBVIOUS
  <2> QED BY <2>1, SetOfSequence
<1>2. Stacked(<< >>)
  BY DEF Stacked
<1>3. ASSUME NEW e
      PROVE  <<e>> = <<e>> \o << >>
  <2>1. <<e>> \in Seq({e})
    OBVIOUS
  <2> QED BY <2>1, ConcatEmptySeq
<1> QED BY <1>1, <1>2, <1>3

LEMMA OneCall ==
    ASSUME NEW e \in Calls
    PROVE  ToSet(<<e>>) = {e}
<1>1. << >> \in Seq(Calls) /\ Stacked(<< >>) /\ ToSet(<< >>) = {}
  BY EmptyStack
<1>2. ToSet(<<e>> \o << >>) = {e} \cup {}
  BY <1>1, CallPushed
<1>3. <<e>> = <<e>> \o << >>
  BY EmptyStack, Zenon
<1> QED BY <1>2, <1>3, Zenon

\* announce_disconnect() before a call that is pushed on others.
LEMMA TwoPushed ==
    ASSUME NEW q \in Seq(Calls), NEW a \in Calls, NEW b \in Calls
    PROVE  /\ (<<a>> \o <<b>>) \o q = <<a>> \o (<<b>> \o q)
           /\ (<< >> \o <<b>>) \o q = <<b>> \o q
           /\ << >> \o <<b>> = <<b>>
<1>1. <<a>> \in Seq(Calls) /\ <<b>> \in Seq(Calls)
  OBVIOUS
<1> QED BY <1>1, ConcatAssociative, ConcatEmptySeq

LEMMA StackIs ==
    ASSUME NEW q \in Seq(Calls), Stacked(q), task' = q,
           \A c \in ToSet(q) : Fits(c)',
           NEW d, q # << >> /\ Follows(Head(q)) => d = Head(q).d /\ LetGo(d)',
           q # << >> => walk'.pass # "select"
    PROVE  Stack'
<1>1. task' \in Seq(Calls) /\ Stacked(task)'
  BY Zenon DEF Stacked
<1>2. AllFit'
  BY DEF AllFit
<1>3. HeadFree'
  BY DEF HeadFree, LetGo, Follows
<1>4. SelectIdle'
  BY DEF SelectIdle
<1> QED BY <1>1, <1>2, <1>3, <1>4 DEF Stack

LEMMA FitsStay ==
    ASSUME AllFit, UNCHANGED <<descriptor_list, walk, type>>
    PROVE  \A c \in ToSet(task) : Fits(c)'
BY DEF AllFit, Fits, Open

\* The call on top returns.
LEMMA PopKeeps ==
    ASSUME Stack, task # << >>, task' = Tail(task),
           UNCHANGED <<descriptor_list, walk, type>>,
           NEW d, d = Head(task).d, Head(task).does = "disconnecting" => LetGo(d)'
    PROVE  Stack'
<1> DEFINE q == Tail(task)
<1>1. /\ q \in Seq(Calls) /\ Stacked(q) /\ ToSet(task) = {Head(task)} \cup ToSet(q)
      /\ q # << >> /\ Follows(Head(q)) =>
            Head(task).does = "disconnecting" /\ Head(task).d = Head(q).d
  BY PopProperties, StackedTail DEF Stack
<1>2. walk.pass # "select"
  BY DEF Stack, SelectIdle
<1> HIDE DEF q
<1>3. \A c \in ToSet(q) : Fits(c)'
  BY <1>1, FitsStay DEF Stack
<1>4. q # << >> /\ Follows(Head(q)) => d = Head(q).d /\ LetGo(d)'
  BY <1>1
<1>5. task' = q
  BY DEF q
<1> QED BY <1>1, <1>2, <1>3, <1>4, <1>5, StackIs

\* One more is called by what runs.
LEMMA PushKeeps ==
    ASSUME Stack, task # << >>, ~ Follows(Head(task)),
           NEW e \in Calls, task' = <<e>> \o task, ~ AtBottom(e), Fits(e),
           UNCHANGED <<descriptor_list, walk, type>>,
           NEW d, d = e.d, Follows(e) => LetGo(d)'
    PROVE  Stack'
<1> DEFINE q == <<e>> \o task
<1>1. /\ q \in Seq(Calls) /\ Stacked(q) /\ ToSet(q) = {e} \cup ToSet(task) /\ Head(q) = e
  BY PushProperties, StackedPush DEF Stack
<1>2. walk.pass # "select"
  BY DEF Stack, SelectIdle
<1> HIDE DEF q
<1>3. Fits(e)'
  BY DEF Fits, Open
<1>4. \A c \in ToSet(q) : Fits(c)'
  BY <1>1, <1>3, FitsStay DEF Stack
<1>5. task' = q
  BY DEF q
<1> QED BY <1>1, <1>2, <1>4, <1>5, StackIs

\* pset_user() is called and calls announce_disconnect().
LEMMA PushTwoKeeps ==
    ASSUME Stack, task # << >>, ~ Follows(Head(task)),
           NEW a \in Calls, NEW b \in Calls, task' = <<a>> \o (<<b>> \o task),
           ~ AtBottom(a), ~ AtBottom(b), Fits(a), Fits(b),
           a.does = "disconnecting", a.d = b.d,
           UNCHANGED <<descriptor_list, walk, type>>
    PROVE  Stack'
<1> DEFINE p == <<b>> \o task
           q == <<a>> \o p
<1>1. p \in Seq(Calls) /\ Stacked(p) /\ ToSet(p) = {b} \cup ToSet(task) /\ Head(p) = b
  BY PushProperties, StackedPush DEF Stack
<1> HIDE DEF p
<1>2. /\ q \in Seq(Calls) /\ Stacked(q) /\ ToSet(q) = {a} \cup ToSet(p) /\ Head(q) = a
  <2>1. Follows(Head(p)) => a.does = "disconnecting" /\ a.d = Head(p).d
    BY <1>1
  <2> QED BY <1>1, <2>1, CallPushed
<1>3. walk.pass # "select" /\ ~ Follows(a)
  BY DEF Stack, SelectIdle, Follows
<1> HIDE DEF q
<1>4. Fits(a)' /\ Fits(b)'
  BY DEF Fits, Open
<1>5. \A c \in ToSet(q) : Fits(c)'
  BY <1>1, <1>2, <1>4, FitsStay DEF Stack
<1>6. task' = q
  BY DEF p, q
<1> QED BY <1>2, <1>3, <1>5, <1>6, StackIs

\* The main loop makes a call.
LEMMA FirstCallKeeps ==
    ASSUME NEW e \in Calls, task' = <<e>>, Fits(e)', walk'.pass # "select",
           NEW d, d = e.d, Follows(e) => LetGo(d)'
    PROVE  Stack'
<1> DEFINE q == <<e>> \o << >>
<1>1. q \in Seq(Calls) /\ Stacked(q) /\ ToSet(q) = {e} /\ Head(q) = e /\ task' = q
  <2>1. << >> \in Seq(Calls) /\ Stacked(<< >>) /\ ToSet(<< >>) = {}
    BY EmptyStack
  <2>2. q \in Seq(Calls) /\ Stacked(q) /\ ToSet(q) = {e} \cup {} /\ Head(q) = e
    BY <2>1, CallPushed
  <2>3. <<e>> = q
    BY EmptyStack, Zenon
  <2> QED BY <2>2, <2>3, Zenon
<1> HIDE DEF q
<1> QED BY <1>1, StackIs

LEMMA FirstTwoKeep ==
    ASSUME NEW a \in Calls, NEW b \in Calls, task' = <<a>> \o <<b>>, Fits(a)', Fits(b)',
           walk'.pass # "select", ~ AtBottom(a), a.does = "disconnecting", a.d = b.d
    PROVE  Stack'
<1> DEFINE p == <<b>> \o << >>
           q == <<a>> \o p
<1>1. p \in Seq(Calls) /\ Stacked(p) /\ ToSet(p) = {b} /\ Head(p) = b /\ p = <<b>>
  <2>1. << >> \in Seq(Calls) /\ Stacked(<< >>) /\ ToSet(<< >>) = {}
    BY EmptyStack
  <2>2. p \in Seq(Calls) /\ Stacked(p) /\ ToSet(p) = {b} \cup {} /\ Head(p) = b
    BY <2>1, CallPushed
  <2>3. <<b>> = p
    BY EmptyStack, Zenon
  <2> QED BY <2>2, <2>3, Zenon
<1> HIDE DEF p
<1>2. /\ q \in Seq(Calls) /\ Stacked(q) /\ ToSet(q) = {a, b} /\ Head(q) = a
  <2>1. Follows(Head(p)) => a.does = "disconnecting" /\ a.d = Head(p).d
    BY <1>1
  <2>2. q \in Seq(Calls) /\ Stacked(q) /\ ToSet(q) = {a} \cup ToSet(p) /\ Head(q) = a
    BY <1>1, <2>1, CallPushed
  <2> QED BY <1>1, <2>2
<1>3. task' = q
  BY <1>1
<1> HIDE DEF q
<1>4. ~ Follows(a)
  BY DEF Follows
<1> QED BY <1>1, <1>2, <1>3, <1>4, StackIs

LEMMA NoCallKeeps ==
    ASSUME task' = << >>
    PROVE  Stack'
<1>1. \A c \in ToSet(<< >>) : Fits(c)'
  BY EmptyStack
<1>2. << >> \in Seq(Calls) /\ Stacked(<< >>)
  BY EmptyStack
<1> QED BY <1>1, <1>2, StackIs

-----------------------------------------------------------------------------
(* The count of players.                                                   *)

LEMMA WhoIsCounted ==
    ASSUME ListTyped, AllFit
    PROVE  IsFiniteSet(Open) /\ Connected \cup ToBeSet \subseteq Open
<1>1. IsFiniteSet(Open)
  BY FiniteToSet DEF ListTyped, Open
<1>2. ToBeSet \subseteq Open
  BY DEF ToBeSet, AllFit, Fits
<1> QED BY <1>1, <1>2 DEF Connected

\* Nobody is connected or about to be who was not before.
LEMMA CountedStays ==
    ASSUME ListTyped, AllFit, Counted, con_players_curr \in Nat,
           con_players_curr' = con_players_curr,
           Connected' \subseteq Connected \cup ToBeSet,
           \A c \in ToSet(task') : \/ c \in ToSet(task)
                                   \/ c.does = "set" /\ c.who # NOTHING => c.d \in Connected,
           \A c \in ToSet(task) : WillCount(c) => c \in ToSet(task')
    PROVE  Counted'
<1>1. ToBeSet' \subseteq Connected \cup ToBeSet
  BY DEF ToBeSet
<1>2. Connected' \cup ToBeSet' \subseteq Connected \cup ToBeSet
  BY <1>1
<1>3. IsFiniteSet(Connected \cup ToBeSet)
  BY WhoIsCounted, FS_Subset
<1>4. /\ IsFiniteSet(Connected' \cup ToBeSet')
      /\ Cardinality(Connected' \cup ToBeSet') <= Cardinality(Connected \cup ToBeSet)
      /\ Cardinality(Connected' \cup ToBeSet') \in Nat /\ Cardinality(Connected \cup ToBeSet) \in Nat
  BY <1>2, <1>3, FS_Subset, FS_CardinalityType
<1>5. Pending <= Pending' /\ Pending \in Nat /\ Pending' \in Nat
  BY DEF Pending, WillCount
<1> QED BY <1>4, <1>5 DEF Counted

\* One more is connected while the main loop calls nothing, and is counted
\* when the call returns.
LEMMA OneMoreCounted ==
    ASSUME ListTyped, AllFit, Counted, con_players_curr \in Nat, task = << >>,
           con_players_curr' = con_players_curr,
           NEW d, Connected' \subseteq Connected \cup {d},
           NEW e \in Calls, e.does = "connecting", e.counts, task' = <<e>>
    PROVE  Counted'
<1>1. ToSet(task) = {} /\ ToSet(task') = {e}
  <2>1. ToSet(<<e>>) = {e}
    BY OneCall
  <2> QED BY <2>1, EmptyStack
<1>2. ToBeSet = {} /\ ToBeSet' = {}
  BY <1>1 DEF ToBeSet
<1>3. Pending = 0 /\ Pending' = 1
  BY <1>1 DEF Pending, WillCount
<1>4. IsFiniteSet(Connected)
  BY WhoIsCounted, FS_Subset
<1>5. Connected' \cup ToBeSet' \subseteq Connected \cup {d} /\ Connected \cup ToBeSet = Connected
  BY <1>2
<1>6. /\ IsFiniteSet(Connected \cup {d}) /\ Cardinality(Connected) \in Nat
      /\ Cardinality(Connected \cup {d}) \in Nat
      /\ Cardinality(Connected \cup {d}) <= Cardinality(Connected) + 1
  <2>1. Cardinality(Connected) \in Nat
    BY <1>4, FS_CardinalityType
  <2>2. /\ IsFiniteSet(Connected \cup {d})
        /\ Cardinality(Connected \cup {d}) =
              IF d \in Connected THEN Cardinality(Connected) ELSE Cardinality(Connected) + 1
    BY <1>4, FS_AddElement
  <2> QED BY <2>1, <2>2
<1>7. /\ Cardinality(Connected' \cup ToBeSet') <= Cardinality(Connected \cup {d})
      /\ Cardinality(Connected' \cup ToBeSet') \in Nat
  BY <1>5, <1>6, FS_Subset, FS_CardinalityType
<1>8. Cardinality(Connected) <= con_players_curr
  <2>1. Cardinality(Connected \cup ToBeSet) <= con_players_curr + 0
    BY <1>3, Zenon DEF Counted
  <2>2. Cardinality(Connected) <= con_players_curr + 0
    BY <1>5, <2>1, Zenon
  <2> QED BY <1>6, <2>2
<1>9. Cardinality(Connected' \cup ToBeSet') <= con_players_curr' + 1
  BY <1>6, <1>7, <1>8
<1> QED BY <1>3, <1>9 DEF Counted

\* It returns.
LEMMA NowCounted ==
    ASSUME ListTyped, AllFit, Counted, con_players_curr \in Nat,
           con_players_curr' = con_players_curr + 1,
           Connected' = Connected, task' = << >>
    PROVE  Counted'
<1>1. ToSet(task') = {}
  BY EmptyStack
<1>2. ToBeSet' = {} /\ Pending' = 0 /\ Pending <= 1 /\ Pending \in Nat
  BY <1>1 DEF ToBeSet, Pending
<1>3. Connected' \cup ToBeSet' \subseteq Connected \cup ToBeSet
  BY <1>2
<1>4. IsFiniteSet(Connected \cup ToBeSet)
  BY WhoIsCounted, FS_Subset
<1>5. /\ Cardinality(Connected' \cup ToBeSet') <= Cardinality(Connected \cup ToBeSet)
      /\ Cardinality(Connected' \cup ToBeSet') \in Nat /\ Cardinality(Connected \cup ToBeSet) \in Nat
  BY <1>3, <1>4, FS_Subset, FS_CardinalityType
<1> QED BY <1>2, <1>5 DEF Counted

\* select() counts those who are connected.
LEMMA CountedAnew ==
    ASSUME ListTyped, AllFit, task' = << >>, Connected' = Connected,
           con_players_curr' = Cardinality(Connected)
    PROVE  Counted' /\ con_players_curr' \in Nat
<1>1. ToSet(task') = {}
  BY EmptyStack
<1>2. ToBeSet' = {} /\ Pending' = 0
  BY <1>1 DEF ToBeSet, Pending
<1>3. IsFiniteSet(Connected) /\ Cardinality(Connected) \in Nat
  BY WhoIsCounted, FS_Subset, FS_CardinalityType
<1>4. Connected' \cup ToBeSet' = Connected
  BY <1>2
<1> QED BY <1>2, <1>3, <1>4 DEF Counted

-----------------------------------------------------------------------------
(* The tables. First what is done to one descriptor or to one player.      *)

LEMMA ConnFields ==
    ASSUME ConnTyped, NEW d \in Descrs
    PROVE  /\ conn[d].connected \in BOOLEAN /\ conn[d].player \in Players \cup {NOTHING}
           /\ conn[d].connected <=> conn[d].player # NOTHING
           /\ conn[d].connected => d \in Connected
BY DEF ConnTyped, Closed, Connected

SameLogins == \A d \in Descrs : /\ conn'[d].connected = conn[d].connected
                                /\ conn'[d].player = conn[d].player

LEMMA BootConn ==
    ASSUME ConnTyped, NEW S, Boot(S), descriptor_list' = descriptor_list
    PROVE  ConnTyped' /\ SameLogins
BY DEF ConnTyped, Boot, SameLogins, Open

LEMMA SameConn ==
    ASSUME ConnTyped, conn' = conn, descriptor_list' = descriptor_list
    PROVE  ConnTyped' /\ SameLogins
BY DEF ConnTyped, SameLogins, Open

\* d->booted is cleared.
LEMMA SweptConn ==
    ASSUME ConnTyped, NEW d \in Open, d \in Descrs, descriptor_list' = descriptor_list,
           conn' = [conn EXCEPT ![d].booted = FALSE]
    PROVE  ConnTyped' /\ SameLogins
BY DEF ConnTyped, SameLogins, Open

OthersSame(d) == \A e \in Descrs : e # d => conn'[e] = conn[e]

LEMMA OutConn ==
    ASSUME ConnTyped, NEW d \in Open, d \in Descrs, descriptor_list' = descriptor_list,
           conn' = [conn EXCEPT ![d].connected = FALSE, ![d].player = NOTHING]
    PROVE  ConnTyped' /\ ~ conn'[d].connected /\ OthersSame(d)
BY DEF ConnTyped, OthersSame, Open

LEMMA InConn ==
    ASSUME ConnTyped, NEW d \in Open, d \in Descrs, descriptor_list' = descriptor_list,
           NEW player \in Players,
           conn' = [conn EXCEPT ![d].connected = TRUE, ![d].player = player]
    PROVE  ConnTyped' /\ conn'[d].connected /\ conn'[d].player = player /\ OthersSame(d)
BY DEF ConnTyped, OthersSame, Open

LEMMA DescrsSet ==
    ASSUME DescrsTyped, NEW p \in Players, NEW q \in Seq(Descrs),
           descrs' = [descrs EXCEPT ![p] = q]
    PROVE  /\ DescrsTyped' /\ descrs'[p] = q
           /\ \A r \in Players : r # p => descrs'[r] = descrs[r]
BY DEF DescrsTyped

LEMMA DescrsOf ==
    ASSUME DescrsTyped, NEW p \in Players
    PROVE  descrs[p] \in Seq(Descrs)
BY Zenon DEF DescrsTyped

\* forget_player_descr(), of a descriptor that is his, or of any other.
LEMMA ForgotHis ==
    ASSUME NEW q \in Seq(Descrs), Distinct(q), NEW d
    PROVE  LET r == IF Len(q) > 1 THEN Without(q, {d}) ELSE << >>
           IN  /\ r \in Seq(Descrs) /\ Distinct(r) /\ ToSet(r) \subseteq ToSet(q) \ {d}
               /\ d \in ToSet(q) => ToSet(r) = ToSet(q) \ {d}
<1>1. /\ Without(q, {d}) \in Seq(Descrs) /\ Distinct(Without(q, {d}))
      /\ ToSet(Without(q, {d})) = ToSet(q) \ {d}
  BY WithoutSet
<1>2. CASE Len(q) > 1
  BY <1>1, <1>2
<1>3. CASE ~ (Len(q) > 1) /\ d \in ToSet(q)
  <2>1. PICK i \in 1 .. Len(q) : q[i] = d
    BY <1>3, SetOfSequence
  <2>2. \A j \in 1 .. Len(q) : q[j] = d
    <3>1. Len(q) \in Nat /\ ~ (Len(q) > 1)
      BY <1>3
    <3> DEFINE n == Len(q)
    <3>2. n = 1 /\ i = 1
      <4>1. n \in Nat /\ ~ (n > 1) /\ i \in 1 .. n
        BY <3>1
      <4> HIDE DEF n
      <4> QED BY <4>1
    <3> QED BY <2>1, <3>2
  <2>3. \A e \in ToSet(q) : e = d
    BY <2>2, SetOfSequence
  <2>4. ToSet(q) \ {d} = {}
    BY <2>3
  <2>5. << >> \in Seq(Descrs) /\ Distinct(<< >>) /\ ToSet(<< >>) = {}
    BY EmptyStack DEF Distinct
  <2> QED BY <1>3, <2>4, <2>5
<1>4. CASE ~ (Len(q) > 1) /\ d \notin ToSet(q)
  BY <1>4, EmptyStack DEF Distinct
<1> QED BY <1>2, <1>3, <1>4

\* What is not about a player's own table follows from how conn changes.
LEMMA KnownStay ==
    ASSUME KnownPlayers, ConnTyped, ConnTyped', Open' \subseteq Open, Open \subseteq Descrs,
           NEW d, OthersSame(d), conn'[d].connected => type'[conn'[d].player] # "none",
           \A p \in Players : type[p] # "none" => type'[p] # "none"
    PROVE  KnownPlayers'
<1> SUFFICES ASSUME NEW e \in Connected'
             PROVE  type'[conn'[e].player] # "none"
  BY DEF KnownPlayers
<1>1. e \in Descrs /\ conn'[e].connected /\ e \in Open
  BY DEF Connected
<1>2. CASE e = d
  BY <1>1, <1>2
<1>3. CASE e # d
  <2>1. conn'[e] = conn[e] /\ e \in Connected
    BY <1>1, <1>3 DEF OthersSame, Connected
  <2>2. type[conn[e].player] # "none" /\ conn[e].player \in Players
    BY <1>1, <2>1, ConnFields DEF KnownPlayers
  <2> QED BY <2>1, <2>2
<1> QED BY <1>2, <1>3

\* The others keep their descriptors.
LEMMA OfOthers ==
    ASSUME ConnTyped, ConnTyped', NEW d, OthersSame(d), Open \subseteq Descrs,
           Open' = Open \/ Open' = Open \ {d},
           NEW p \in Players, ~ (d \in Connected /\ conn[d].player = p),
           ~ (d \in Connected' /\ conn'[d].player = p)
    PROVE  Of(p)' = Of(p)
BY DEF Of, Connected, OthersSame

LEMMA OpenDescrs ==
    ASSUME ListTyped
    PROVE  Open \subseteq Descrs
<1>1. descriptor_list \in Seq(Descrs)
  BY DEF ListTyped
<1>2. \A i \in 1 .. Len(descriptor_list) : descriptor_list[i] \in Descrs
  BY <1>1
<1> QED BY <1>1, <1>2, SetOfSequence DEF Open

Counters == con_players_curr' \in Nat /\ acts' \in 0 .. MaxActs

\* A step that logs nobody in or out.
Quiet == /\ UNCHANGED <<descriptor_list, descr_count_table, descrs, type, ghosts>>
         /\ ConnTyped' /\ SameLogins /\ Counters

LEMMA QuietKeeps ==
    ASSUME Data, Quiet
    PROVE  Data' /\ Open' = Open /\ Connected' = Connected
<1>1. Open' = Open /\ Open \subseteq Descrs
  BY OpenDescrs DEF Data, Quiet, Open
<1>2. Connected' = Connected /\ \A p : Of(p)' = Of(p)
  BY <1>1 DEF Quiet, SameLogins, Connected, Of
<1>3. Gone(conn)' = Gone(conn)
  BY DEF Quiet, SameLogins, Gone
<1>4. TableRight'
  BY <1>3, Zenon DEF Data, TableRight, Quiet, ghosts
<1>5. ListTyped' /\ DescrsTyped'
  BY Zenon DEF Data, ListTyped, DescrsTyped, Quiet
<1>6. PlainTyped'
  BY DEF Data, PlainTyped, Quiet, Counters, ghosts
<1>7. HisOwnAgree'
  BY <1>2, Zenon DEF Data, HisOwnAgree, HisOwn, Quiet, ghosts
<1>8. KnownPlayers'
  BY <1>1, <1>2 DEF Data, KnownPlayers, Quiet, SameLogins, Connected
<1> QED BY <1>1, <1>2, <1>4, <1>5, <1>6, <1>7, <1>8 DEF Data, Quiet

\* The table of connection numbers is made anew after a change.
LEMMA TableAnew ==
    ASSUME ListTyped, descriptor_list' = descriptor_list, NEW c, Update(c)
    PROVE  TableRight'
<1>1. conn' = c /\ descr_count_table' = Without(descriptor_list, Gone(c))
  BY Zenon DEF Update, CountTable, Gone
<1>2. Gone(conn)' = Gone(c)
  BY <1>1 DEF Gone
<1>3. descr_count_table' \in Seq(Descrs)
  BY <1>1, WithoutSet DEF ListTyped
<1> QED BY <1>1, <1>2, <1>3, Zenon DEF TableRight

\* announce_disconnect()
LEMMA OutKeeps ==
    ASSUME Data, NEW d \in Open, NEW player \in Players,
           Update([conn EXCEPT ![d].connected = FALSE, ![d].player = NOTHING]),
           descrs' = Forgot(player, d),
           usurped' = (usurped \/ conn[d].player # player),
           UNCHANGED <<descriptor_list, type, orphaned, haunted>>, Counters
    PROVE  Data' /\ Open' = Open /\ Connected' \subseteq Connected /\ ~ conn'[d].connected
<1>1. Open' = Open /\ Open \subseteq Descrs /\ d \in Descrs
  BY OpenDescrs DEF Data, Open
<1>2. /\ ListTyped /\ ConnTyped /\ DescrsTyped /\ PlainTyped /\ HisOwnAgree /\ KnownPlayers
  BY DEF Data
<1>3. conn' = [conn EXCEPT ![d].connected = FALSE, ![d].player = NOTHING]
  BY DEF Update
<1>4. ConnTyped' /\ ~ conn'[d].connected /\ OthersSame(d)
  BY <1>1, <1>2, <1>3, OutConn
<1>5. Connected' \subseteq Connected /\ d \notin Connected'
  BY <1>1, <1>4 DEF Connected, OthersSame
<1>6. TableRight' /\ ListTyped'
  BY <1>2, TableAnew, Zenon DEF ListTyped
<1>7. PlainTyped'
  BY <1>2 DEF PlainTyped, Counters
<1>8. KnownPlayers'
  BY <1>1, <1>2, <1>4, KnownStay
<1> DEFINE q == descrs[player]
           r == IF Len(q) > 1 THEN Without(q, {d}) ELSE << >>
<1>9. q \in Seq(Descrs) /\ r \in Seq(Descrs)
  <2>1. q \in Seq(Descrs)
    BY <1>2, DescrsOf
  <2> QED BY <2>1, WithoutSet
<1>10. descrs' = IF type[player] = "player" THEN [descrs EXCEPT ![player] = r] ELSE descrs
  BY Zenon DEF Forgot
<1> HIDE DEF q, r
<1>11. /\ DescrsTyped'
       /\ type[player] = "player" => descrs'[player] = r
       /\ \A p \in Players : p # player \/ type[player] # "player" => descrs'[p] = descrs[p]
  <2>1. CASE type[player] = "player"
    BY <1>2, <1>9, <1>10, <2>1, DescrsSet
  <2>2. CASE type[player] # "player"
    <3>1. descrs' = descrs
      BY <1>10, <2>2
    <3> QED BY <1>2, <2>2, <3>1, Zenon DEF DescrsTyped
  <2> QED BY <2>1, <2>2
<1>12. HisOwnAgree'
  <2> SUFFICES ASSUME ~ usurped', NEW p \in Players, type'[p] = "player"
               PROVE  HisOwn(p)'
    BY DEF HisOwnAgree
  <2>1. ~ usurped /\ conn[d].player = player /\ type[p] = "player" /\ HisOwn(p)
    BY <1>2 DEF HisOwnAgree, PlainTyped
  <2>2. d \in Of(player) /\ haunted' = haunted
    BY <1>1, <1>2, <2>1, ConnFields DEF Of
  <2>3. CASE p # player
    <3>1. descrs'[p] = descrs[p]
      BY <1>11, <2>3
    <3>2. Of(p)' = Of(p)
      BY <1>1, <1>2, <1>4, <1>5, <2>1, <2>3, OfOthers
    <3> QED BY <2>1, <2>2, <3>1, <3>2, Zenon DEF HisOwn
  <2>4. CASE p = player
    <3>1. /\ Distinct(q) /\ ToSet(q) \subseteq Of(p)
          /\ p \in haunted \/ Of(p) \subseteq ToSet(q)
      BY <2>1, <2>4 DEF HisOwn, q
    <3>2. /\ Distinct(r) /\ ToSet(r) \subseteq ToSet(q) \ {d}
          /\ d \in ToSet(q) => ToSet(r) = ToSet(q) \ {d}
      BY <1>9, <3>1, ForgotHis DEF r
    <3>3. Of(p)' = Of(p) \ {d}
      BY <1>1, <1>4, <1>5 DEF Of, Connected, OthersSame
    <3>4. descrs'[p] = r
      BY <1>11, <2>1, <2>4
    <3>5. ToSet(r) \subseteq Of(p) \ {d}
      BY <3>1, <3>2
    <3>6. p \in haunted \/ Of(p) \ {d} \subseteq ToSet(r)
      BY <2>2, <2>4, <3>1, <3>2
    <3> QED BY <2>2, <3>2, <3>3, <3>4, <3>5, <3>6, Zenon DEF HisOwn
  <2> QED BY <2>3, <2>4
<1> QED BY <1>1, <1>4, <1>5, <1>6, <1>7, <1>8, <1>11, <1>12 DEF Data

\* check_connect() and pset_user(): nobody is connected on d, or somebody who
\* is no player any more.
LEMMA InKeeps ==
    ASSUME Data, NEW d \in Open, NEW player \in Players, type[player] # "none", LetGo(d),
           LogIn(d, player),
           UNCHANGED <<descriptor_list, type, ghosts>>, Counters
    PROVE  Data' /\ Open' = Open /\ Connected' = Connected \cup {d}
<1>1. Open' = Open /\ Open \subseteq Descrs /\ d \in Descrs
  BY OpenDescrs DEF Data, Open
<1>2. /\ ListTyped /\ ConnTyped /\ DescrsTyped /\ PlainTyped /\ HisOwnAgree /\ KnownPlayers
  BY DEF Data
<1>3. /\ Update([conn EXCEPT ![d].connected = TRUE, ![d].player = player])
      /\ conn' = [conn EXCEPT ![d].connected = TRUE, ![d].player = player]
  BY DEF Update, LogIn
<1>4. ConnTyped' /\ conn'[d].connected /\ conn'[d].player = player /\ OthersSame(d)
  BY <1>1, <1>2, <1>3, InConn
<1>5. Connected' = Connected \cup {d}
  BY <1>1, <1>4 DEF Connected, OthersSame
<1>6. TableRight' /\ ListTyped'
  BY <1>2, <1>3, TableAnew, Zenon DEF ListTyped
<1>7. PlainTyped'
  BY <1>2 DEF PlainTyped, Counters, ghosts
<1>8. KnownPlayers'
  BY <1>1, <1>2, <1>4, KnownStay
<1> DEFINE q == descrs[player]
           r == Append(q, d)
<1>9. q \in Seq(Descrs) /\ r \in Seq(Descrs)
  BY <1>1, <1>2, DescrsOf
<1>10. descrs' = IF type[player] # "player" THEN descrs ELSE [descrs EXCEPT ![player] = r]
  BY Zenon DEF LogIn, Remembered
<1> HIDE DEF q, r
<1>11. /\ DescrsTyped'
       /\ type[player] = "player" => descrs'[player] = r
       /\ \A p \in Players : p # player \/ type[player] # "player" => descrs'[p] = descrs[p]
  <2>1. CASE type[player] = "player"
    BY <1>2, <1>9, <1>10, <2>1, DescrsSet
  <2>2. CASE type[player] # "player"
    <3>1. descrs' = descrs
      BY <1>10, <2>2
    <3> QED BY <1>2, <2>2, <3>1, Zenon DEF DescrsTyped
  <2> QED BY <2>1, <2>2
<1>12. HisOwnAgree'
  <2> SUFFICES ASSUME ~ usurped', NEW p \in Players, type'[p] = "player"
               PROVE  HisOwn(p)'
    BY DEF HisOwnAgree
  <2>1. type[p] = "player" /\ HisOwn(p)
    BY <1>2 DEF HisOwnAgree, PlainTyped, ghosts
  <2>2. ~ (d \in Connected /\ conn[d].player = p) /\ haunted' = haunted
    BY <2>1 DEF LetGo, Connected, ghosts
  <2>3. CASE p # player
    <3>1. descrs'[p] = descrs[p]
      BY <1>11, <2>3
    <3>2. Of(p)' = Of(p)
      BY <1>1, <1>2, <1>4, <2>2, <2>3, OfOthers
    <3> QED BY <2>1, <2>2, <3>1, <3>2, Zenon DEF HisOwn
  <2>4. CASE p = player
    <3>1. /\ Distinct(q) /\ ToSet(q) \subseteq Of(p) /\ d \notin ToSet(q)
          /\ p \in haunted \/ Of(p) \subseteq ToSet(q)
      BY <2>1, <2>2, <2>4 DEF HisOwn, q, Of
    <3>2. Distinct(r) /\ ToSet(r) = ToSet(q) \cup {d}
      BY <1>1, <1>9, <3>1, AppendSet DEF r
    <3>3. Of(p)' = Of(p) \cup {d}
      BY <1>1, <1>4, <1>5, <2>4 DEF Of, Connected, OthersSame
    <3>4. descrs'[p] = r
      BY <1>11, <2>1, <2>4
    <3>5. /\ ToSet(r) \subseteq Of(p) \cup {d}
          /\ p \in haunted \/ Of(p) \cup {d} \subseteq ToSet(r)
      BY <3>1, <3>2
    <3> QED BY <2>2, <3>2, <3>3, <3>4, <3>5, Zenon DEF HisOwn
  <2> QED BY <2>3, <2>4
<1> QED BY <1>1, <1>4, <1>5, <1>6, <1>7, <1>8, <1>11, <1>12 DEF Data

\* create_player() and check_connect(): the player's table starts with d.
LEMMA CreateKeeps ==
    ASSUME Data, NEW d \in Open, NEW player \in Players,
           ~ conn[d].connected,
           Update([conn EXCEPT ![d].connected = TRUE, ![d].player = player]),
           NewPlayer(player, <<d>>),
           UNCHANGED <<descriptor_list, orphaned, usurped>>, Counters
    PROVE  Data' /\ Open' = Open /\ Connected' = Connected \cup {d}
<1>1. Open' = Open /\ Open \subseteq Descrs /\ d \in Descrs
  BY OpenDescrs DEF Data, Open
<1>2. /\ ListTyped /\ ConnTyped /\ DescrsTyped /\ PlainTyped /\ HisOwnAgree /\ KnownPlayers
  BY DEF Data
<1>3. conn' = [conn EXCEPT ![d].connected = TRUE, ![d].player = player]
  BY DEF Update
<1>4. ConnTyped' /\ conn'[d].connected /\ conn'[d].player = player /\ OthersSame(d)
  BY <1>1, <1>2, <1>3, InConn
<1>5. Connected' = Connected \cup {d}
  BY <1>1, <1>4 DEF Connected, OthersSame
<1>6. TableRight' /\ ListTyped'
  BY <1>2, TableAnew, Zenon DEF ListTyped
<1>7. /\ PlainTyped' /\ type'[player] = "player"
      /\ \A p \in Players : p # player => type'[p] = type[p]
      /\ \A p \in Players : p # player => (p \in haunted <=> p \in haunted')
      /\ player \in haunted' \/ Of(player) = {}
      /\ descrs' = [descrs EXCEPT ![player] = <<d>>]
  <2>1. /\ type' = [type EXCEPT ![player] = "player"]
        /\ descrs' = [descrs EXCEPT ![player] = <<d>>]
        /\ haunted' = IF \E e \in Connected : conn[e].player = player
                      THEN haunted \cup {player} ELSE haunted \ {player}
    BY DEF NewPlayer
  <2>2. player \in haunted' \/ Of(player) = {}
    BY <2>1 DEF Of
  <2> QED BY <1>2, <2>1, <2>2 DEF PlainTyped, Counters
<1>8. KnownPlayers'
  BY <1>1, <1>2, <1>4, <1>7, KnownStay
<1>9. <<d>> \in Seq(Descrs) /\ Distinct(<<d>>) /\ ToSet(<<d>>) = {d}
  <2>1. << >> \in Seq(Descrs) /\ Distinct(<< >>) /\ ToSet(<< >>) = {}
    BY EmptyStack DEF Distinct
  <2>2. PICK q \in Seq(Descrs) : q = << >> /\ Distinct(q) /\ ToSet(q) = {}
    BY <2>1, Zenon
  <2>3. /\ Append(q, d) \in Seq(Descrs) /\ Distinct(Append(q, d))
        /\ ToSet(Append(q, d)) = ToSet(q) \cup {d}
    <3>1. Distinct(q) /\ d \notin ToSet(q)
      BY <2>2
    <3> QED BY <1>1, <3>1, AppendSet
  <2>4. <<d>> = Append(q, d)
    BY <2>2
  <2> QED BY <2>2, <2>3, <2>4
<1>10. /\ DescrsTyped' /\ descrs'[player] = <<d>>
       /\ \A p \in Players : p # player => descrs'[p] = descrs[p]
  BY <1>2, <1>7, <1>9, DescrsSet
<1>11. HisOwnAgree'
  <2> SUFFICES ASSUME ~ usurped', NEW p \in Players, type'[p] = "player"
               PROVE  HisOwn(p)'
    BY DEF HisOwnAgree
  <2>1. CASE p # player
    <3>1. type[p] = "player" /\ HisOwn(p)
      BY <1>2, <1>7, <2>1 DEF HisOwnAgree, PlainTyped
    <3>2. descrs'[p] = descrs[p]
      BY <1>10, <2>1
    <3>3. Of(p)' = Of(p)
      BY <1>1, <1>2, <1>4, <2>1, OfOthers DEF Connected
    <3> QED BY <1>7, <2>1, <3>1, <3>2, <3>3, Zenon DEF HisOwn
  <2>2. CASE p = player
    <3>1. Of(p)' = Of(p) \cup {d}
      BY <1>1, <1>4, <1>5, <2>2 DEF Of, Connected, OthersSame
    <3>2. p \in haunted' \/ Of(p)' = {d}
      BY <1>7, <2>2, <3>1
    <3> QED BY <1>9, <1>10, <2>2, <3>1, <3>2 DEF HisOwn
  <2> QED BY <2>1, <2>2
<1> QED BY <1>1, <1>4, <1>5, <1>6, <1>7, <1>8, <1>10, <1>11 DEF Data

\* The end of shutdownsock(): d is freed.
LEMMA CloseKeeps ==
    ASSUME Data, NEW d \in Open, LetGo(d),
           descriptor_list' = Without(descriptor_list, {d}),
           conn' = [conn EXCEPT ![d] = Closed],
           orphaned' = (orphaned \/ conn[d].connected),
           UNCHANGED <<descr_count_table, descrs, type, usurped, haunted>>, Counters
    PROVE  Data' /\ Open' = Open \ {d} /\ Connected' \subseteq Connected
<1>1. Open \subseteq Descrs /\ d \in Descrs
  BY OpenDescrs DEF Data
<1>2. /\ ListTyped /\ ConnTyped /\ DescrsTyped /\ PlainTyped /\ HisOwnAgree /\ KnownPlayers
      /\ TableRight
  BY DEF Data
<1>3. ListTyped' /\ Open' = Open \ {d}
  BY <1>2, WithoutSet DEF ListTyped, Open
<1>4. ConnTyped' /\ ~ conn'[d].connected /\ OthersSame(d)
  BY <1>1, <1>2, <1>3 DEF ConnTyped, OthersSame, Closed
<1>5. Connected' \subseteq Connected /\ d \notin Connected'
  BY <1>1, <1>3, <1>4 DEF Connected, OthersSame
<1>6. TableRight'
  <2>1. CASE conn[d].connected \/ orphaned
    BY <1>2, <2>1 DEF TableRight
  <2>2. CASE ~ conn[d].connected /\ ~ orphaned
    <3>1. d \in Gone(conn) /\ Gone(conn)' = Gone(conn)
      BY <1>1, <1>4, <2>2 DEF Gone, OthersSame
    <3>2. Without(Without(descriptor_list, {d}), Gone(conn)) = Without(descriptor_list, Gone(conn))
      BY <1>2, <3>1, WithoutTwice DEF ListTyped
    <3>3. descr_count_table \in Seq(Descrs)
          /\ descr_count_table = Without(descriptor_list, Gone(conn))
      BY <1>2, <2>2 DEF TableRight
    <3> QED BY <3>1, <3>2, <3>3, Zenon DEF TableRight
  <2> QED BY <2>1, <2>2
<1>7. PlainTyped' /\ DescrsTyped'
  <2>1. DescrsTyped'
    BY <1>2, Zenon DEF DescrsTyped
  <2> QED BY <1>1, <1>2, <2>1, ConnFields DEF PlainTyped, Counters
<1>8. KnownPlayers'
  BY <1>1, <1>2, <1>3, <1>4, KnownStay
<1>9. HisOwnAgree'
  <2> SUFFICES ASSUME ~ usurped', NEW p \in Players, type'[p] = "player"
               PROVE  HisOwn(p)'
    BY DEF HisOwnAgree
  <2>1. type[p] = "player" /\ HisOwn(p)
    BY <1>2 DEF HisOwnAgree
  <2>2. ~ (d \in Connected /\ conn[d].player = p)
    BY <2>1 DEF LetGo, Connected
  <2>3. Of(p)' = Of(p)
    BY <1>1, <1>2, <1>3, <1>4, <1>5, <2>2, OfOthers
  <2> QED BY <2>1, <2>3, Zenon DEF HisOwn
<1> QED BY <1>3, <1>4, <1>5, <1>6, <1>7, <1>8, <1>9 DEF Data

\* initializesock()
LEMMA OpenKeeps ==
    ASSUME Data, NEW d \in Descrs, d \notin Open,
           descriptor_list' = <<d>> \o descriptor_list,
           conn' = [conn EXCEPT ![d] = Closed],
           UNCHANGED <<descr_count_table, descrs, type, ghosts>>, Counters
    PROVE  Data' /\ Open' = Open \cup {d} /\ Connected' = Connected
<1>1. Open \subseteq Descrs
  BY OpenDescrs DEF Data
<1>2. /\ ListTyped /\ ConnTyped /\ DescrsTyped /\ PlainTyped /\ HisOwnAgree /\ KnownPlayers
      /\ TableRight
  BY DEF Data
<1>3. conn' = conn /\ ~ conn[d].connected
  BY <1>2 DEF ConnTyped, Closed
<1> DEFINE r == <<d>> \o descriptor_list
           n == Len(descriptor_list)
<1>4. /\ r \in Seq(Descrs) /\ ToSet(r) = {d} \cup ToSet(descriptor_list)
      /\ Len(r) = n + 1 /\ r[1] = d /\ n \in Nat
      /\ \A i \in 1 .. n : r[i + 1] = descriptor_list[i]
  BY <1>2, PushProperties DEF ListTyped
<1>5. \A i \in 1 .. n : descriptor_list[i] # d
  BY <1>2, SetOfSequence DEF ListTyped, Open
<1> HIDE DEF r
<1>6. Distinct(r)
  <2> SUFFICES ASSUME NEW i \in 1 .. Len(r), NEW j \in 1 .. Len(r), r[i] = r[j]
               PROVE  i = j
    BY DEF Distinct
  <2>1. \A k \in 1 .. Len(r) : k = 1 \/ (k - 1 \in 1 .. n /\ r[k] = descriptor_list[k - 1])
    <3> HIDE DEF n
    <3> SUFFICES ASSUME NEW k \in 1 .. Len(r), k # 1
                 PROVE  k - 1 \in 1 .. n /\ r[k] = descriptor_list[k - 1]
      OBVIOUS
    <3>1. k - 1 \in 1 .. n /\ (k - 1) + 1 = k
      BY <1>4
    <3> QED BY <1>4, <3>1
  <2>2. CASE i = 1 \/ j = 1
    BY <1>4, <1>5, <2>1, <2>2
  <2>3. CASE i # 1 /\ j # 1
    <3>1. i - 1 = j - 1
      BY <1>2, <2>1, <2>3 DEF ListTyped, Distinct
    <3>2. i \in Nat /\ j \in Nat
      OBVIOUS
    <3> QED BY <3>1, <3>2
  <2> QED BY <2>2, <2>3
<1>7. descriptor_list' = r
  BY DEF r
<1>8. ListTyped' /\ Open' = Open \cup {d}
  BY <1>4, <1>6, <1>7 DEF ListTyped, Open
<1>9. ConnTyped'
  BY <1>2, <1>3, <1>8 DEF ConnTyped
<1>10. Connected' = Connected /\ \A p : Of(p)' = Of(p)
  BY <1>3, <1>8 DEF Connected, Of
<1>11. TableRight'
  <2>1. Gone(conn)' = Gone(conn) /\ d \in Gone(conn)
    BY <1>3 DEF Gone
  <2>2. Without(r, Gone(conn)) = Without(descriptor_list, Gone(conn))
    BY <1>2, <2>1, WithoutFirst DEF ListTyped, r
  <2> QED BY <1>2, <1>7, <2>1, <2>2, Zenon DEF TableRight, ghosts
<1>12. PlainTyped' /\ DescrsTyped'
  <2>1. DescrsTyped'
    BY <1>2, Zenon DEF DescrsTyped
  <2> QED BY <1>2, <2>1 DEF PlainTyped, Counters, ghosts
<1>13. HisOwnAgree'
  BY <1>2, <1>10, Zenon DEF HisOwnAgree, HisOwn, ghosts
<1>14. KnownPlayers'
  BY <1>2, <1>3, <1>10 DEF KnownPlayers
<1> QED BY <1>8, <1>9, <1>10, <1>11, <1>12, <1>13, <1>14 DEF Data

\* @toad, @recycle and @pcreate: who was a player is one no more, or a dbref
\* is a player's, who has no descriptors.
LEMMA TypeChangeKeeps ==
    ASSUME Data, NEW p \in Players, NEW t \in {"player", "thing", "garbage"},
           type' = [type EXCEPT ![p] = t],
           ConnTyped', SameLogins, DescrsTyped',
           \A r \in Players : r # p => /\ descrs'[r] = descrs[r]
                                       /\ r \in haunted <=> r \in haunted',
           t = "player" => descrs'[p] = << >> /\ (p \in haunted' \/ Of(p) = {}),
           haunted' \subseteq Players,
           UNCHANGED <<descriptor_list, descr_count_table, orphaned, usurped>>, Counters
    PROVE  Data' /\ Open' = Open /\ Connected' = Connected
<1>1. Open' = Open /\ Open \subseteq Descrs
  BY OpenDescrs DEF Data, Open
<1>2. /\ ListTyped /\ ConnTyped /\ PlainTyped /\ HisOwnAgree /\ KnownPlayers /\ TableRight
  BY DEF Data
<1>3. Connected' = Connected /\ \A r : Of(r)' = Of(r)
  BY <1>1 DEF SameLogins, Connected, Of
<1>4. Gone(conn)' = Gone(conn)
  BY DEF SameLogins, Gone
<1>5. TableRight' /\ ListTyped'
  BY <1>2, <1>4, Zenon DEF TableRight, ListTyped
<1>6. PlainTyped' /\ type'[p] = t /\ \A r \in Players : r # p => type'[r] = type[r]
  BY <1>2 DEF PlainTyped, Counters
<1>7. HisOwnAgree'
  <2> SUFFICES ASSUME ~ usurped', NEW r \in Players, type'[r] = "player"
               PROVE  HisOwn(r)'
    BY DEF HisOwnAgree
  <2>1. CASE r # p
    <3>1. type[r] = "player" /\ HisOwn(r)
      BY <1>2, <1>6, <2>1 DEF HisOwnAgree, PlainTyped
    <3> QED BY <1>3, <2>1, <3>1, Zenon DEF HisOwn
  <2>2. CASE r = p
    <3>1. descrs'[r] = << >> /\ (r \in haunted' \/ Of(r) = {})
      BY <1>6, <2>2
    <3>2. ToSet(descrs'[r]) = {} /\ Distinct(descrs'[r])
      BY <3>1, EmptyStack DEF Distinct
    <3> QED BY <1>3, <3>1, <3>2 DEF HisOwn
  <2> QED BY <2>1, <2>2
<1>8. KnownPlayers'
  <2> SUFFICES ASSUME NEW e \in Connected
               PROVE  type'[conn'[e].player] # "none"
    BY <1>3 DEF KnownPlayers
  <2>1. e \in Descrs /\ conn[e].connected /\ conn'[e].player = conn[e].player
    BY <1>1 DEF Connected, SameLogins
  <2>2. conn[e].player \in Players /\ type[conn[e].player] # "none"
    BY <1>2, <2>1, ConnFields DEF KnownPlayers
  <2> QED BY <1>6, <2>1, <2>2
<1> QED BY <1>1, <1>3, <1>5, <1>6, <1>7, <1>8 DEF Data

-----------------------------------------------------------------------------
(* The passes over the list.                                               *)

LEMMA AfterProperties ==
    ASSUME ListTyped, NEW d \in Open
    PROVE  After(d) \in Open \cup {NOTHING} /\ After(d) # d
<1> DEFINE q == descriptor_list
           n == Len(q)
           k == CHOOSE i \in 1 .. n : q[i] = d
           rest == SubSeq(q, 1 + k, n)
<1>1. q \in Seq(Descrs) /\ n \in Nat /\ \A i \in 1 .. n : q[i] \in Descrs
  BY DEF ListTyped
<1>2. \E i \in 1 .. n : q[i] = d
  BY <1>1, SetOfSequence DEF Open
<1>3. k \in 1 .. n /\ q[k] = d
  BY <1>2, Zenon
<1>4. After(d) = First(rest)
  BY Zenon DEF After
<1> HIDE DEF k
<1>5. /\ rest \in Seq(Descrs)
      /\ Len(rest) = IF 1 + k <= n THEN n - (1 + k) + 1 ELSE 0
      /\ \A i \in 1 .. n - (1 + k) + 1 : rest[i] = q[(1 + k) + i - 1]
  <2>1. 1 + k \in Int /\ n \in Int /\ \A i \in 1 + k .. n : q[i] \in Descrs
    BY <1>1, <1>3
  <2> QED BY <2>1, SubSeqProperties
<1> HIDE DEF rest
<1>6. d \in Descrs /\ NOTHING # d
  BY <1>1, <1>3
<1>7. CASE rest = << >>
  BY <1>4, <1>6, <1>7 DEF First
<1>8. CASE rest # << >>
  <2>1. Len(rest) # 0
    BY <1>5, <1>8, EmptySeq
  <2>2. 1 + k <= n /\ 1 \in 1 .. n - (1 + k) + 1 /\ (1 + k) + 1 - 1 = k + 1 /\ k + 1 \in 1 .. n
    BY <1>1, <1>3, <1>5, <2>1
  <2>3. After(d) = q[k + 1]
    BY <1>4, <1>5, <1>8, <2>2 DEF First
  <2>4. q[k + 1] \in Open
    BY <1>1, <2>2, SetOfSequence DEF Open
  <2>5. q[k + 1] # d
    BY <1>3, <2>2 DEF ListTyped, Distinct
  <2> QED BY <2>3, <2>4, <2>5
<1> QED BY <1>7, <1>8

LEMMA FirstProperties ==
    ASSUME ListTyped
    PROVE  First(descriptor_list) \in Open \cup {NOTHING}
<1>1. CASE descriptor_list = << >>
  BY <1>1 DEF First
<1>2. CASE descriptor_list # << >>
  <2>1. Head(descriptor_list) \in Open /\ Head(descriptor_list) = descriptor_list[1]
    BY <1>2, TailSet, PopProperties DEF ListTyped, Open
  <2> QED BY <1>2, <2>1 DEF First
<1> QED BY <1>1, <1>2

\* A pass goes on to the next of the list.
LEMMA GoesOnKeeps ==
    ASSUME ListTyped, WalkTyped, NEW pass, Goes(pass), GoesOn, Open' = Open
    PROVE  /\ walk.next \in Open /\ task = << >>
           /\ WalkTyped' /\ walk'.next # walk.next /\ walk'.pass = pass /\ acts' \in 0 .. MaxActs
<1>1. walk.next \in Open /\ task = << >> /\ walk.pass = pass
  BY DEF Goes, WalkTyped
<1>2. PICK d \in Open : d = walk.next
  BY <1>1
<1>3. PICK e \in Open \cup {NOTHING} : e = After(d) /\ e # d
  BY AfterProperties
<1>4. Open \subseteq Descrs
  BY OpenDescrs
<1>5. walk' = [walk EXCEPT !.d = d, !.next = e]
  BY <1>2, <1>3 DEF GoesOn
<1>6. WalkTyped' /\ walk'.next = e /\ walk'.pass = pass
  BY <1>1, <1>4, <1>5 DEF WalkTyped
<1>7. acts' \in 0 .. MaxActs
  BY DEF GoesOn
<1> QED BY <1>1, <1>2, <1>3, <1>6, <1>7

LEMMA BeginKeeps ==
    ASSUME ListTyped, NEW pass \in {"commands", "boots"}, NEW round \in 0 .. Rounds,
           Begin(pass, round), Open' = Open
    PROVE  WalkTyped' /\ walk'.pass = pass /\ acts' \in 0 .. MaxActs
<1>1. PICK e \in Open \cup {NOTHING} : e = First(descriptor_list)
  BY FirstProperties
<1>2. Open \subseteq Descrs
  BY OpenDescrs
<1>3. walk' = [pass |-> pass, round |-> round, d |-> NOTHING, next |-> e] /\ acts' = 0
  BY <1>1 DEF Begin
<1> QED BY <1>1, <1>2, <1>3 DEF WalkTyped

-----------------------------------------------------------------------------
(* The steps. Calls that return.                                           *)

LEMMA InvParts ==
    ASSUME TablesInv
    PROVE  /\ Data /\ WalkTyped /\ Stack /\ Counted /\ ListTyped /\ ConnTyped /\ DescrsTyped
           /\ AllFit /\ con_players_curr \in Nat /\ acts \in 0 .. MaxActs /\ Open \subseteq Descrs
           /\ task \in Seq(Calls)
BY OpenDescrs DEF TablesInv, Data, Stack, PlainTyped

LEMMA HeadFacts ==
    ASSUME Stack, task # << >>
    PROVE  /\ Head(task) \in Calls /\ Head(task).d \in Open
           /\ ToSet(task) = {Head(task)} \cup ToSet(Tail(task))
           /\ AtBottom(Head(task)) => Tail(task) = << >>
<1>1. Head(task) \in Calls /\ ToSet(task) = {Head(task)} \cup ToSet(Tail(task))
  BY PopProperties DEF Stack
<1> QED BY <1>1, StackedTail DEF Stack, AllFit, Fits

LEMMA WalkStays ==
    ASSUME WalkTyped, walk' = walk, Open' = Open
    PROVE  WalkTyped'
BY DEF WalkTyped

LEMMA DisconnectedKeeps ==
    ASSUME TablesInv, Disconnected
    PROVE  TablesInv'
<1>1. /\ Data /\ WalkTyped /\ Stack /\ Counted /\ ListTyped /\ AllFit
      /\ con_players_curr \in Nat /\ acts \in 0 .. MaxActs
  BY InvParts
<1>2. task # << >> /\ Head(task).does = "disconnecting" /\ task' = Tail(task)
      /\ UNCHANGED <<descriptor_list, type, con_players_curr, walk, acts, orphaned, haunted>>
  BY DEF Disconnected
<1>3. /\ Head(task) \in Calls /\ Head(task).d \in Open
      /\ ToSet(task) = {Head(task)} \cup ToSet(task')
  BY <1>1, <1>2, HeadFacts
<1>4. PICK d \in Open, player \in Players : d = Head(task).d /\ player = Head(task).player
  BY <1>2, <1>3, CallFields
<1>5. /\ Update([conn EXCEPT ![d].connected = FALSE, ![d].player = NOTHING])
      /\ descrs' = Forgot(player, d)
      /\ usurped' = (usurped \/ conn[d].player # player)
  BY <1>4 DEF Disconnected
<1>6. Data' /\ Open' = Open /\ Connected' \subseteq Connected /\ ~ conn'[d].connected
  BY <1>1, <1>2, <1>5, OutKeeps DEF Counters
<1>7. WalkTyped'
  BY <1>1, <1>2, <1>6, WalkStays
<1>8. Stack'
  <2>1. LetGo(d)'
    BY <1>6 DEF LetGo
  <2> QED BY <1>1, <1>2, <1>4, <2>1, PopKeeps
<1>9. Counted'
  BY <1>1, <1>2, <1>3, <1>6, CountedStays DEF WillCount
<1> QED BY <1>6, <1>7, <1>8, <1>9 DEF TablesInv

LEMMA CloseStepKeeps ==
    ASSUME TablesInv, Close
    PROVE  TablesInv'
<1>1. /\ Data /\ WalkTyped /\ Stack /\ Counted /\ ListTyped /\ AllFit
      /\ con_players_curr \in Nat /\ acts \in 0 .. MaxActs
  BY InvParts
<1>2. task # << >> /\ Head(task).does = "closing" /\ task' = Tail(task)
      /\ UNCHANGED <<tables, type, con_players_curr, walk, acts, usurped, haunted>>
  BY DEF Close
<1>3. /\ Head(task) \in Calls /\ Head(task).d \in Open
      /\ ToSet(task) = {Head(task)} \cup ToSet(task') /\ task' = << >>
  BY <1>1, <1>2, HeadFacts DEF AtBottom
<1>4. PICK d \in Open : d = Head(task).d
  BY <1>3
<1>5. /\ descriptor_list' = Without(descriptor_list, {d})
      /\ conn' = [conn EXCEPT ![d] = Closed]
      /\ orphaned' = (orphaned \/ conn[d].connected)
  BY <1>4 DEF Close
<1>6. LetGo(d) /\ d # walk.next
  BY <1>1, <1>2, <1>3, <1>4 DEF Stack, HeadFree, Follows, AllFit, Fits
<1>7. Data' /\ Open' = Open \ {d} /\ Connected' \subseteq Connected
  BY <1>1, <1>2, <1>5, <1>6, CloseKeeps DEF Counters, tables
<1>8. WalkTyped'
  BY <1>1, <1>2, <1>6, <1>7 DEF WalkTyped
<1>9. Stack'
  BY <1>3, NoCallKeeps
<1>10. Counted'
  BY <1>1, <1>2, <1>3, <1>7, CountedStays DEF WillCount
<1> QED BY <1>7, <1>8, <1>9, <1>10 DEF TablesInv

LEMMA NewCalls ==
    ASSUME NEW d \in Descrs
    PROVE  /\ \A player \in Players, runs \in BOOLEAN :
                 [does |-> "disconnecting", d |-> d, player |-> player, runs |-> runs] \in Calls
           /\ [does |-> "closing", d |-> d] \in Calls
           /\ \A who \in Players \cup {NOTHING} : [does |-> "set", d |-> d, who |-> who] \in Calls
           /\ \A counts \in BOOLEAN : [does |-> "connecting", d |-> d, counts |-> counts] \in Calls
           /\ [does |-> "program", d |-> d] \in Calls
BY DEF Calls

LEMMA SetUserKeeps ==
    ASSUME TablesInv, SetUser
    PROVE  TablesInv'
<1>1. /\ Data /\ WalkTyped /\ Stack /\ Counted /\ ListTyped /\ ConnTyped /\ AllFit
      /\ con_players_curr \in Nat /\ acts \in 0 .. MaxActs /\ Open \subseteq Descrs
      /\ task \in Seq(Calls)
  BY InvParts
<1>2. task # << >> /\ Head(task).does = "set"
      /\ UNCHANGED <<descriptor_list, type, con_players_curr, walk, acts, ghosts>>
  BY DEF SetUser
<1>3. /\ Head(task) \in Calls /\ Head(task).d \in Open
      /\ ToSet(task) = {Head(task)} \cup ToSet(Tail(task))
  BY <1>1, <1>2, HeadFacts
<1>4. PICK d \in Open, who \in Players \cup {NOTHING} : d = Head(task).d /\ who = Head(task).who
  BY <1>2, <1>3, CallFields
<1>5. LetGo(d) /\ (who # NOTHING => type[who] # "none")
  BY <1>1, <1>2, <1>3, <1>4 DEF Stack, HeadFree, Follows, AllFit, Fits
<1>6. CASE who = NOTHING
  <2>1. task' = Tail(task) /\ UNCHANGED <<conn, tables>>
    BY <1>4, <1>6 DEF SetUser
  <2>2. Data' /\ Open' = Open /\ Connected' = Connected
    <3>1. ConnTyped' /\ SameLogins
      BY <1>1, <1>2, <2>1, SameConn
    <3> QED BY <1>1, <1>2, <2>1, <3>1, QuietKeeps DEF Quiet, Counters, tables
  <2>3. WalkTyped'
    BY <1>1, <1>2, <2>2, WalkStays
  <2>4. Stack'
    BY <1>1, <1>2, <1>4, <2>1, PopKeeps
  <2>5. Counted'
    BY <1>1, <1>2, <1>3, <2>1, <2>2, CountedStays DEF WillCount
  <2> QED BY <2>2, <2>3, <2>4, <2>5 DEF TablesInv
<1>7. CASE who # NOTHING
  <2>1. PICK e \in Calls : e = [does |-> "connecting", d |-> d, counts |-> FALSE]
    BY <1>1, NewCalls
  <2>2. LogIn(d, who) /\ task' = <<e>> \o Tail(task)
    BY <1>4, <1>7, <2>1 DEF SetUser
  <2>3. e.does = "connecting" /\ ~ e.counts /\ e.d = d
    BY <2>1
  <2>4. Data' /\ Open' = Open /\ Connected' = Connected \cup {d}
    BY <1>1, <1>2, <1>5, <1>7, <2>2, InKeeps DEF Counters
  <2>5. WalkTyped'
    BY <1>1, <1>2, <2>4, WalkStays
  <2>6. /\ Tail(task) \in Seq(Calls) /\ Stacked(Tail(task))
        /\ Tail(task) # << >> => ~ Follows(Head(Tail(task)))
    BY <1>1, <1>2, StackedTail, PopProperties DEF Stack
  <2>7. /\ task' \in Seq(Calls) /\ Stacked(task)' /\ ToSet(task') = {e} \cup ToSet(Tail(task))
        /\ Head(task') = e
    <3> DEFINE q == Tail(task)
               r == <<e>> \o q
    <3>1. q \in Seq(Calls) /\ Stacked(q) /\ (q # << >> => ~ Follows(Head(q))) /\ ~ AtBottom(e)
      BY <2>3, <2>6 DEF AtBottom
    <3> HIDE DEF q
    <3>2. r \in Seq(Calls) /\ Stacked(r) /\ ToSet(r) = {e} \cup ToSet(q) /\ Head(r) = e
      BY <3>1, CallPushed
    <3>3. task' = r
      BY <2>2 DEF q
    <3> HIDE DEF r
    <3>4. Stacked(task)'
      BY <3>2, <3>3, Zenon DEF Stacked
    <3> QED BY <3>2, <3>3, <3>4, Zenon DEF q
  <2>8. Stack'
    <3>1. AllFit'
      <4>1. \A c \in ToSet(task) : Fits(c)'
        BY <1>1, <1>2, FitsStay
      <4>2. Fits(e)'
        BY <2>3, <2>4 DEF Fits
      <4> QED BY <1>3, <2>7, <4>1, <4>2 DEF AllFit
    <3>2. HeadFree' /\ SelectIdle'
      BY <1>1, <1>2, <2>3, <2>7 DEF HeadFree, Follows, SelectIdle, Stack
    <3> QED BY <2>7, <3>1, <3>2 DEF Stack
  <2>9. Counted'
    <3>1. d \in ToBeSet
      BY <1>1, <1>2, <1>3, <1>4, <1>7 DEF ToBeSet
    <3>2. Connected' \subseteq Connected \cup ToBeSet
      BY <2>4, <3>1
    <3> QED BY <1>1, <1>2, <1>3, <2>3, <2>7, <3>2, CountedStays DEF WillCount
  <2> QED BY <2>4, <2>5, <2>8, <2>9 DEF TablesInv
<1> QED BY <1>6, <1>7

LEMMA ReturnKeeps ==
    ASSUME TablesInv, Return
    PROVE  TablesInv'
<1>1. /\ Data /\ WalkTyped /\ Stack /\ Counted /\ ListTyped /\ ConnTyped /\ AllFit
      /\ con_players_curr \in Nat /\ acts \in 0 .. MaxActs
  BY InvParts
<1>2. /\ task # << >> /\ Head(task).does \in {"connecting", "program"} /\ task' = Tail(task)
      /\ con_players_curr' = con_players_curr + IF Counts THEN 1 ELSE 0
      /\ UNCHANGED <<descriptor_list, conn, tables, type, walk, acts, ghosts>>
  BY DEF Return
<1>3. /\ Head(task) \in Calls /\ Head(task).d \in Open
      /\ ToSet(task) = {Head(task)} \cup ToSet(task')
      /\ AtBottom(Head(task)) => task' = << >>
  BY <1>1, <1>2, HeadFacts
<1>4. con_players_curr' \in Nat
  BY <1>1, <1>2
<1>5. Data' /\ Open' = Open /\ Connected' = Connected
  <2>1. ConnTyped' /\ SameLogins
    BY <1>1, <1>2, SameConn
  <2> QED BY <1>1, <1>2, <1>4, <2>1, QuietKeeps DEF Quiet, Counters, tables
<1>6. WalkTyped'
  BY <1>1, <1>2, <1>5, WalkStays
<1>7. Stack'
  <2>1. PICK d \in Open : d = Head(task).d
    BY <1>3
  <2> QED BY <1>1, <1>2, <2>1, PopKeeps
<1>8. Counted'
  <2>1. CASE Counts
    <3>1. con_players_curr' = con_players_curr + 1
      BY <1>2, <2>1
    <3>2. task' = << >>
      BY <1>3, <2>1 DEF Counts, AtBottom
    <3> QED BY <1>1, <1>5, <3>1, <3>2, NowCounted
  <2>2. CASE ~ Counts
    <3>1. con_players_curr' = con_players_curr
      BY <1>1, <1>2, <2>2
    <3>2. \A c \in ToSet(task) : WillCount(c) => c \in ToSet(task')
      BY <1>3, <2>2 DEF Counts, WillCount
    <3> QED BY <1>1, <1>3, <1>5, <3>1, <3>2, CountedStays
  <2> QED BY <2>1, <2>2
<1> QED BY <1>5, <1>6, <1>7, <1>8 DEF TablesInv

-----------------------------------------------------------------------------
(* Programs.                                                               *)

LEMMA Announced ==
    ASSUME ConnTyped, Open \subseteq Descrs, NEW d \in Connected
    PROVE  \/ AnnounceDisconnect(d) = << >> /\ type[conn[d].player] = "garbage"
           \/ \E a \in Calls : /\ AnnounceDisconnect(d) = <<a>>
                               /\ a.does = "disconnecting" /\ a.d = d
<1>1. d \in Descrs /\ conn[d].player \in Players
  BY ConnFields DEF Connected
<1>2. CASE type[conn[d].player] = "garbage"
  BY <1>2 DEF AnnounceDisconnect
<1>3. CASE type[conn[d].player] # "garbage"
  <2> DEFINE player == conn[d].player
             runs == type[player] # "player" \/ Len(descrs[player]) = 1
  <2>1. AnnounceDisconnect(d)
        = <<[does |-> "disconnecting", d |-> d, player |-> player, runs |-> runs]>>
    BY <1>3, Zenon DEF AnnounceDisconnect
  <2>2. runs \in BOOLEAN /\ player \in Players
    BY <1>1
  <2> HIDE DEF player, runs
  <2>3. PICK a \in Calls :
          a = [does |-> "disconnecting", d |-> d, player |-> player, runs |-> runs]
    BY <1>1, <2>2, NewCalls
  <2>4. a.does = "disconnecting" /\ a.d = d
    BY <2>3
  <2> QED BY <2>1, <2>3, <2>4, Zenon
<1> QED BY <1>2, <1>3

LEMMA ProgramBootsKeeps ==
    ASSUME TablesInv, NEW d \in Descrs, ProgramBoots(d)
    PROVE  TablesInv'
<1>1. /\ Data /\ WalkTyped /\ Stack /\ Counted /\ ListTyped /\ ConnTyped /\ AllFit
      /\ con_players_curr \in Nat /\ acts \in 0 .. MaxActs
  BY InvParts
<1>2. /\ task # << >> /\ acts < MaxActs /\ acts' = acts + 1 /\ Boot({d})
      /\ UNCHANGED <<descriptor_list, tables, type, con_players_curr, walk, task, ghosts>>
  BY DEF ProgramBoots, RunsPrograms
<1>3. acts' \in 0 .. MaxActs
  BY <1>1, <1>2
<1>4. Data' /\ Open' = Open /\ Connected' = Connected
  <2>1. ConnTyped' /\ SameLogins
    BY <1>1, <1>2, BootConn
  <2> QED BY <1>1, <1>2, <1>3, <2>1, QuietKeeps DEF Quiet, Counters, tables
<1>5. WalkTyped'
  BY <1>1, <1>2, <1>4, WalkStays
<1>6. Stack'
  <2>1. \A c \in ToSet(task) : Fits(c)'
    BY <1>1, <1>2, FitsStay
  <2>2. PICK h \in Open : h = Head(task).d
    BY <1>1, <1>2, HeadFacts
  <2>3. Follows(Head(task)) => LetGo(h)'
    <3>1. h \in Descrs
      BY OpenDescrs, <1>1
    <3>2. conn'[h].connected = conn[h].connected /\ conn'[h].player = conn[h].player
      BY <1>1, <1>2, <3>1, BootConn DEF SameLogins
    <3> QED BY <1>1, <1>2, <2>2, <3>2 DEF Stack, HeadFree, LetGo
  <2> QED BY <1>1, <1>2, <2>1, <2>2, <2>3, StackIs DEF Stack, SelectIdle
<1>7. Counted'
  BY <1>1, <1>2, <1>4, CountedStays
<1> QED BY <1>4, <1>5, <1>6, <1>7 DEF TablesInv

LEMMA ProgramSetsKeeps ==
    ASSUME TablesInv, NEW d \in Descrs, NEW who \in Players \cup {NOTHING}, ProgramSets(d, who)
    PROVE  TablesInv'
<1>1. /\ Data /\ WalkTyped /\ Stack /\ Counted /\ ListTyped /\ ConnTyped /\ AllFit
      /\ con_players_curr \in Nat /\ acts \in 0 .. MaxActs /\ Open \subseteq Descrs
      /\ task \in Seq(Calls)
  BY InvParts
<1>2. /\ task # << >> /\ ~ Follows(Head(task)) /\ acts < MaxActs /\ acts' = acts + 1
      /\ d \in Connected /\ (who # NOTHING => type[who] # "none")
      /\ UNCHANGED <<descriptor_list, conn, tables, type, con_players_curr, walk, ghosts>>
  BY DEF ProgramSets, RunsPrograms, Follows
<1>3. acts' \in 0 .. MaxActs
  BY <1>1, <1>2
<1>4. Data' /\ Open' = Open /\ Connected' = Connected
  <2>1. ConnTyped' /\ SameLogins
    BY <1>1, <1>2, SameConn
  <2> QED BY <1>1, <1>2, <1>3, <2>1, QuietKeeps DEF Quiet, Counters, tables
<1>5. WalkTyped'
  BY <1>1, <1>2, <1>4, WalkStays
<1>6. PICK b \in Calls : b = [does |-> "set", d |-> d, who |-> who]
  BY NewCalls
<1>7. task' = AnnounceDisconnect(d) \o <<b>> \o task
  BY <1>6 DEF ProgramSets
<1>8. b.does = "set" /\ b.d = d /\ b.who = who
  BY <1>6
<1>9. d \in Open /\ Fits(b) /\ ~ AtBottom(b) /\ Follows(b)
  BY <1>2, <1>8 DEF Fits, AtBottom, Follows, Connected
<1>10. CASE AnnounceDisconnect(d) = << >> /\ type[conn[d].player] = "garbage"
  <2>1. task' = <<b>> \o task
    BY <1>1, <1>7, <1>10, TwoPushed
  <2>2. LetGo(d)'
    BY <1>2, <1>10 DEF LetGo
  <2>3. Stack'
    BY <1>1, <1>2, <1>8, <1>9, <2>1, <2>2, PushKeeps
  <2>4. ToSet(task') = {b} \cup ToSet(task)
    BY <1>1, <2>1, PushProperties
  <2>5. Counted'
    BY <1>1, <1>2, <1>4, <1>8, <2>4, CountedStays
  <2> QED BY <1>4, <1>5, <2>3, <2>5 DEF TablesInv
<1>11. ASSUME NEW a \in Calls, AnnounceDisconnect(d) = <<a>>, a.does = "disconnecting", a.d = d
       PROVE  TablesInv'
  <2> DEFINE p == <<b>> \o task
  <2>1. task' = <<a>> \o p
    BY <1>1, <1>7, <1>11, TwoPushed
  <2>2. Fits(a) /\ ~ AtBottom(a)
    BY <1>9, <1>11 DEF Fits, AtBottom
  <2>3. Stack'
    BY <1>1, <1>2, <1>8, <1>9, <1>11, <2>1, <2>2, PushTwoKeeps
  <2>4. p \in Seq(Calls) /\ ToSet(p) = {b} \cup ToSet(task)
    BY <1>1, PushProperties
  <2> HIDE DEF p
  <2>5. ToSet(task') = {a} \cup ToSet(p)
    BY <2>1, <2>4, PushProperties
  <2>6. Counted'
    BY <1>1, <1>2, <1>4, <1>8, <1>11, <2>4, <2>5, CountedStays
  <2> QED BY <1>4, <1>5, <2>3, <2>6 DEF TablesInv
<1> QED BY <1>1, <1>2, <1>10, <1>11, Announced

-----------------------------------------------------------------------------
(* The main loop: no call is left when it goes on.                         *)

LEMMA LoopQuiet ==
    ASSUME TablesInv, task = << >>, task' = << >>, WalkTyped', acts' \in 0 .. MaxActs,
           conn' = conn \/ \E S : Boot(S),
           UNCHANGED <<descriptor_list, tables, type, con_players_curr, ghosts>>
    PROVE  TablesInv'
<1>1. /\ Data /\ Stack /\ Counted /\ ListTyped /\ ConnTyped /\ AllFit /\ con_players_curr \in Nat
  BY InvParts
<1>2. ConnTyped' /\ SameLogins
  BY <1>1, SameConn, BootConn
<1>3. Data' /\ Connected' = Connected
  BY <1>1, <1>2, QuietKeeps DEF Quiet, Counters, tables
<1>4. Stack'
  BY NoCallKeeps
<1>5. Counted'
  <2>1. ToSet(task') = {} /\ ToSet(task) = {}
    BY EmptyStack
  <2> QED BY <1>1, <1>3, <2>1, CountedStays
<1> QED BY <1>3, <1>4, <1>5 DEF TablesInv

LEMMA SameOpen ==
    ASSUME descriptor_list' = descriptor_list
    PROVE  Open' = Open
BY DEF Open

LEMMA CommandQuietKeeps ==
    ASSUME TablesInv,
           \/ NoCommand \/ Quit \/ SweepOver
           \/ \E p \in Players : BootOff(p)
    PROVE  TablesInv'
<1>1. ListTyped /\ WalkTyped
  BY InvParts
<1>2. /\ GoesOn /\ (Goes("commands") \/ Goes("boots")) /\ task' = task
      /\ UNCHANGED <<descriptor_list, tables, type, con_players_curr, ghosts>>
      /\ conn' = conn \/ \E S : Boot(S)
  BY Zenon DEF NoCommand, Quit, SweepOver, BootOff, ByWizard
<1>3. WalkTyped' /\ task = << >> /\ acts' \in 0 .. MaxActs
  BY <1>1, <1>2, SameOpen, GoesOnKeeps
<1> QED BY <1>2, <1>3, LoopQuiet

LEMMA EndKeeps ==
    ASSUME TablesInv, EndCommands \/ EndSweep
    PROVE  TablesInv'
<1>1. ListTyped /\ WalkTyped /\ acts \in 0 .. MaxActs
  BY InvParts
<1>2. /\ task = << >> /\ task' = << >>
      /\ UNCHANGED <<descriptor_list, conn, tables, type, con_players_curr, ghosts>>
  BY DEF EndCommands, EndSweep
<1>3. WalkTyped' /\ acts' \in 0 .. MaxActs
  <2>1. CASE EndCommands
    <3>1. \/ walk.round < Rounds /\ Begin("commands", walk.round + 1)
          \/ Begin("boots", 0)
      BY <2>1 DEF EndCommands
    <3>2. walk.round < Rounds => walk.round + 1 \in 0 .. Rounds
      BY <1>1 DEF WalkTyped
    <3>3. 0 \in 0 .. Rounds
      OBVIOUS
    <3> QED BY <1>1, <1>2, <3>1, <3>2, <3>3, SameOpen, BeginKeeps
  <2>2. CASE EndSweep
    BY <1>1, <2>2 DEF EndSweep, WalkTyped
  <2> QED BY <2>1, <2>2
<1> QED BY <1>2, <1>3, LoopQuiet

LEMMA FailsKeeps ==
    ASSUME TablesInv, NEW d \in Descrs, Fails(d)
    PROVE  TablesInv'
<1>1. WalkTyped /\ Stack /\ acts \in 0 .. MaxActs
  BY InvParts
<1>2. /\ walk.pass = "select" /\ Boot({d})
      /\ UNCHANGED <<descriptor_list, tables, type, con_players_curr, walk, task, acts, ghosts>>
  BY DEF Fails
<1>3. task = << >>
  BY <1>1, <1>2 DEF Stack, SelectIdle
<1>4. WalkTyped'
  BY <1>1, <1>2, SameOpen, WalkStays
<1> QED BY <1>1, <1>2, <1>3, <1>4, LoopQuiet

LEMMA NewConnectionKeeps ==
    ASSUME TablesInv, NEW d \in Descrs, NewConnection(d)
    PROVE  TablesInv'
<1>1. /\ Data /\ WalkTyped /\ Stack /\ Counted /\ ListTyped /\ ConnTyped /\ AllFit
      /\ con_players_curr \in Nat /\ acts \in 0 .. MaxActs
  BY InvParts
<1>2. /\ walk.pass = "select" /\ d \notin Open
      /\ descriptor_list' = <<d>> \o descriptor_list
      /\ conn' = [conn EXCEPT ![d] = Closed]
      /\ UNCHANGED <<tables, type, con_players_curr, walk, task, acts, ghosts>>
  BY DEF NewConnection
<1>3. Data' /\ Open' = Open \cup {d} /\ Connected' = Connected
  BY <1>1, <1>2, OpenKeeps DEF Counters, tables
<1>4. WalkTyped'
  BY <1>1, <1>2, <1>3 DEF WalkTyped
<1>5. task = << >> /\ task' = << >>
  BY <1>1, <1>2 DEF Stack, SelectIdle
<1>6. Stack'
  BY <1>5, NoCallKeeps
<1>7. Counted'
  BY <1>1, <1>2, <1>3, CountedStays
<1> QED BY <1>3, <1>4, <1>6, <1>7 DEF TablesInv

LEMMA EndSelectKeeps ==
    ASSUME TablesInv, EndSelect
    PROVE  TablesInv'
<1>1. /\ Data /\ WalkTyped /\ Stack /\ ListTyped /\ ConnTyped /\ AllFit
  BY InvParts
<1>2. /\ walk.pass = "select" /\ Begin("commands", 1)
      /\ con_players_curr' = Cardinality(Connected)
      /\ UNCHANGED <<descriptor_list, conn, tables, type, task, ghosts>>
  BY DEF EndSelect
<1>3. task' = << >> /\ Open' = Open
  BY <1>1, <1>2, SameOpen DEF Stack, SelectIdle
<1>4. WalkTyped' /\ acts' \in 0 .. MaxActs
  <2>1. 1 \in 0 .. Rounds
    OBVIOUS
  <2> QED BY <1>1, <1>2, <1>3, <2>1, BeginKeeps
<1>5. Connected' = Connected
  BY <1>2, <1>3 DEF Connected
<1>6. Counted' /\ con_players_curr' \in Nat
  BY <1>1, <1>2, <1>3, <1>5, CountedAnew
<1>7. Data'
  <2>1. ConnTyped' /\ SameLogins
    BY <1>1, <1>2, SameConn
  <2> QED BY <1>1, <1>2, <1>4, <1>6, <2>1, QuietKeeps DEF Quiet, Counters, tables
<1>8. Stack'
  BY <1>3, NoCallKeeps
<1> QED BY <1>4, <1>6, <1>7, <1>8 DEF TablesInv

\* A program is started by a command or by an event.
LEMMA ProgramKeeps ==
    ASSUME TablesInv, Program \/ Events
    PROVE  TablesInv'
<1>1. /\ Data /\ WalkTyped /\ Stack /\ Counted /\ ListTyped /\ ConnTyped /\ AllFit
      /\ con_players_curr \in Nat /\ Open \subseteq Descrs
  BY InvParts
<1>2. /\ task = << >>
      /\ UNCHANGED <<descriptor_list, conn, tables, type, con_players_curr, ghosts>>
  BY DEF Program, Events, Goes
<1>3. Open' = Open
  BY <1>2, SameOpen
<1>4. WalkTyped' /\ walk'.pass # "select" /\ acts' \in 0 .. MaxActs
  <2>1. CASE Program
    <3>1. Goes("commands") /\ GoesOn
      BY <2>1 DEF Program
    <3> QED BY <1>1, <1>3, <3>1, GoesOnKeeps
  <2>2. CASE Events
    <3>1. /\ walk' = [walk EXCEPT !.d = NOTHING, !.round = Rounds] /\ acts' = 0
          /\ walk.pass = "commands"
      BY <2>2 DEF Events
    <3>2. Rounds \in 0 .. Rounds /\ 0 \in 0 .. MaxActs
      OBVIOUS
    <3>3. WalkTyped' /\ walk'.pass = "commands"
      BY <1>1, <1>3, <3>1, <3>2 DEF WalkTyped
    <3> QED BY <3>1, <3>2, <3>3
  <2> QED BY <2>1, <2>2
<1>5. PICK d \in Open : task' = <<[does |-> "program", d |-> d]>>
  <2>1. CASE Program
    <3>1. walk.next \in Open
      BY <1>1, <2>1 DEF Program, Goes, WalkTyped
    <3> QED BY <2>1, <3>1 DEF Program
  <2>2. CASE Events
    BY <2>2 DEF Events, Connected
  <2> QED BY <2>1, <2>2
<1>6. PICK e \in Calls : e = [does |-> "program", d |-> d]
  BY <1>1, NewCalls
<1>7. e.does = "program" /\ e.d = d /\ task' = <<e>>
  BY <1>5, <1>6
<1>8. Data' /\ Connected' = Connected
  <2>1. ConnTyped' /\ SameLogins
    BY <1>1, <1>2, SameConn
  <2> QED BY <1>1, <1>2, <1>4, <2>1, QuietKeeps DEF Quiet, Counters, tables
<1>9. Stack' /\ ToSet(task') = {e}
  <2>1. Fits(e)' /\ ~ Follows(e)
    BY <1>3, <1>7 DEF Fits, Follows
  <2>2. Stack'
    BY <1>4, <1>7, <2>1, FirstCallKeeps
  <2> QED BY <1>7, <2>2, OneCall
<1>10. Counted'
  <2>1. ToSet(task) = {}
    BY <1>2, EmptyStack
  <2> QED BY <1>1, <1>2, <1>7, <1>8, <1>9, <2>1, CountedStays
<1> QED BY <1>4, <1>8, <1>9, <1>10 DEF TablesInv

\* A login, up to announce_connect().
LEMMA LoggedIn ==
    ASSUME TablesInv, Goes("commands"), GoesOn, Data', Open' = Open,
           Connected' \subseteq Connected \cup {walk.next},
           task' = <<[does |-> "connecting", d |-> walk.next, counts |-> TRUE]>>,
           con_players_curr' = con_players_curr
    PROVE  TablesInv'
<1>1. /\ WalkTyped /\ Counted /\ ListTyped /\ AllFit /\ con_players_curr \in Nat
      /\ Open \subseteq Descrs
  BY InvParts
<1>2. walk.next \in Open /\ task = << >> /\ WalkTyped' /\ walk'.pass = "commands"
  BY <1>1, GoesOnKeeps
<1>3. PICK d \in Open : d = walk.next
  BY <1>2
<1>4. PICK e \in Calls : e = [does |-> "connecting", d |-> d, counts |-> TRUE]
  BY <1>1, NewCalls
<1>5. e.does = "connecting" /\ e.counts /\ e.d = d /\ task' = <<e>>
  BY <1>3, <1>4
<1>6. Stack'
  <2>1. Fits(e)' /\ ~ Follows(e)
    BY <1>5 DEF Fits, Follows
  <2> QED BY <1>2, <1>5, <2>1, FirstCallKeeps
<1>7. Counted'
  BY <1>1, <1>2, <1>3, <1>5, OneMoreCounted
<1> QED BY <1>2, <1>6, <1>7 DEF TablesInv

LEMMA ConnectKeeps ==
    ASSUME TablesInv, NEW player \in Players, Connect(player)
    PROVE  TablesInv'
<1>1. /\ Data /\ WalkTyped /\ ListTyped /\ ConnTyped /\ con_players_curr \in Nat
  BY InvParts
<1>2. /\ Goes("commands") /\ GoesOn /\ ~ conn[walk.next].connected /\ type[player] = "player"
      /\ UNCHANGED <<descriptor_list, type, con_players_curr, ghosts>>
  BY DEF Connect
<1>3. Open' = Open
  BY <1>2, SameOpen
<1>4. walk.next \in Open /\ task = << >> /\ WalkTyped' /\ acts' \in 0 .. MaxActs
  BY <1>1, <1>2, <1>3, GoesOnKeeps
<1>5. CASE Full /\ player \notin Wizards
  <2>1. Boot({walk.next}) /\ UNCHANGED <<tables, task>>
    BY <1>5 DEF Connect
  <2> QED BY <1>2, <1>4, <2>1, LoopQuiet
<1>6. CASE ~ (Full /\ player \notin Wizards)
  <2>1. /\ LogIn(walk.next, player)
        /\ task' = <<[does |-> "connecting", d |-> walk.next, counts |-> TRUE]>>
    BY <1>6 DEF Connect
  <2>2. LetGo(walk.next)
    BY <1>2 DEF LetGo
  <2>3. PICK d \in Open : d = walk.next
    BY <1>4
  <2>4. Data' /\ Connected' = Connected \cup {d}
    <3>1. LetGo(d) /\ LogIn(d, player) /\ type[player] # "none"
      BY <1>2, <2>1, <2>2, <2>3
    <3> QED BY <1>1, <1>2, <1>4, <3>1, InKeeps DEF Counters
  <2> QED BY <1>2, <1>3, <2>1, <2>3, <2>4, LoggedIn
<1> QED BY <1>5, <1>6

LEMMA CreateStepKeeps ==
    ASSUME TablesInv, NEW player \in Players, Create(player)
    PROVE  TablesInv'
<1>1. /\ Data /\ WalkTyped /\ ListTyped /\ ConnTyped /\ con_players_curr \in Nat
  BY InvParts
<1>2. /\ Goes("commands") /\ GoesOn /\ ~ conn[walk.next].connected
      /\ UNCHANGED <<descriptor_list, con_players_curr, orphaned, usurped>>
  BY DEF Create
<1>3. Open' = Open
  BY <1>2, SameOpen
<1>4. walk.next \in Open /\ task = << >> /\ WalkTyped' /\ acts' \in 0 .. MaxActs
  BY <1>1, <1>2, <1>3, GoesOnKeeps
<1>5. CASE Full
  <2>1. Boot({walk.next}) /\ UNCHANGED <<tables, task, type, haunted>>
    BY <1>5 DEF Create
  <2> QED BY <1>2, <1>4, <2>1, LoopQuiet DEF ghosts
<1>6. CASE ~ Full
  <2>1. PICK d \in Open : d = walk.next
    BY <1>4
  <2>2. /\ Update([conn EXCEPT ![d].connected = TRUE, ![d].player = player])
        /\ NewPlayer(player, <<d>>)
        /\ task' = <<[does |-> "connecting", d |-> walk.next, counts |-> TRUE]>>
    BY <1>6, <2>1 DEF Create
  <2>3. Data' /\ Connected' = Connected \cup {d}
    BY <1>1, <1>2, <1>4, <2>1, <2>2, CreateKeeps DEF Counters
  <2> QED BY <1>2, <1>3, <2>1, <2>2, <2>3, LoggedIn
<1> QED BY <1>5, <1>6

LEMMA ToadKeeps ==
    ASSUME TablesInv, NEW victim \in Players,
           Toad(victim) \/ Recycle(victim) \/ PCreate(victim)
    PROVE  TablesInv'
<1>1. /\ Data /\ WalkTyped /\ Counted /\ AllFit /\ ListTyped /\ ConnTyped /\ DescrsTyped
      /\ con_players_curr \in Nat
  BY InvParts
<1>2. /\ Goes("commands") /\ GoesOn /\ task' = task
      /\ conn' = conn \/ \E S : Boot(S)
      /\ UNCHANGED <<descriptor_list, descr_count_table, con_players_curr, orphaned, usurped>>
  BY DEF Toad, Recycle, PCreate, ByWizard, tables, ghosts
<1>3. WalkTyped' /\ task = << >> /\ acts' \in 0 .. MaxActs
  BY <1>1, <1>2, SameOpen, GoesOnKeeps
<1>4. ConnTyped' /\ SameLogins
  BY <1>1, <1>2, SameConn, BootConn
<1>5. PICK t \in {"player", "thing", "garbage"} :
             /\ type' = [type EXCEPT ![victim] = t]
             /\ t = "player" => PCreate(victim)
  BY DEF Toad, Recycle, PCreate, NewPlayer
<1>6. DescrsTyped' /\ \A r \in Players : r # victim => descrs'[r] = descrs[r]
  <2>1. CASE Toad(victim)
    <3>1. descrs' = [descrs EXCEPT ![victim] = << >>] /\ << >> \in Seq(Descrs)
      BY <2>1 DEF Toad
    <3> QED BY <1>1, <3>1, DescrsSet
  <2>2. CASE Recycle(victim)
    <3>1. descrs' = descrs
      BY <2>2 DEF Recycle, tables
    <3> QED BY <1>1, <3>1, Zenon DEF DescrsTyped
  <2>3. CASE PCreate(victim)
    <3>1. descrs' = [descrs EXCEPT ![victim] = << >>] /\ << >> \in Seq(Descrs)
      BY <2>3 DEF PCreate, NewPlayer
    <3> QED BY <1>1, <3>1, DescrsSet
  <2> QED BY <2>1, <2>2, <2>3
<1>9. /\ haunted' \subseteq Players
      /\ \A r \in Players : r # victim => (r \in haunted <=> r \in haunted')
  <2>1. haunted \subseteq Players
    BY <1>1 DEF Data, PlainTyped
  <2>2. haunted' \in {haunted, haunted \cup {victim}, haunted \ {victim}}
    BY DEF Toad, Recycle, PCreate, NewPlayer, ghosts
  <2> QED BY <2>1, <2>2
<1>10. t = "player" => descrs'[victim] = << >> /\ (victim \in haunted' \/ Of(victim) = {})
  <2> SUFFICES ASSUME PCreate(victim)
               PROVE  descrs'[victim] = << >> /\ (victim \in haunted' \/ Of(victim) = {})
    BY <1>5
  <2>1. descrs' = [descrs EXCEPT ![victim] = << >>]
    BY DEF PCreate, NewPlayer
  <2>2. haunted' = IF \E d \in Connected : conn[d].player = victim
                   THEN haunted \cup {victim} ELSE haunted \ {victim}
    BY DEF PCreate, NewPlayer
  <2>3. victim \in haunted' \/ Of(victim) = {}
    BY <2>2 DEF Of
  <2> QED BY <1>1, <2>1, <2>3 DEF DescrsTyped
<1>7. Data' /\ Connected' = Connected
  BY <1>1, <1>2, <1>3, <1>4, <1>5, <1>6, <1>9, <1>10, TypeChangeKeeps DEF Counters
<1>8. Stack'
  BY <1>2, <1>3, NoCallKeeps
<1>11. Counted'
  <2>1. ToSet(task') = {} /\ ToSet(task) = {}
    BY <1>2, <1>3, EmptyStack
  <2> QED BY <1>1, <1>2, <1>7, <2>1, CountedStays
<1> QED BY <1>3, <1>7, <1>8, <1>11 DEF TablesInv

\* shutdownsock() begins.
LEMMA SweepKeeps ==
    ASSUME TablesInv, Sweep
    PROVE  TablesInv'
<1>1. /\ Data /\ WalkTyped /\ Counted /\ AllFit /\ ListTyped /\ ConnTyped
      /\ con_players_curr \in Nat /\ Open \subseteq Descrs
  BY InvParts
<1>2. /\ Goes("boots") /\ GoesOn
      /\ UNCHANGED <<descriptor_list, tables, type, con_players_curr, ghosts>>
  BY DEF Sweep
<1>3. Open' = Open
  BY <1>2, SameOpen
<1>4. /\ walk.next \in Open /\ task = << >> /\ WalkTyped' /\ acts' \in 0 .. MaxActs
      /\ walk'.next # walk.next /\ walk'.pass = "boots"
  BY <1>1, <1>2, <1>3, GoesOnKeeps
<1>5. PICK d \in Open : d = walk.next
  BY <1>4
<1>6. PICK b \in Calls : b = [does |-> "closing", d |-> d]
  BY <1>1, NewCalls
<1>7. b.does = "closing" /\ b.d = d
  BY <1>6
<1>8. /\ conn' = [conn EXCEPT ![d].booted = FALSE]
      /\ task' = (IF conn[d].connected THEN AnnounceDisconnect(d) ELSE << >>) \o <<b>>
  BY <1>5, <1>6 DEF Sweep
<1>9. ConnTyped' /\ SameLogins
  BY <1>1, <1>2, <1>5, <1>8, SweptConn
<1>10. Data' /\ Connected' = Connected
  BY <1>1, <1>2, <1>4, <1>9, QuietKeeps DEF Quiet, Counters, tables
<1>11. Fits(b)'
  BY <1>3, <1>4, <1>5, <1>7 DEF Fits
<1>12. ToSet(task) = {}
  BY <1>4, EmptyStack
<1>13. CASE ~ conn[d].connected \/ (AnnounceDisconnect(d) = << >> /\ type[conn[d].player] = "garbage")
  <2>1. task' = <<b>>
    BY <1>8, <1>13, EmptyStack, TwoPushed
  <2>2. LetGo(d)'
    BY <1>1, <1>2, <1>9, <1>13 DEF LetGo, SameLogins
  <2>3. Stack'
    BY <1>4, <1>7, <1>11, <2>1, <2>2, FirstCallKeeps
  <2>4. ToSet(task') = {b}
    BY <2>1, OneCall
  <2>5. Counted'
    BY <1>1, <1>2, <1>7, <1>10, <1>12, <2>4, CountedStays
  <2> QED BY <1>4, <1>10, <2>3, <2>5 DEF TablesInv
<1>14. ASSUME conn[d].connected, NEW a \in Calls, AnnounceDisconnect(d) = <<a>>,
              a.does = "disconnecting", a.d = d
       PROVE  TablesInv'
  <2>1. task' = <<a>> \o <<b>>
    BY <1>8, <1>14
  <2>2. Fits(a)' /\ ~ AtBottom(a)
    BY <1>3, <1>14 DEF Fits, AtBottom
  <2>3. Stack'
    BY <1>4, <1>7, <1>11, <1>14, <2>1, <2>2, FirstTwoKeep
  <2>4. ToSet(task') = {a, b}
    <3>1. ToSet(<<b>>) = {b} /\ <<b>> \in Seq(Calls)
      BY OneCall
    <3>2. ToSet(task') = {a} \cup ToSet(<<b>>)
      BY <2>1, <3>1, PushProperties
    <3> QED BY <3>1, <3>2
  <2>5. Counted'
    BY <1>1, <1>2, <1>7, <1>10, <1>12, <1>14, <2>4, CountedStays
  <2> QED BY <1>4, <1>10, <2>3, <2>5 DEF TablesInv
<1>15. conn[d].connected => d \in Connected
  BY DEF Connected
<1> QED BY <1>1, <1>13, <1>14, <1>15, Announced

-----------------------------------------------------------------------------
(* The theorems.                                                           *)

LEMMA NothingIn ==
    ASSUME NEW S
    PROVE  /\ << >> \in Seq(S) /\ ToSet(<< >>) = {} /\ Distinct(<< >>)
           /\ \A gone : Without(<< >>, gone) = << >>
<1>1. << >> \in Seq(S) /\ Len(<< >>) = 0
  OBVIOUS
<1>2. ToSet(<< >>) = {}
  BY <1>1, SetOfSequence
<1>3. Distinct(<< >>)
  BY <1>1 DEF Distinct
<1>4. ASSUME NEW gone
      PROVE  Without(<< >>, gone) = << >>
  <2>1. PICK q \in Seq(S) : q = << >> /\ ToSet(q) = {}
    BY <1>1, <1>2
  <2>2. Without(q, gone) \in Seq(S) /\ ToSet(Without(q, gone)) = {}
    <3>1. Without(q, gone) \in Seq(S) /\ ToSet(Without(q, gone)) = ToSet(q) \ gone
      BY WithoutSet, Zenon
    <3> QED BY <2>1, <3>1, Zenon
  <2>3. Without(q, gone) = << >>
    BY <2>2, SetOfSequence
  <2> QED BY <2>1, <2>3
<1> QED BY <1>1, <1>2, <1>3, <1>4

LEMMA InitEstablishes == Init => TablesInv
<1> SUFFICES ASSUME Init PROVE TablesInv
  OBVIOUS
<1>1. /\ descriptor_list = << >> /\ conn = [d \in Descrs |-> Closed]
      /\ descr_count_table = << >> /\ descrs = [p \in Players |-> << >>]
      /\ type \in [Players -> {"none", "player"}]
      /\ con_players_curr = 0 /\ task = << >> /\ acts = 0
      /\ walk = [pass |-> "select", round |-> 0, d |-> NOTHING, next |-> NOTHING]
      /\ orphaned = FALSE /\ usurped = FALSE /\ haunted = {}
  BY DEF Init
<1>2. Open = {} /\ ListTyped /\ descr_count_table \in Seq(Descrs)
  BY <1>1, NothingIn DEF Open, ListTyped
<1>3. Connected = {}
  BY <1>2 DEF Connected
<1>4. /\ ToSet(task) = {} /\ task \in Seq(Calls) /\ Len(task) = 0
  BY <1>1, EmptyStack
<1>5. ConnTyped
  BY <1>1 DEF ConnTyped, Closed
<1>6. TableRight
  BY <1>1, <1>2, NothingIn DEF TableRight
<1>7. DescrsTyped
  <2>1. << >> \in Seq(Descrs)
    OBVIOUS
  <2> QED BY <1>1, <2>1 DEF DescrsTyped
<1>8. PlainTyped
  <2>1. type \in [Players -> {"none", "player", "thing", "garbage"}]
    BY <1>1
  <2>2. 0 \in Nat /\ 0 \in 0 .. MaxActs
    OBVIOUS
  <2> QED BY <1>1, <2>1, <2>2, Zenon DEF PlainTyped
<1>9. HisOwnAgree
  <2> SUFFICES ASSUME NEW p \in Players PROVE HisOwn(p)
    BY DEF HisOwnAgree
  <2>1. descrs[p] = << >>
    BY <1>1
  <2>2. Of(p) = {}
    BY <1>3 DEF Of
  <2> QED BY <2>1, <2>2, NothingIn DEF HisOwn
<1>10. KnownPlayers
  BY <1>3 DEF KnownPlayers
<1>11. Data
  BY <1>2, <1>5, <1>6, <1>7, <1>8, <1>9, <1>10 DEF Data
<1>12. WalkTyped
  BY <1>1 DEF WalkTyped
<1>13. Stack
  BY <1>1, <1>4 DEF Stack, Stacked, AllFit, HeadFree, SelectIdle
<1>14. Counted
  <2>1. Connected \cup ToBeSet = {} /\ Pending = 0
    BY <1>3, <1>4 DEF ToBeSet, Pending
  <2>2. Cardinality({}) = 0
    BY FS_EmptySet
  <2>3. con_players_curr = 0 /\ 0 <= 0 + 0
    BY <1>1
  <2> QED BY <2>1, <2>2, <2>3, Zenon DEF Counted
<1> QED BY <1>11, <1>12, <1>13, <1>14 DEF TablesInv

LEMMA StutterKeeps == TablesInv /\ UNCHANGED vars => TablesInv'
<1> SUFFICES ASSUME TablesInv, UNCHANGED vars PROVE TablesInv'
  OBVIOUS
<1>1. /\ descriptor_list' = descriptor_list /\ conn' = conn
      /\ descr_count_table' = descr_count_table /\ descrs' = descrs
      /\ type' = type /\ con_players_curr' = con_players_curr /\ walk' = walk
      /\ task' = task /\ acts' = acts /\ orphaned' = orphaned /\ usurped' = usurped /\ haunted' = haunted
  BY DEF vars, tables, ghosts
<1>2. Open' = Open /\ Connected' = Connected
  BY <1>1, Zenon DEF Open, Connected
<1>3. \A p : Of(p)' = Of(p)
  BY <1>1, <1>2, Zenon DEF Of
<1>4. \A p : HisOwn(p)' <=> HisOwn(p)
  BY <1>1, <1>3, Zenon DEF HisOwn
<1>5. ListTyped' /\ ConnTyped' /\ TableRight' /\ DescrsTyped' /\ PlainTyped'
  BY <1>1, <1>2, Zenon DEF TablesInv, Data, ListTyped, ConnTyped, TableRight, DescrsTyped,
                           PlainTyped, Gone
<1>6. HisOwnAgree' /\ KnownPlayers'
  BY <1>1, <1>2, <1>4, Zenon DEF TablesInv, Data, HisOwnAgree, KnownPlayers
<1>7. WalkTyped'
  BY <1>1, <1>2, Zenon DEF TablesInv, WalkTyped
<1>8. \A c : Fits(c)' <=> Fits(c)
  BY <1>1, <1>2, Zenon DEF Fits
<1>9. Stack'
  BY <1>1, <1>8, Zenon DEF TablesInv, Stack, AllFit, HeadFree, LetGo, SelectIdle
<1>10. Counted'
  BY <1>1, <1>2, Zenon DEF TablesInv, Counted, ToBeSet, Pending
<1> QED BY <1>5, <1>6, <1>7, <1>9, <1>10 DEF TablesInv, Data

LEMMA NextKeeps == TablesInv /\ [Next]_vars => TablesInv'
<1> SUFFICES ASSUME TablesInv, [Next]_vars PROVE TablesInv'
  OBVIOUS
<1>1. CASE CallStep
  BY <1>1, DisconnectedKeeps, CloseStepKeeps, SetUserKeeps, ReturnKeeps DEF CallStep
<1>2. CASE ProgramStep
  BY <1>2, ProgramBootsKeeps, ProgramSetsKeeps DEF ProgramStep
<1>3. CASE CommandStep
  <2>1. CASE NoCommand \/ Quit \/ \E p \in Players : BootOff(p)
    BY <2>1, CommandQuietKeeps
  <2>2. CASE Program
    BY <2>2, ProgramKeeps
  <2>3. ASSUME NEW p \in Players,
               Connect(p) \/ Create(p) \/ PCreate(p) \/ Toad(p) \/ Recycle(p)
        PROVE  TablesInv'
    BY <2>3, ConnectKeeps, CreateStepKeeps, ToadKeeps
  <2> QED BY <1>3, <2>1, <2>2, <2>3 DEF CommandStep
<1>4. CASE LoopStep
  BY <1>4, EndKeeps, SweepKeeps, CommandQuietKeeps, EndSelectKeeps DEF LoopStep
<1>5. CASE SelectStep
  BY <1>5, NewConnectionKeeps, FailsKeeps DEF SelectStep
<1>6. CASE Events
  BY <1>6, ProgramKeeps
<1>7. CASE UNCHANGED vars
  BY <1>7, StutterKeeps
<1> QED BY <1>1, <1>2, <1>3, <1>4, <1>5, <1>6, <1>7 DEF Next

\* The inductive invariant holds in every state.
THEOREM TablesInvariant == Spec => []TablesInv
<1> QED BY InitEstablishes, NextKeeps, PTL DEF Spec

LEMMA OnceInjective ==
    ASSUME NEW S, NEW q \in Seq(S), Distinct(q)
    PROVE  IsInjective(q)
<1>1. DOMAIN q = 1 .. Len(q)
  BY LenProperties
<1> QED BY <1>1 DEF Distinct, IsInjective

\* The type invariant of the run, from the inductive one.
LEMMA TypesHold == TablesInv => TypeOK
<1> SUFFICES ASSUME TablesInv PROVE TypeOK
  OBVIOUS
<1>1. ListTyped /\ ConnTyped /\ TableRight /\ DescrsTyped /\ PlainTyped /\ WalkTyped
  BY DEF TablesInv, Data
<1>2. descriptor_list \in Seq(Descrs) /\ IsInjective(descriptor_list)
  BY <1>1, OnceInjective DEF ListTyped
<1>3. /\ descr_count_table \in Seq(Descrs) /\ task \in Seq(Calls)
      /\ descrs \in [Players -> Seq(Descrs)]
  BY <1>1, Zenon DEF TableRight, DescrsTyped, TablesInv, Stack
<1> QED BY <1>1, <1>2, <1>3, Zenon DEF TypeOK, ConnTyped, PlainTyped, WalkTyped

\* A connection number is a place among those connected, in the order of the
\* list, and points to nothing that is freed, unless a recycled toad's
\* descriptor was.
THEOREM CountTableAlways == Spec => []CountTableAgrees
<1>1. TablesInv => CountTableAgrees
  <2> SUFFICES ASSUME TablesInv PROVE orphaned \/ descr_count_table = CountTable(conn)
    BY TypesHold, Zenon DEF CountTableAgrees
  <2> QED BY Zenon DEF TablesInv, Data, TableRight, CountTable, Gone
<1> QED BY <1>1, TablesInvariant, PTL

\* Unless a descriptor was given away while its player was disconnected, a
\* player's array holds descriptors that are connected to him, each once, and
\* all of them if no toad was still connected to the dbref that he was given.
THEOREM PlayerTablesAlways == Spec => []PlayerTablesAgree
<1>1. TablesInv => PlayerTablesAgree
  <2> SUFFICES ASSUME TablesInv, ~ usurped, NEW p \in Players, type[p] = "player"
               PROVE  /\ IsInjective(descrs[p]) /\ ToSet(descrs[p]) \subseteq Of(p)
                      /\ p \in haunted \/ Of(p) \subseteq ToSet(descrs[p])
    BY Zenon DEF PlayerTablesAgree
  <2>1. /\ Distinct(descrs[p]) /\ ToSet(descrs[p]) \subseteq Of(p)
        /\ p \in haunted \/ Of(p) \subseteq ToSet(descrs[p])
    BY DEF TablesInv, Data, HisOwnAgree, HisOwn
  <2>2. descrs[p] \in Seq(Descrs)
    BY InvParts DEF DescrsTyped
  <2>3. IsInjective(descrs[p])
    BY <2>1, <2>2, OnceInjective
  <2> QED BY <2>1, <2>3, Zenon
<1> QED BY <1>1, TablesInvariant, PTL

\* No pass and no call that has yet to go on holds a freed descriptor.
THEOREM NoneDangles == Spec => []NoDanglingDescriptor
<1>1. TablesInv => NoDanglingDescriptor
  <2> SUFFICES ASSUME TablesInv PROVE NoDanglingDescriptor
    OBVIOUS
  <2>1. WalkTyped /\ AllFit /\ task \in Seq(Calls)
    BY InvParts
  <2>2. \A n \in 1 .. Len(task) : task[n] \in ToSet(task)
    BY <2>1, SetOfSequence
  <2>3. \A n \in 1 .. Len(task) : task[n].d \in Open
    BY <2>1, <2>2, Zenon DEF AllFit, Fits
  <2> QED BY <2>1, <2>3, Zenon DEF NoDanglingDescriptor, WalkTyped
<1> QED BY <1>1, TablesInvariant, PTL

\* When the limit of players is checked, the count is not below the number of
\* those connected.
THEOREM CountNeverLow == Spec => []CountNotLow
<1>1. TablesInv => CountNotLow
  <2> SUFFICES ASSUME TablesInv, task = << >>
               PROVE  con_players_curr >= Cardinality(Connected)
    BY DEF CountNotLow
  <2>1. ToSet(task) = {}
    BY EmptyStack
  <2>2. ToBeSet = {} /\ Pending = 0
    BY <2>1 DEF ToBeSet, Pending
  <2>3. Connected \cup ToBeSet = Connected
    BY <2>2
  <2>4. Cardinality(Connected) <= con_players_curr + 0
    BY <2>2, <2>3, Zenon DEF TablesInv, Counted
  <2>5. con_players_curr \in Nat /\ IsFiniteSet(Connected)
    <3>1. con_players_curr \in Nat
      BY InvParts
    <3>2. IsFiniteSet(Connected)
      BY InvParts, FiniteToSet, FS_Subset DEF Open, Connected, ListTyped
    <3> QED BY <3>1, <3>2
  <2>6. Cardinality(Connected) \in Nat
    BY <2>5, FS_CardinalityType
  <2> QED BY <2>4, <2>5, <2>6
<1> QED BY <1>1, TablesInvariant, PTL
=============================================================================
