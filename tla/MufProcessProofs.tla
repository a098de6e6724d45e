--------------------------- MODULE MufProcessProofs ---------------------------
(***************************************************************************)
(* Proofs about MufProcess, for every set of processes, programs, users,   *)
(* filters and calls, and for every bound: each frame has one home, nobody *)
(* holds a freed frame, a freed frame is clean, watchers that are          *)
(* suspended are told, and the processes live as ProcessLife promises.     *)
(***************************************************************************)
EXTENDS MufProcess, ListsProofs

USE PidsAssumption

-----------------------------------------------------------------------------
(* The inductive invariant. To a live entry the frame of a process still   *)
(* belongs; the one the running program was resumed from is live, too.     *)

\* An entry is of a process that was given a frame.
EntryPids == \A i \in 1 .. Len(waits) : waits[i].pid \in used \ queued

\* A process has one live entry at most.
OneEntry ==
    \A i, j \in 1 .. Len(waits) :
        /\ waits[i].pid = waits[j].pid
        /\ waits[i].state # "spent" /\ waits[j].state # "spent"
        => i = j

\* During a pass the running program is the one of the entry the walk is at.
Resumed ==
    (running # NoPid /\ at # 0) =>
        /\ at \in 1 .. Len(waits)
        /\ waits[at].pid = running /\ waits[at].state = "waiting"

\* The time queue, the thread and the live entries share no process.
Apart ==
    /\ delayed \cap reading = {}
    /\ running \notin delayed \cup reading
    /\ \A i \in 1 .. Len(waits) : waits[i].state # "spent" =>
          /\ waits[i].pid \notin delayed \cup reading
          /\ waits[i].pid = running => i = at

\* No frame is lost.
HasEntry(p) == \E i \in 1 .. Len(waits) : waits[i].pid = p /\ waits[i].state # "spent"
Homed == \A p \in frames : p \in {running} \cup delayed \cup reading \/ HasEntry(p)

FramesInv ==
    /\ TypeOK /\ IsFiniteSet(used)
    /\ EntryPids /\ OneEntry /\ Resumed /\ Apart /\ Homed
    /\ NoFreedFrame /\ CleanFrames

-----------------------------------------------------------------------------
(* The type invariant in three parts: sets of processes, the list and the  *)
(* walk, the contents of the frames. Where the processes are depends on    *)
(* the first two only.                                                     *)

SetsTyped ==
    /\ used \subseteq Pids /\ frames \subseteq used /\ queued \subseteq used
    /\ delayed \subseteq used /\ reading \subseteq used /\ timers \subseteq used
    /\ running \in used \cup {NoPid} /\ bg \subseteq been /\ been \subseteq used

ListTyped == waits \in Seq(Entry) /\ at \in 0 .. Len(waits) + 1

FramesTyped ==
    /\ events \in [Pids -> Seq(Events)] /\ watchers \in [Pids -> [Pids -> Nat]]
    /\ limit \in 0 .. EventLimit
    /\ fault \in {"none", "recleaned", "stray", "runs freed"}

Placed ==
    /\ SetsTyped /\ ListTyped
    /\ EntryPids /\ OneEntry /\ Resumed /\ Apart /\ Homed /\ NoFreedFrame

LEMMA Parts ==
    FramesInv => Placed /\ FramesTyped /\ IsFiniteSet(used) /\ CleanFrames
BY Zenon DEF FramesInv, TypeOK, Placed, SetsTyped, ListTyped, FramesTyped

LEMMA PartsNext ==
    ASSUME Placed', FramesTyped', IsFiniteSet(used)', CleanFrames'
    PROVE  FramesInv'
BY Zenon DEF FramesInv, TypeOK, Placed, SetsTyped, ListTyped, FramesTyped

LEMMA ListType ==
    ASSUME ListTyped
    PROVE  /\ waits \in Seq(Entry) /\ Len(waits) \in Nat
           /\ at \in Nat /\ at <= Len(waits) + 1
           /\ \A i \in 1 .. Len(waits) :
                 /\ waits[i] \in Entry
                 /\ waits[i].pid \in Pids
                 /\ waits[i].state \in {"waiting", "condemned", "spent"}
<1>1. waits \in Seq(Entry) /\ at \in 0 .. Len(waits) + 1
  BY DEF ListTyped
<1>2. Len(waits) \in Nat /\ \A i \in 1 .. Len(waits) : waits[i] \in Entry
  BY <1>1
<1> QED BY <1>1, <1>2 DEF Entry

-----------------------------------------------------------------------------
(* What the operators on the list of entries and on the frames do.         *)

\* The watchers of the frames in order get their notices.
LEMMA NoticesProperties ==
    ASSUME watchers \in [Pids -> [Pids -> Nat]],
           NEW order \in Seq(Pids), NEW w \in Pids
    PROVE  /\ Notices(w, order) \in Seq(Events)
           /\ \A q \in ToSet(order) : watchers[q][w] > 0 => q \in ToSet(Notices(w, order))
<1> DEFINE block(i) == [j \in 1 .. watchers[order[i]][w] |-> order[i]]
           ss == [i \in 1 .. Len(order) |-> block(i)]
<1>1. Len(order) \in Nat /\ DOMAIN order = 1 .. Len(order)
  BY LenProperties
<1>2. ASSUME NEW i \in 1 .. Len(order)
      PROVE  /\ block(i) \in Seq(Pids)
             /\ watchers[order[i]][w] > 0 => order[i] \in ToSet(block(i))
  <2> DEFINE n == watchers[order[i]][w]
             b == [j \in 1 .. n |-> order[i]]
  <2>1. order[i] \in Pids /\ n \in Nat
    BY <1>1
  <2> HIDE DEF n
  <2>2. b \in Seq(Pids) /\ DOMAIN b = 1 .. n /\ \A j \in 1 .. n : b[j] = order[i]
    BY <2>1
  <2> HIDE DEF b
  <2>3. n > 0 => order[i] \in ToSet(b)
    <3>1. n > 0 => 1 \in 1 .. n
      BY <2>1
    <3> QED BY <2>2, <3>1 DEF ToSet
  <2> QED BY <2>2, <2>3 DEF b, n
<1> HIDE DEF block
<1>3. ss \in Seq(Seq(Pids)) /\ Len(ss) = Len(order) /\ \A i \in 1 .. Len(order) : ss[i] = block(i)
  BY <1>1, <1>2
<1>4. Notices(w, order) = FlattenSeq(ss)
  BY Zenon DEF Notices, block
<1> HIDE DEF ss
<1>5. /\ FlattenSeq(ss) \in Seq(Pids)
      /\ \A i \in 1 .. Len(ss) : ToSet(ss[i]) \subseteq ToSet(FlattenSeq(ss))
  BY <1>3, FlattenProperties
<1>6. Notices(w, order) \in Seq(Events)
  <2>1. Pids \subseteq Events
    BY DEF Events
  <2> QED BY <1>4, <1>5, <2>1
<1>7. ASSUME NEW q \in ToSet(order), watchers[q][w] > 0
      PROVE  q \in ToSet(Notices(w, order))
  <2>1. PICK i \in 1 .. Len(order) : q = order[i]
    BY <1>1 DEF ToSet
  <2> QED BY <1>2, <1>3, <1>4, <1>5, <1>7, <2>1
<1> QED BY <1>6, <1>7

\* One frame in order.
LEMMA OneElement ==
    ASSUME NEW p \in Pids
    PROVE  <<p>> \in Seq(Pids) /\ ToSet(<<p>>) = {p}
<1>1. <<p>> \in Seq(Pids) /\ DOMAIN <<p>> = 1 .. 1 /\ <<p>>[1] = p
  OBVIOUS
<1> QED BY <1>1 DEF ToSet

\* prog_clean() leaves no frame, event or watcher of those it cleans, and
\* keeps the other freed frames clean.
Cleaned(gone) ==
    /\ frames' = frames \ gone
    /\ events' \in [Pids -> Seq(Events)]
    /\ watchers' \in [Pids -> [Pids -> Nat]]
    /\ CleanFrames'

LEMMA CleanProperties ==
    ASSUME FramesInv, NEW order \in Seq(Pids), Clean(order)
    PROVE  /\ Cleaned(ToSet(order))
           /\ \A q \in ToSet(order), w \in Pids \ ToSet(order) :
                 Findable(w) /\ watchers[q][w] > 0 => Told(w, q)
<1> DEFINE gone == ToSet(order)
<1>1. /\ events \in [Pids -> Seq(Events)] /\ watchers \in [Pids -> [Pids -> Nat]]
      /\ NoFreedFrame /\ CleanFrames
  BY DEF FramesInv, TypeOK
<1>2. /\ frames' = frames \ gone
      /\ events' = [w \in Pids |->
                      IF w \in gone THEN << >>
                      ELSE IF Findable(w) THEN Joined(events[w], Notices(w, order))
                      ELSE events[w]]
      /\ watchers' = [p \in Pids |->
                        IF p \in gone THEN Nobody
                        ELSE IF Findable(p)
                             THEN [w \in Pids |-> IF w \in gone THEN 0 ELSE watchers[p][w]]
                             ELSE watchers[p]]
  BY Zenon DEF Clean, Joined
<1> HIDE DEF gone
<1>3. \A w \in Pids :
         /\ Joined(events[w], Notices(w, order)) \in Seq(Events)
         /\ ToSet(Notices(w, order)) \subseteq ToSet(Joined(events[w], Notices(w, order)))
  BY <1>1, NoticesProperties, JoinedProperties
<1>4. events' \in [Pids -> Seq(Events)]
  BY <1>1, <1>2, <1>3
<1>5. watchers' \in [Pids -> [Pids -> Nat]]
  BY <1>1, <1>2 DEF Nobody
<1>6. CleanFrames'
  <2> SUFFICES ASSUME NEW p \in Pids, p \notin frames'
               PROVE  events'[p] = << >> /\ watchers'[p] = Nobody
    BY Zenon DEF CleanFrames, Nobody
  <2>1. CASE p \in gone
    BY <1>2, <2>1, Zenon
  <2>2. CASE p \notin gone
    <3>1. p \notin frames /\ ~ Findable(p)
      BY <1>1, <1>2, <2>2 DEF NoFreedFrame, Findable
    <3>2. events[p] = << >> /\ watchers[p] = Nobody
      BY <1>1, <3>1, Zenon DEF CleanFrames
    <3> QED BY <1>2, <2>2, <3>1, <3>2, Zenon
  <2> QED BY <2>1, <2>2
<1>7. ASSUME NEW q \in gone, NEW w \in Pids \ gone, Findable(w), watchers[q][w] > 0
      PROVE  Told(w, q)
  <2>1. events'[w] = Joined(events[w], Notices(w, order))
    BY <1>2, <1>7
  <2>2. q \in ToSet(Notices(w, order))
    BY <1>1, <1>7, NoticesProperties DEF gone
  <2> QED BY <1>3, <2>1, <2>2 DEF Told
<1> QED BY <1>2, <1>4, <1>5, <1>6, <1>7 DEF gone, Cleaned

\* A deleted entry keeps its process.
LEMMA CondemnProperties ==
    ASSUME ListTyped, NEW S, Condemn(S)
    PROVE  /\ waits' \in Seq(Entry) /\ Len(waits') = Len(waits)
           /\ \A i \in 1 .. Len(waits) :
                 /\ waits'[i].pid = waits[i].pid
                 /\ waits'[i].state = IF waits[i].pid \in S /\ waits[i].state = "waiting"
                                      THEN "condemned" ELSE waits[i].state
<1> DEFINE n == Len(waits)
           new(i) == IF waits[i].pid \in S /\ waits[i].state = "waiting"
                     THEN [waits[i] EXCEPT !.state = "condemned"] ELSE waits[i]
<1>1. waits \in Seq(Entry) /\ n \in Nat
  BY ListType
<1>2. waits' = [i \in 1 .. n |-> new(i)]
  BY Zenon DEF Condemn
<1>3. ASSUME NEW i \in 1 .. n
      PROVE  /\ new(i) \in Entry
             /\ new(i).pid = waits[i].pid
             /\ new(i).state = IF waits[i].pid \in S /\ waits[i].state = "waiting"
                               THEN "condemned" ELSE waits[i].state
  <2>1. waits[i] \in Entry
    BY <1>1
  <2> QED BY <2>1 DEF Entry
<1> HIDE DEF n, new
<1>4. waits' \in Seq(Entry) /\ Len(waits') = n /\ \A i \in 1 .. n : waits'[i] = new(i)
  BY <1>1, <1>2, <1>3
<1> QED BY <1>3, <1>4 DEF n

\* The entry the walk is at is spent, and no other changes.
LEMMA SpentProperties ==
    ASSUME ListTyped, at # 0 => at \in 1 .. Len(waits)
    PROVE  /\ Spent(waits) \in Seq(Entry) /\ Len(Spent(waits)) = Len(waits)
           /\ \A i \in 1 .. Len(waits) :
                 /\ Spent(waits)[i].pid = waits[i].pid
                 /\ Spent(waits)[i].state = IF i = at THEN "spent" ELSE waits[i].state
<1>1. waits \in Seq(Entry) /\ at \in Nat
  BY ListType
<1>2. CASE at = 0
  BY <1>1, <1>2 DEF Spent
<1>3. CASE at # 0
  <2>1. at \in 1 .. Len(waits) /\ waits[at] \in Entry
    BY <1>1, <1>3
  <2> DEFINE e == [waits[at] EXCEPT !.state = "spent"]
  <2>2. e \in Entry /\ e.pid = waits[at].pid /\ e.state = "spent"
    BY <2>1 DEF Entry
  <2>3. Spent(waits) = [waits EXCEPT ![at] = e]
    BY <1>3 DEF Spent
  <2> HIDE DEF e
  <2> QED BY <1>1, <2>1, <2>2, <2>3
<1> QED BY <1>2, <1>3

\* A sweep keeps the waiting entries, in their order.
SweptBy(f) ==
    /\ Swept \in Seq(Entry)
    /\ f \in [1 .. Len(Swept) -> 1 .. Len(waits)]
    /\ \A i, j \in 1 .. Len(Swept) : i # j => f[i] # f[j]
    /\ \A i \in 1 .. Len(Swept) : Swept[i] = waits[f[i]] /\ waits[f[i]].state = "waiting"
    /\ \A j \in 1 .. Len(waits) :
          waits[j].state = "waiting" => \E i \in 1 .. Len(Swept) : f[i] = j

LEMMA SweptProperties ==
    ASSUME ListTyped
    PROVE  \E f : SweptBy(f)
<1> DEFINE gone == {e \in Entry : e.state # "waiting"}
<1>1. waits \in Seq(Entry) /\ Len(waits) \in Nat
  BY ListType
<1>2. Swept = Without(waits, gone)
  BY Zenon DEF Swept
<1>3. PICK f : KeptBy(f, Swept, waits, gone, Len(waits))
  BY <1>1, <1>2, WithoutProperties
<1>4. Swept \in Seq(Entry)
  BY <1>1, <1>2, WithoutProperties
<1>5. \A i \in 1 .. Len(waits) : waits[i] \notin gone <=> waits[i].state = "waiting"
  BY <1>1
<1> HIDE DEF gone
<1>6. /\ f \in [1 .. Len(Swept) -> 1 .. Len(waits)]
      /\ \A i \in 1 .. Len(Swept) : Swept[i] = waits[f[i]] /\ waits[f[i]].state = "waiting"
      /\ \A j \in 1 .. Len(waits) :
            waits[j].state = "waiting" => \E i \in 1 .. Len(Swept) : f[i] = j
  BY <1>3, <1>5 DEF KeptBy
<1>7. \A i, j \in 1 .. Len(Swept) : i # j => f[i] # f[j]
  <2> SUFFICES ASSUME NEW i \in 1 .. Len(Swept), NEW j \in 1 .. Len(Swept), i # j
               PROVE  f[i] # f[j]
    OBVIOUS
  <2>1. Len(Swept) \in Nat /\ f[i] \in Nat /\ f[j] \in Nat
    BY <1>1, <1>4, <1>6
  <2>2. i < j \/ j < i
    BY <2>1
  <2>3. f[i] < f[j] \/ f[j] < f[i]
    BY <1>3, <2>2 DEF KeptBy
  <2> QED BY <2>1, <2>3
<1> QED BY <1>4, <1>6, <1>7 DEF SweptBy

\* The processes of the entries that are left, in their order.
PidsOf(list) == [i \in 1 .. Len(list) |-> list[i].pid]

LEMMA PidsKept ==
    ASSUME ListTyped, NEW gone
    PROVE  /\ PidsOf(Without(waits, gone)) \in Seq(Pids)
           /\ \A p : p \in ToSet(PidsOf(Without(waits, gone)))
                     <=> \E i \in 1 .. Len(waits) : waits[i] \notin gone /\ waits[i].pid = p
<1> DEFINE list == Without(waits, gone)
           pids == PidsOf(list)
<1>1. waits \in Seq(Entry) /\ Len(waits) \in Nat
  BY ListType
<1>2. list \in Seq(Entry)
  BY <1>1, WithoutProperties
<1>3. PICK f : KeptBy(f, list, waits, gone, Len(waits))
  BY <1>1, WithoutProperties
<1> HIDE DEF list
<1>4. Len(list) \in Nat /\ \A i \in 1 .. Len(list) : list[i].pid \in Pids
  <2>1. Len(list) \in Nat /\ \A i \in 1 .. Len(list) : list[i] \in Entry
    BY <1>2
  <2> QED BY <2>1 DEF Entry
<1>5. /\ pids \in Seq(Pids) /\ DOMAIN pids = 1 .. Len(list)
      /\ \A i \in 1 .. Len(list) : pids[i] = list[i].pid
  BY <1>4 DEF PidsOf
<1> HIDE DEF pids
<1>6. \A p : p \in ToSet(pids) <=> \E i \in 1 .. Len(list) : list[i].pid = p
  BY <1>5 DEF ToSet
<1>7. ASSUME NEW i \in 1 .. Len(list)
      PROVE  \E j \in 1 .. Len(waits) : waits[j] \notin gone /\ waits[j].pid = list[i].pid
  <2>1. f[i] \in 1 .. Len(waits) /\ list[i] = waits[f[i]] /\ list[i] \notin gone
    BY <1>3 DEF KeptBy
  <2> QED BY <2>1
<1>8. ASSUME NEW j \in 1 .. Len(waits), waits[j] \notin gone
      PROVE  \E i \in 1 .. Len(list) : list[i].pid = waits[j].pid
  <2>1. PICK i \in 1 .. Len(list) : f[i] = j
    BY <1>3, <1>8 DEF KeptBy
  <2>2. list[i] = waits[j]
    BY <1>3, <2>1 DEF KeptBy
  <2> QED BY <2>2
<1> QED BY <1>5, <1>6, <1>7, <1>8 DEF pids, list

\* The frames a sweep frees are those of condemned entries.
LEMMA DoomedProperties ==
    ASSUME ListTyped
    PROVE  Doomed \in Seq(Pids) /\ ToSet(Doomed) = {p \in frames : Condemned(p)}
<1> DEFINE gone == {e \in Entry : e.state # "condemned" \/ e.pid \notin frames}
<1>1. Doomed = PidsOf(Without(waits, gone))
  BY Zenon DEF Doomed, PidsOf
<1>2. \A i \in 1 .. Len(waits) :
         waits[i] \notin gone <=> waits[i].state = "condemned" /\ waits[i].pid \in frames
  BY ListType
<1> HIDE DEF gone
<1>3. /\ Doomed \in Seq(Pids)
      /\ \A p : p \in ToSet(Doomed)
                <=> \E i \in 1 .. Len(waits) : waits[i] \notin gone /\ waits[i].pid = p
  BY <1>1, PidsKept
<1> QED BY <1>2, <1>3 DEF Condemned

\* The processes in EVENT_WAITFOR that dequeue_prog() cleans.
WaitingOf(hit) == Without(waits, {e \in Entry : e.pid \notin hit \/ e.state # "waiting"})

LEMMA WaitingProperties ==
    ASSUME ListTyped, NEW hit \in SUBSET Pids
    PROVE  /\ PidsOf(WaitingOf(hit)) \in Seq(Pids)
           /\ ToSet(PidsOf(WaitingOf(hit))) = {p \in hit : Waits(p)}
<1> DEFINE gone == {e \in Entry : e.pid \notin hit \/ e.state # "waiting"}
<1>1. WaitingOf(hit) = Without(waits, gone)
  BY Zenon DEF WaitingOf
<1>2. \A i \in 1 .. Len(waits) :
         waits[i] \notin gone <=> waits[i].state = "waiting" /\ waits[i].pid \in hit
  BY ListType
<1> HIDE DEF gone
<1>3. /\ PidsOf(WaitingOf(hit)) \in Seq(Pids)
      /\ \A p : p \in ToSet(PidsOf(WaitingOf(hit)))
                <=> \E i \in 1 .. Len(waits) : waits[i] \notin gone /\ waits[i].pid = p
  BY <1>1, PidsKept
<1> QED BY <1>2, <1>3 DEF Waits

-----------------------------------------------------------------------------
(* Every step keeps the invariant. First the births.                       *)

LEMMA StartKeeps ==
    ASSUME FramesInv, NEW p \in Pids, Start(p)
    PROVE  FramesInv'
<1>1. Placed /\ FramesTyped /\ IsFiniteSet(used) /\ CleanFrames
  BY Parts
<1>2. Placed'
  BY <1>1 DEF Placed, SetsTyped, ListTyped, EntryPids, OneEntry, Resumed, Apart, Homed,
     HasEntry, NoFreedFrame, Waits, Condemned, Start, Idle, Fresh
<1>3. IsFiniteSet(used')
  BY <1>1, FS_AddElement DEF Start
<1>4. FramesTyped' /\ CleanFrames'
  BY <1>1, Zenon DEF FramesTyped, CleanFrames, Start
<1> QED BY <1>2, <1>3, <1>4, PartsNext

LEMMA QueueKeeps ==
    ASSUME FramesInv, NEW p \in Pids, Queue(p)
    PROVE  FramesInv'
<1>1. Placed /\ FramesTyped /\ IsFiniteSet(used) /\ CleanFrames
  BY Parts
<1>2. Placed'
  BY <1>1 DEF Placed, SetsTyped, ListTyped, EntryPids, OneEntry, Resumed, Apart, Homed,
     HasEntry, NoFreedFrame, Waits, Condemned, Queue, Fresh
<1>3. IsFiniteSet(used')
  BY <1>1, FS_AddElement DEF Queue
<1>4. FramesTyped' /\ CleanFrames'
  BY <1>1, Zenon DEF FramesTyped, CleanFrames, Queue
<1> QED BY <1>2, <1>3, <1>4, PartsNext

LEMMA RunQueuedKeeps ==
    ASSUME FramesInv, NEW p \in Pids, NEW allowed \in BOOLEAN, RunQueued(p, allowed)
    PROVE  FramesInv'
<1>1. Placed /\ FramesTyped /\ IsFiniteSet(used) /\ CleanFrames
  BY Parts
<1>2. Placed'
  BY <1>1 DEF Placed, SetsTyped, ListTyped, EntryPids, OneEntry, Resumed, Apart, Homed,
     HasEntry, NoFreedFrame, Waits, Condemned, RunQueued, Idle
<1>3. IsFiniteSet(used') /\ FramesTyped'
  BY <1>1, Zenon DEF FramesTyped, RunQueued
<1>4. CleanFrames'
  BY <1>1 DEF CleanFrames, RunQueued
<1> QED BY <1>2, <1>3, <1>4, PartsNext

LEMMA ForkKeeps ==
    ASSUME FramesInv, NEW p \in Pids, NEW child \in Pids, NEW full \in BOOLEAN,
           Fork(p, child, full)
    PROVE  FramesInv'
<1>1. Placed /\ FramesTyped /\ IsFiniteSet(used) /\ CleanFrames
  BY Parts
<1>2. Placed'
  BY <1>1 DEF Placed, SetsTyped, ListTyped, EntryPids, OneEntry, Resumed, Apart, Homed,
     HasEntry, NoFreedFrame, Waits, Condemned, Fork, Runs, Fresh
<1>3. IsFiniteSet(used')
  BY <1>1, FS_AddElement DEF Fork
<1>4. FramesTyped'
  BY <1>1, Zenon DEF FramesTyped, Fork
<1>5. CleanFrames'
  BY <1>1 DEF CleanFrames, Fork
<1> QED BY <1>2, <1>3, <1>4, <1>5, PartsNext

-----------------------------------------------------------------------------
(* The running program gives the thread back.                              *)

\* The entry it was resumed from is its only one, and is spent.
LEMMA RunningSpent ==
    ASSUME Placed, NEW p, Runs(p)
    PROVE  /\ Spent(waits) \in Seq(Entry) /\ Len(Spent(waits)) = Len(waits)
           /\ at # 0 => at \in 1 .. Len(waits)
           /\ \A i \in 1 .. Len(waits) :
                 /\ Spent(waits)[i].pid = waits[i].pid
                 /\ Spent(waits)[i].state = IF waits[i].pid = p THEN "spent" ELSE waits[i].state
<1>1. waits \in Seq(Entry) /\ at \in Nat /\ Len(waits) \in Nat
  BY DEF Placed, ListTyped
<1>2. at # 0 => at \in 1 .. Len(waits)
  BY DEF Placed, Resumed, Runs
<1>3. /\ Spent(waits) \in Seq(Entry) /\ Len(Spent(waits)) = Len(waits)
      /\ \A i \in 1 .. Len(waits) :
            /\ Spent(waits)[i].pid = waits[i].pid
            /\ Spent(waits)[i].state = IF i = at THEN "spent" ELSE waits[i].state
  BY <1>2, SpentProperties DEF Placed
<1>4. ASSUME NEW i \in 1 .. Len(waits)
      PROVE  (i = at \/ waits[i].state = "spent") <=> (waits[i].pid = p \/ waits[i].state = "spent")
  BY <1>1 DEF Placed, Resumed, Apart, Runs
<1> QED BY <1>2, <1>3, <1>4

LEMMA ExitKeeps ==
    ASSUME FramesInv, NEW p \in Pids, Exit(p)
    PROVE  FramesInv'
<1>1. Placed /\ FramesTyped /\ IsFiniteSet(used) /\ CleanFrames
  BY Parts
<1>2. Cleaned({p}) /\ frames' = frames \ {p}
  BY CleanProperties, OneElement DEF Exit, Cleaned
<1>3. /\ waits' \in Seq(Entry) /\ Len(waits') = Len(waits) /\ Len(waits) \in Nat
      /\ at # 0 => at \in 1 .. Len(waits)
      /\ \A i \in 1 .. Len(waits) :
            /\ waits'[i].pid = waits[i].pid
            /\ waits'[i].state = IF waits[i].pid = p THEN "spent" ELSE waits[i].state
  BY <1>1, RunningSpent DEF Exit, Placed, ListTyped
<1>4. Placed'
  <2>1. SetsTyped' /\ ListTyped'
    BY <1>1, <1>2, <1>3 DEF Placed, SetsTyped, ListTyped, Exit, Leaves, TimersWithout
  <2>2. EntryPids' /\ OneEntry'
    BY <1>1, <1>3 DEF Placed, EntryPids, OneEntry, Exit
  <2>3. Resumed' /\ Apart'
    BY <1>1, <1>3 DEF Placed, SetsTyped, EntryPids, Resumed, Apart, Exit, Leaves
  <2>4. Homed'
    BY <1>1, <1>2, <1>3 DEF Placed, Homed, HasEntry, Exit, Runs
  <2>5. NoFreedFrame'
    BY <1>1, <1>2, <1>3 DEF Placed, Apart, NoFreedFrame, Waits, Condemned, Exit, Runs,
       Leaves, TimersWithout
  <2> QED BY <2>1, <2>2, <2>3, <2>4, <2>5 DEF Placed
<1>5. IsFiniteSet(used') /\ FramesTyped' /\ CleanFrames'
  BY <1>1, <1>2, Zenon DEF FramesTyped, Exit, Cleaned
<1> QED BY <1>4, <1>5, PartsNext

LEMMA SleepKeeps ==
    ASSUME FramesInv, NEW p \in Pids, NEW full \in BOOLEAN, Sleep(p, full)
    PROVE  FramesInv'
<1>1. CASE full
  BY <1>1, ExitKeeps DEF Sleep
<1>2. CASE ~ full
  <2>1. Placed /\ FramesTyped /\ IsFiniteSet(used) /\ CleanFrames
    BY Parts
  <2>2. /\ waits' \in Seq(Entry) /\ Len(waits') = Len(waits) /\ Len(waits) \in Nat
        /\ at # 0 => at \in 1 .. Len(waits)
        /\ \A i \in 1 .. Len(waits) :
              /\ waits'[i].pid = waits[i].pid
              /\ waits'[i].state = IF waits[i].pid = p THEN "spent" ELSE waits[i].state
    BY <1>2, <2>1, RunningSpent DEF Sleep, Placed, ListTyped
  <2>3. Placed'
    BY <1>2, <2>1, <2>2 DEF Placed, SetsTyped, ListTyped, EntryPids, OneEntry, Resumed, Apart,
       Homed, HasEntry, NoFreedFrame, Waits, Condemned, Sleep, Runs, Leaves
  <2>4. IsFiniteSet(used') /\ FramesTyped' /\ CleanFrames'
    BY <1>2, <2>1, Zenon DEF FramesTyped, CleanFrames, Sleep
  <2> QED BY <2>3, <2>4, PartsNext
<1> QED BY <1>1, <1>2

LEMMA ReadKeeps ==
    ASSUME FramesInv, NEW p \in Pids, Read(p)
    PROVE  FramesInv'
<1>1. Placed /\ FramesTyped /\ IsFiniteSet(used) /\ CleanFrames
  BY Parts
<1>2. /\ waits' \in Seq(Entry) /\ Len(waits') = Len(waits) /\ Len(waits) \in Nat
      /\ at # 0 => at \in 1 .. Len(waits)
      /\ \A i \in 1 .. Len(waits) :
            /\ waits'[i].pid = waits[i].pid
            /\ waits'[i].state = IF waits[i].pid = p THEN "spent" ELSE waits[i].state
  BY <1>1, RunningSpent DEF Read, Placed, ListTyped
<1>3. Placed'
  BY <1>1, <1>2 DEF Placed, SetsTyped, ListTyped, EntryPids, OneEntry, Resumed, Apart,
     Homed, HasEntry, NoFreedFrame, Waits, Condemned, Read, Runs, Leaves
<1>4. IsFiniteSet(used') /\ FramesTyped' /\ CleanFrames'
  BY <1>1, Zenon DEF FramesTyped, CleanFrames, Read
<1> QED BY <1>3, <1>4, PartsNext

LEMMA EventWaitKeeps ==
    ASSUME FramesInv, NEW p \in Pids, NEW on \in Filters, EventWait(p, on)
    PROVE  FramesInv'
<1>1. Placed /\ FramesTyped /\ IsFiniteSet(used) /\ CleanFrames
  BY Parts
<1>2. /\ waits \in Seq(Entry) /\ Len(waits) \in Nat
      /\ Spent(waits) \in Seq(Entry) /\ Len(Spent(waits)) = Len(waits)
      /\ at # 0 => at \in 1 .. Len(waits)
      /\ \A i \in 1 .. Len(waits) :
            /\ Spent(waits)[i].pid = waits[i].pid
            /\ Spent(waits)[i].state = IF waits[i].pid = p THEN "spent" ELSE waits[i].state
  BY <1>1, RunningSpent DEF EventWait, Placed, ListTyped
<1>3. PICK e \in Entry : /\ e.pid = p /\ e.state = "waiting"
                         /\ waits' = Append(Spent(waits), e)
  <2> DEFINE e == [pid |-> p, on |-> on, state |-> "waiting"]
  <2>1. e \in Entry /\ e.pid = p /\ e.state = "waiting"
    BY FiltersAssumption DEF Entry
  <2>2. waits' = Append(Spent(waits), e)
    BY Zenon DEF EventWait, Register
  <2> QED BY <2>1, <2>2
<1>4. /\ waits' \in Seq(Entry) /\ Len(waits') = Len(waits) + 1
      /\ \A i \in 1 .. Len(waits) : waits'[i] = Spent(waits)[i]
      /\ waits'[Len(waits) + 1] = e
  BY <1>2, <1>3, AppendProperties
<1>5. \A i \in 1 .. Len(waits) :
         /\ waits'[i].pid = waits[i].pid
         /\ waits'[i].state = IF waits[i].pid = p THEN "spent" ELSE waits[i].state
  BY <1>2, <1>4
<1>6. \A i \in 1 .. Len(waits') : i \in 1 .. Len(waits) \/ i = Len(waits) + 1
  BY <1>2, <1>4
<1>7. Placed'
  <2>1. SetsTyped' /\ ListTyped'
    BY <1>1, <1>2, <1>4 DEF Placed, SetsTyped, ListTyped, EventWait, Leaves
  <2>2. EntryPids' /\ OneEntry'
    BY <1>1, <1>2, <1>3, <1>4, <1>5, <1>6 DEF Placed, SetsTyped, EntryPids, OneEntry,
       NoFreedFrame, EventWait, Runs
  <2>3. Resumed' /\ Apart'
    BY <1>1, <1>2, <1>3, <1>4, <1>5, <1>6 DEF Placed, SetsTyped, EntryPids, Resumed, Apart,
       EventWait, Runs, Leaves
  <2>4. Homed'
    <3>1. HasEntry(p)'
      BY <1>2, <1>3, <1>4 DEF HasEntry
    <3>2. \A q \in Pids : q # p /\ HasEntry(q) => HasEntry(q)'
      BY <1>2, <1>4, <1>5 DEF HasEntry
    <3> HIDE DEF HasEntry
    <3> QED BY <1>1, <3>1, <3>2 DEF Placed, SetsTyped, Homed, EventWait, Runs
  <2>5. NoFreedFrame'
    <3>1. \A q \in Pids : Waits(q)' => q = p \/ Waits(q)
      BY <1>2, <1>3, <1>4, <1>5, <1>6 DEF Waits
    <3>2. \A q \in Pids : Condemned(q)' => Condemned(q)
      BY <1>2, <1>3, <1>4, <1>5, <1>6 DEF Condemned
    <3>3. timers \subseteq Pids
      BY <1>1 DEF Placed, SetsTyped
    <3> QED BY <1>1, <3>1, <3>2, <3>3 DEF Placed, NoFreedFrame, EventWait, Runs, Leaves
  <2> QED BY <2>1, <2>2, <2>3, <2>4, <2>5 DEF Placed
<1>8. IsFiniteSet(used') /\ FramesTyped' /\ CleanFrames'
  BY <1>1, Zenon DEF FramesTyped, CleanFrames, EventWait
<1> QED BY <1>7, <1>8, PartsNext

-----------------------------------------------------------------------------
(* Suspended processes go on.                                              *)

LEMMA ResumeDelayedKeeps ==
    ASSUME FramesInv, NEW p \in Pids, ResumeDelayed(p)
    PROVE  FramesInv'
<1>1. Placed /\ FramesTyped /\ IsFiniteSet(used) /\ CleanFrames
  BY Parts
<1>2. Placed'
  BY <1>1 DEF Placed, SetsTyped, ListTyped, EntryPids, OneEntry, Resumed, Apart, Homed,
     HasEntry, NoFreedFrame, Waits, Condemned, ResumeDelayed, Idle
<1>3. IsFiniteSet(used') /\ FramesTyped' /\ CleanFrames'
  BY <1>1, Zenon DEF FramesTyped, CleanFrames, ResumeDelayed
<1> QED BY <1>2, <1>3, PartsNext

LEMMA LineKeeps ==
    ASSUME FramesInv, NEW p \in Pids, NEW dies \in BOOLEAN, Line(p, dies)
    PROVE  FramesInv'
<1>1. Placed /\ FramesTyped /\ IsFiniteSet(used) /\ CleanFrames
  BY Parts
<1>2. CASE dies
  <2>1. Cleaned({p}) /\ frames' = frames \ {p}
    BY <1>2, CleanProperties, OneElement DEF Line, Cleaned
  <2>2. Placed'
    BY <1>1, <1>2, <2>1 DEF Placed, SetsTyped, ListTyped, EntryPids, OneEntry, Resumed, Apart,
       Homed, HasEntry, NoFreedFrame, Waits, Condemned, Line, Idle, TimersWithout
  <2>3. IsFiniteSet(used') /\ FramesTyped' /\ CleanFrames'
    BY <1>1, <2>1, Zenon DEF FramesTyped, Line, Cleaned
  <2> QED BY <2>2, <2>3, PartsNext
<1>3. CASE ~ dies
  <2>1. Placed'
    BY <1>1, <1>3 DEF Placed, SetsTyped, ListTyped, EntryPids, OneEntry, Resumed, Apart, Homed,
       HasEntry, NoFreedFrame, Waits, Condemned, Line, Idle
  <2>2. IsFiniteSet(used') /\ FramesTyped' /\ CleanFrames'
    BY <1>1, <1>3, Zenon DEF FramesTyped, CleanFrames, Line
  <2> QED BY <2>1, <2>2, PartsNext
<1> QED BY <1>2, <1>3

-----------------------------------------------------------------------------
(* Events are sent, timers set, watchers registered and modes changed: no  *)
(* process goes anywhere.                                                  *)

LEMMA StaysKeeps ==
    ASSUME FramesInv,
           UNCHANGED <<used, frames, queued, delayed, reading, waits, at, limit, running>>,
           timers' \subseteq timers \cup {p \in frames : ~ Condemned(p)},
           bg' \subseteq been', been' \subseteq used, FramesTyped', CleanFrames'
    PROVE  FramesInv'
<1>1. Placed /\ IsFiniteSet(used)
  BY Parts
<1>2. SetsTyped' /\ ListTyped'
  BY <1>1 DEF Placed, SetsTyped, ListTyped, NoFreedFrame
<1>3. EntryPids' /\ OneEntry' /\ Resumed' /\ Apart' /\ Homed'
  BY <1>1 DEF Placed, EntryPids, OneEntry, Resumed, Apart, Homed, HasEntry
<1>4. NoFreedFrame'
  <2>1. \A p : Waits(p)' = Waits(p) /\ Condemned(p)' = Condemned(p)
    BY DEF Waits, Condemned
  <2>2. timers' \subseteq {p \in frames : ~ Condemned(p)}
    BY <1>1 DEF Placed, NoFreedFrame
  <2> QED BY <1>1, <2>1, <2>2 DEF Placed, NoFreedFrame
<1>5. IsFiniteSet(used)'
  BY <1>1
<1> QED BY <1>2, <1>3, <1>4, <1>5, PartsNext DEF Placed

\* An event for a process that has its frame.
LEMMA TellProperties ==
    ASSUME FramesTyped, CleanFrames, NEW p \in frames \cap Pids, NEW e \in Events, Tell(p, e)
    PROVE  /\ events' \in [Pids -> Seq(Events)]
           /\ \A q \in Pids \ frames : events'[q] = << >>
<1>1. events \in [Pids -> Seq(Events)]
  BY Zenon DEF FramesTyped
<1>2. events' = [events EXCEPT ![p] = Append(@, e)]
  BY Zenon DEF Tell
<1>3. Append(events[p], e) \in Seq(Events)
  BY <1>1, AppendProperties
<1>4. \A q \in Pids \ frames : events[q] = << >>
  BY Zenon DEF CleanFrames
<1> DEFINE new == Append(events[p], e)
<1> HIDE DEF new
<1>5. events' = [events EXCEPT ![p] = new]
  BY <1>2 DEF new
<1>6. new \in Seq(Events)
  BY <1>3 DEF new
<1> QED BY <1>1, <1>4, <1>5, <1>6

\* A process that can be found has a frame, and is not condemned.
LEMMA FindableHasFrame ==
    ASSUME Placed, NEW p \in Pids, Findable(p) \/ Runs(p)
    PROVE  p \in frames /\ ~ Condemned(p)
BY DEF Placed, OneEntry, Apart, Resumed, NoFreedFrame, Findable, Runs, Waits, Condemned

LEMMA SendEventKeeps ==
    ASSUME FramesInv, NEW p \in Pids, NEW q \in Pids, SendEvent(p, q)
    PROVE  FramesInv'
<1>1. Placed /\ FramesTyped /\ CleanFrames
  BY Parts
<1>2. q \in frames
  BY <1>1, FindableHasFrame DEF SendEvent
<1>3. "USER" \in Events /\ Tell(q, "USER")
  BY DEF Events, SendEvent
<1>4. FramesTyped' /\ CleanFrames'
  BY <1>1, <1>2, <1>3, TellProperties, Zenon DEF FramesTyped, CleanFrames, SendEvent
<1>5. bg \subseteq been /\ been \subseteq used
  BY <1>1 DEF Placed, SetsTyped
<1> QED BY <1>4, <1>5, StaysKeeps DEF SendEvent

LEMMA TimerStartKeeps ==
    ASSUME FramesInv, NEW p \in Pids, NEW full \in BOOLEAN, TimerStart(p, full)
    PROVE  FramesInv'
<1>1. Placed /\ FramesTyped /\ CleanFrames
  BY Parts
<1>2. p \in frames /\ ~ Condemned(p)
  BY <1>1, FindableHasFrame DEF TimerStart
<1>3. FramesTyped' /\ CleanFrames'
  <2>1. fault' \in {"none", "recleaned", "stray", "runs freed"}
    BY <1>1 DEF FramesTyped, TimerStart
  <2> QED BY <1>1, <2>1, Zenon DEF FramesTyped, CleanFrames, TimerStart
<1>4. bg \subseteq been /\ been \subseteq used
  BY <1>1 DEF Placed, SetsTyped
<1>5. timers' \subseteq timers \cup {p}
  BY DEF TimerStart
<1> QED BY <1>2, <1>3, <1>4, <1>5, StaysKeeps DEF TimerStart

LEMMA TimerStopKeeps ==
    ASSUME FramesInv, NEW p \in Pids, TimerStop(p)
    PROVE  FramesInv'
<1>1. Placed /\ FramesTyped /\ CleanFrames
  BY Parts
<1>2. FramesTyped' /\ CleanFrames'
  BY <1>1, Zenon DEF FramesTyped, CleanFrames, TimerStop
<1>3. bg \subseteq been /\ been \subseteq used
  BY <1>1 DEF Placed, SetsTyped
<1> QED BY <1>2, <1>3, StaysKeeps DEF TimerStop

LEMMA TimerDueKeeps ==
    ASSUME FramesInv, NEW p \in Pids, TimerDue(p)
    PROVE  FramesInv'
<1>1. Placed /\ FramesTyped /\ CleanFrames
  BY Parts
<1>2. p \in frames
  BY <1>1, FindableHasFrame DEF TimerDue, Findable
<1>3. "TIMER" \in Events /\ Tell(p, "TIMER")
  BY DEF Events, TimerDue
<1>4. FramesTyped' /\ CleanFrames'
  BY <1>1, <1>2, <1>3, TellProperties, Zenon DEF FramesTyped, CleanFrames, TimerDue
<1>5. bg \subseteq been /\ been \subseteq used
  BY <1>1 DEF Placed, SetsTyped
<1> QED BY <1>4, <1>5, StaysKeeps DEF TimerDue

LEMMA ReadNotifyKeeps ==
    ASSUME FramesInv, NEW u \in Users, NEW p \in Pids, ReadNotify(u, p)
    PROVE  FramesInv'
<1>1. Placed /\ FramesTyped /\ CleanFrames
  BY Parts
<1>2. Findable(p)
  BY DEF ReadNotify, Findable, Waits
<1>3. p \in frames
  BY <1>1, <1>2, FindableHasFrame
<1>4. "READ" \in Events /\ Tell(p, "READ")
  BY DEF Events, ReadNotify
<1>5. FramesTyped' /\ CleanFrames'
  BY <1>1, <1>3, <1>4, TellProperties, Zenon DEF FramesTyped, CleanFrames, ReadNotify
<1>6. bg \subseteq been /\ been \subseteq used
  BY <1>1 DEF Placed, SetsTyped
<1> QED BY <1>5, <1>6, StaysKeeps DEF ReadNotify

LEMMA WatchKeeps ==
    ASSUME FramesInv, NEW p \in Pids, NEW q \in Pids, Watch(p, q)
    PROVE  FramesInv'
<1>1. Placed /\ FramesTyped /\ CleanFrames
  BY Parts
<1>2. bg \subseteq been /\ been \subseteq used
  BY <1>1 DEF Placed, SetsTyped
<1>3. CASE Findable(q)
  <2>1. q \in frames
    BY <1>1, <1>3, FindableHasFrame
  <2>2. watchers \in [Pids -> [Pids -> Nat]] /\ \A r \in Pids \ frames : watchers[r] = Nobody
    BY <1>1, Zenon DEF FramesTyped, CleanFrames
  <2>3. watchers' = [watchers EXCEPT ![q][p] = @ + 1]
    BY <1>3 DEF Watch
  <2>4. /\ watchers' \in [Pids -> [Pids -> Nat]]
        /\ \A r \in Pids \ frames : watchers'[r] = Nobody
    BY <2>1, <2>2, <2>3
  <2>5. UNCHANGED <<events, frames, limit, fault>>
    BY <1>3 DEF Watch
  <2>6. FramesTyped' /\ CleanFrames'
    BY <1>1, <2>4, <2>5, Zenon DEF FramesTyped, CleanFrames
  <2> QED BY <1>2, <2>6, StaysKeeps DEF Watch
<1>4. CASE ~ Findable(q)
  <2>1. p \in frames
    BY <1>1, FindableHasFrame DEF Watch
  <2>2. q \in Events /\ Tell(p, q)
    BY <1>4 DEF Events, Watch
  <2>3. UNCHANGED <<watchers, frames, limit, fault>>
    BY <1>4 DEF Watch
  <2>4. FramesTyped' /\ CleanFrames'
    BY <1>1, <2>1, <2>2, <2>3, TellProperties, Zenon DEF FramesTyped, CleanFrames
  <2> QED BY <1>2, <2>4, StaysKeeps DEF Watch
<1> QED BY <1>3, <1>4

LEMMA ModeKeeps ==
    ASSUME FramesInv, NEW p \in Pids, Background(p) \/ Preempt(p)
    PROVE  FramesInv'
<1>1. Placed /\ FramesTyped /\ CleanFrames
  BY Parts
<1>2. FramesTyped' /\ CleanFrames'
  BY <1>1, Zenon DEF FramesTyped, CleanFrames, Background, Preempt
<1>3. bg' \subseteq been' /\ been' \subseteq used
  BY <1>1 DEF Placed, SetsTyped, Background, Preempt, Runs
<1> QED BY <1>2, <1>3, StaysKeeps DEF Background, Preempt

-----------------------------------------------------------------------------
(* Processes are killed.                                                   *)

LEMMA KillKeeps ==
    ASSUME FramesInv, NEW q \in Pids, Kill(q)
    PROVE  FramesInv'
<1>1. Placed /\ FramesTyped /\ IsFiniteSet(used) /\ CleanFrames
  BY Parts
<1>2. /\ waits' \in Seq(Entry) /\ Len(waits') = Len(waits)
      /\ waits \in Seq(Entry) /\ Len(waits) \in Nat
      /\ \A i \in 1 .. Len(waits) :
            /\ waits'[i].pid = waits[i].pid
            /\ waits'[i].state = IF waits[i].pid \in {q} /\ waits[i].state = "waiting"
                                 THEN "condemned" ELSE waits[i].state
  BY <1>1, CondemnProperties DEF Kill, Placed, ListTyped
<1>3. /\ queued' = queued \ {q} /\ delayed' = delayed \ {q} /\ reading' = reading \ {q}
      /\ timers' = timers \ {q} /\ UNCHANGED <<used, at, limit, running, bg, been, fault>>
      /\ running # q
  BY DEF Kill, Idle
<1>4. /\ q \in delayed \cup reading => frames' = frames \ {q}
      /\ q \notin delayed \cup reading => frames' = frames
      /\ FramesTyped' /\ CleanFrames'
  <2>1. CASE q \in delayed \cup reading
    <3>1. Cleaned({q})
      BY <2>1, CleanProperties, OneElement DEF Kill
    <3>2. frames' = frames \ {q}
      BY <3>1 DEF Cleaned
    <3> QED BY <1>1, <1>3, <2>1, <3>1, <3>2, Zenon DEF FramesTyped, Cleaned
  <2>2. CASE q \notin delayed \cup reading
    <3>1. events' = [events EXCEPT ![q] = << >>] /\ UNCHANGED <<frames, watchers>>
      BY <2>2 DEF Kill
    <3>2. events \in [Pids -> Seq(Events)] /\ \A r \in Pids \ frames : events[r] = << >>
      BY <1>1, Zenon DEF FramesTyped, CleanFrames
    <3>3. << >> \in Seq(Events)
      OBVIOUS
    <3>4. events' \in [Pids -> Seq(Events)] /\ \A r \in Pids \ frames : events'[r] = << >>
      BY <3>1, <3>2, <3>3
    <3> QED BY <1>1, <1>3, <2>2, <3>1, <3>4, Zenon DEF FramesTyped, CleanFrames
  <2> QED BY <2>1, <2>2
<1>5. Placed'
  <2>1. SetsTyped' /\ ListTyped'
    BY <1>1, <1>2, <1>3, <1>4 DEF Placed, SetsTyped, ListTyped
  <2>2. EntryPids' /\ OneEntry'
    BY <1>1, <1>2, <1>3 DEF Placed, EntryPids, OneEntry
  <2>3. Resumed' /\ Apart'
    BY <1>1, <1>2, <1>3 DEF Placed, Resumed, Apart
  <2>4. Homed'
    <3>1. \A p : HasEntry(p)' <=> HasEntry(p)
      BY <1>2 DEF HasEntry
    <3> QED BY <1>1, <1>3, <1>4, <3>1 DEF Placed, Homed, Apart
  <2>5. NoFreedFrame'
    <3>1. \A p : Waits(p)' => Waits(p) /\ p # q
      BY <1>2 DEF Waits
    <3>2. \A p : Condemned(p)' => Condemned(p) \/ p = q
      BY <1>2 DEF Condemned
    <3> QED BY <1>1, <1>3, <1>4, <3>1, <3>2 DEF Placed, NoFreedFrame, Apart
  <2> QED BY <2>1, <2>2, <2>3, <2>4, <2>5 DEF Placed
<1>6. IsFiniteSet(used')
  BY <1>1, <1>3
<1> QED BY <1>4, <1>5, <1>6, PartsNext

HitBy(x, mode) == {p \in Pids : Matches(x, mode, p)}

\* The frames of the processes hit that are not to be freed by the next pass.
FreedBy(hit) == {p \in hit : p \in {running} \cup delayed \cup reading \/ Waits(p)}

\* What dequeue_prog() does to those it hits, unless a frame is freed wrongly.
KillsHit(hit) ==
    /\ hit \subseteq Pids
    /\ Cleaned(FreedBy(hit)) /\ frames' = frames \ FreedBy(hit)
    /\ queued' = queued \ hit /\ delayed' = delayed \ hit /\ reading' = reading \ hit
    /\ timers' = timers \ hit
    /\ Condemn(hit)
    /\ at # 0 => running \notin hit
    /\ running' = IF running \in hit THEN NoPid ELSE running
    /\ UNCHANGED <<used, at, limit, bg, been, fault>>
    /\ \A q \in FreedBy(hit), w \in Pids \ FreedBy(hit) :
          Findable(w) /\ watchers[q][w] > 0 => Told(w, q)

LEMMA KillProgramSteps ==
    ASSUME FramesInv, NEW x, NEW mode, NEW readFirst \in BOOLEAN,
           KillProgram(x, mode, readFirst)
    PROVE  /\ fault = "none"
           /\ \/ KillsHit(HitBy(x, mode))
              \/ fault' \in {"stray", "recleaned"} /\ UNCHANGED <<used, frames, queued, delayed,
                   reading, timers, waits, at, limit, running, events, watchers, bg, been>>
<1> DEFINE hit == HitBy(x, mode)
           self == hit \cap {running}
           entry == WaitingOf(hit)
           wrong == (readFirst /\ entry # << >>) \/ (self # {} /\ at # 0)
<1>1. Placed /\ FramesTyped /\ IsFiniteSet(used) /\ CleanFrames
  BY Parts
<1>2. hit \subseteq Pids
  BY DEF HitBy
<1>3. fault = "none" /\ UNCHANGED <<used, limit, bg, been>>
  BY DEF KillProgram, MayKillProgram, Idle, Sound
<1>4. CASE wrong
  <2>1. /\ fault' = IF readFirst /\ entry # << >> THEN "stray" ELSE "recleaned"
        /\ UNCHANGED <<frames, queued, delayed, reading, timers, waits, at,
                       running, events, watchers>>
    BY <1>4, Zenon DEF KillProgram, HitBy, WaitingOf
  <2> QED BY <1>3, <2>1
<1>5. CASE ~ wrong
  <2>1. PICK held \in SetToSeqs(hit \cap (delayed \cup reading)), own \in SetToSeqs(self) :
           Clean(Joined(Joined(held, PidsOf(entry)), own))
    BY <1>5, Zenon DEF KillProgram, HitBy, WaitingOf, PidsOf, Joined
  <2>2. /\ queued' = queued \ hit /\ delayed' = delayed \ hit /\ reading' = reading \ hit
        /\ timers' = timers \ hit
        /\ Condemn(hit)
        /\ running' = IF self = {} THEN running ELSE NoPid
        /\ UNCHANGED <<at, fault>>
    BY <1>5, Zenon DEF KillProgram, HitBy, WaitingOf, TimersWithout
  <2> HIDE DEF hit
  <2>3. IsFiniteSet(hit \cap (delayed \cup reading)) /\ IsFiniteSet(self)
    <3>1. hit \cap (delayed \cup reading) \subseteq used /\ self \subseteq used
      BY <1>1, <1>2 DEF Placed, SetsTyped
    <3> QED BY <1>1, <3>1, FS_Subset
  <2>4. /\ held \in Seq(Pids) /\ ToSet(held) = hit \cap (delayed \cup reading)
        /\ own \in Seq(Pids) /\ ToSet(own) = self
    <3>1. /\ held \in Seq(hit \cap (delayed \cup reading)) /\ own \in Seq(self)
          /\ ToSet(held) = hit \cap (delayed \cup reading) /\ ToSet(own) = self
      BY <2>1, <2>3, OrderProperties
    <3>2. hit \cap (delayed \cup reading) \subseteq Pids /\ self \subseteq Pids
      BY <1>2
    <3> HIDE DEF self
    <3> QED BY <3>1, <3>2
  <2>5. PidsOf(entry) \in Seq(Pids) /\ ToSet(PidsOf(entry)) = {p \in hit : Waits(p)}
    BY <1>1, <1>2, WaitingProperties DEF Placed
  <2> DEFINE order == Joined(Joined(held, PidsOf(entry)), own)
  <2>6. order \in Seq(Pids) /\ ToSet(order) = FreedBy(hit)
    <3>1. /\ Joined(held, PidsOf(entry)) \in Seq(Pids)
          /\ ToSet(Joined(held, PidsOf(entry))) = ToSet(held) \cup ToSet(PidsOf(entry))
      BY <2>4, <2>5, JoinedProperties
    <3>2. /\ order \in Seq(Pids)
          /\ ToSet(order) = (ToSet(held) \cup ToSet(PidsOf(entry))) \cup ToSet(own)
      BY <2>4, <3>1, JoinedProperties
    <3> QED BY <2>4, <2>5, <3>2 DEF FreedBy
  <2>7. /\ Cleaned(FreedBy(hit))
        /\ \A q \in FreedBy(hit), w \in Pids \ FreedBy(hit) :
              Findable(w) /\ watchers[q][w] > 0 => Told(w, q)
    BY <2>1, <2>6, CleanProperties
  <2>8. frames' = frames \ FreedBy(hit)
    BY <2>7, Zenon DEF Cleaned
  <2>9. at # 0 => running \notin hit
    BY <1>5
  <2>10. running' = IF running \in hit THEN NoPid ELSE running
    BY <2>2
  <2>11. KillsHit(hit)
    BY <1>2, <1>3, <2>2, <2>7, <2>8, <2>9, <2>10, Zenon DEF KillsHit
  <2> QED BY <1>3, <2>11 DEF hit
<1> QED BY <1>4, <1>5

LEMMA KillsHitKeeps ==
    ASSUME FramesInv, NEW hit, KillsHit(hit)
    PROVE  FramesInv'
<1>1. Placed /\ FramesTyped /\ IsFiniteSet(used) /\ CleanFrames
  BY Parts
<1>2. /\ waits' \in Seq(Entry) /\ Len(waits') = Len(waits)
      /\ waits \in Seq(Entry) /\ Len(waits) \in Nat
      /\ \A i \in 1 .. Len(waits) :
            /\ waits'[i].pid = waits[i].pid
            /\ waits'[i].state = IF waits[i].pid \in hit /\ waits[i].state = "waiting"
                                 THEN "condemned" ELSE waits[i].state
  BY <1>1, CondemnProperties DEF KillsHit, Placed, ListTyped
<1>3. /\ hit \subseteq Pids /\ frames' = frames \ FreedBy(hit)
      /\ queued' = queued \ hit /\ delayed' = delayed \ hit /\ reading' = reading \ hit
      /\ timers' = timers \ hit
      /\ at # 0 => running \notin hit
      /\ running' = IF running \in hit THEN NoPid ELSE running
      /\ UNCHANGED <<used, at, limit, bg, been, fault>>
  BY Zenon DEF KillsHit
<1>4. Placed'
  <2>1. SetsTyped' /\ ListTyped'
    BY <1>1, <1>2, <1>3 DEF Placed, SetsTyped, ListTyped
  <2>2. EntryPids' /\ OneEntry'
    BY <1>1, <1>2, <1>3 DEF Placed, EntryPids, OneEntry
  <2>3. Resumed' /\ Apart'
    BY <1>1, <1>2, <1>3 DEF Placed, SetsTyped, EntryPids, Resumed, Apart
  <2>4. Homed'
    <3>1. \A p : HasEntry(p)' <=> HasEntry(p)
      BY <1>2 DEF HasEntry
    <3> QED BY <1>1, <1>3, <3>1 DEF Placed, Homed, FreedBy
  <2>5. NoFreedFrame'
    <3>1. \A p : Waits(p)' => Waits(p) /\ p \notin hit
      BY <1>2 DEF Waits
    <3>2. \A p : Condemned(p)' => Condemned(p) \/ p \in hit
      BY <1>2 DEF Condemned
    <3> QED BY <1>1, <1>3, <3>1, <3>2 DEF Placed, NoFreedFrame, FreedBy
  <2> QED BY <2>1, <2>2, <2>3, <2>4, <2>5 DEF Placed
<1>5. IsFiniteSet(used') /\ FramesTyped' /\ CleanFrames'
  BY <1>1, Zenon DEF FramesTyped, KillsHit, Cleaned
<1> QED BY <1>4, <1>5, PartsNext

LEMMA KillProgramKeeps ==
    ASSUME FramesInv, NEW x, NEW mode, NEW readFirst \in BOOLEAN,
           KillProgram(x, mode, readFirst)
    PROVE  FramesInv'
<1>1. CASE KillsHit(HitBy(x, mode))
  BY <1>1, KillsHitKeeps
<1>2. CASE /\ fault' \in {"stray", "recleaned"}
           /\ UNCHANGED <<used, frames, queued, delayed, reading, timers, waits, at, limit,
                          running, events, watchers, bg, been>>
  <2>1. Placed /\ FramesTyped /\ CleanFrames
    BY Parts
  <2>2. FramesTyped' /\ CleanFrames'
    <3>1. fault' \in {"none", "recleaned", "stray", "runs freed"}
      BY <1>2
    <3> QED BY <1>2, <2>1, <3>1, Zenon DEF FramesTyped, CleanFrames
  <2>3. bg \subseteq been /\ been \subseteq used
    BY <2>1 DEF Placed, SetsTyped
  <2> QED BY <1>2, <2>2, <2>3, StaysKeeps
<1> QED BY <1>1, <1>2, KillProgramSteps

\* What do_dequeue("all") does.
KillsAll ==
    /\ running = NoPid /\ at = 0
    /\ Cleaned(delayed \cup reading) /\ frames' = frames \ (delayed \cup reading)
    /\ queued' = {} /\ delayed' = {} /\ reading' = {} /\ timers' = {}
    /\ UNCHANGED <<used, waits, at, limit, running, bg, been, fault>>
    /\ \A q \in delayed \cup reading, w \in Pids \ (delayed \cup reading) :
          Findable(w) /\ watchers[q][w] > 0 => Told(w, q)

LEMMA KillAllSteps ==
    ASSUME FramesInv, KillAll
    PROVE  KillsAll
<1>1. Placed /\ IsFiniteSet(used)
  BY Parts
<1>2. PICK order \in SetToSeqs(delayed \cup reading) : Clean(order)
  BY Zenon DEF KillAll
<1>3. delayed \cup reading \subseteq used /\ used \subseteq Pids
  BY <1>1 DEF Placed, SetsTyped
<1>4. IsFiniteSet(delayed \cup reading)
  BY <1>1, <1>3, FS_Subset
<1>5. order \in Seq(delayed \cup reading) /\ ToSet(order) = delayed \cup reading
  BY <1>2, <1>4, OrderProperties
<1>6. order \in Seq(Pids)
  <2>1. delayed \cup reading \subseteq Pids
    BY <1>3
  <2> QED BY <1>5, <2>1
<1>7. /\ Cleaned(delayed \cup reading)
      /\ \A q \in delayed \cup reading, w \in Pids \ (delayed \cup reading) :
            Findable(w) /\ watchers[q][w] > 0 => Told(w, q)
  BY <1>2, <1>5, <1>6, CleanProperties
<1>8. frames' = frames \ (delayed \cup reading)
  BY <1>7, Zenon DEF Cleaned
<1>9. running = NoPid /\ at = 0
  BY DEF KillAll, Idle
<1> QED BY <1>7, <1>8, <1>9, Zenon DEF KillAll, KillsAll

LEMMA KillAllKeeps ==
    ASSUME FramesInv, KillAll
    PROVE  FramesInv'
<1>1. Placed /\ FramesTyped /\ IsFiniteSet(used) /\ CleanFrames
  BY Parts
<1>2. KillsAll
  BY KillAllSteps
<1>3. /\ frames' = frames \ (delayed \cup reading)
      /\ queued' = {} /\ delayed' = {} /\ reading' = {} /\ timers' = {}
      /\ UNCHANGED <<used, waits, at, limit, running, bg, been, fault>>
  BY <1>2, Zenon DEF KillsAll
<1>4. Placed'
  BY <1>1, <1>3 DEF Placed, SetsTyped, ListTyped, EntryPids, OneEntry, Resumed, Apart, Homed,
     HasEntry, NoFreedFrame, Waits, Condemned
<1>5. IsFiniteSet(used') /\ FramesTyped' /\ CleanFrames'
  BY <1>1, <1>2, Zenon DEF FramesTyped, KillsAll, Cleaned
<1> QED BY <1>4, <1>5, PartsNext

-----------------------------------------------------------------------------
(* The pass over the list.                                                 *)

\* A sweep that frees no frame wrongly.
Sweeps ==
    /\ Cleaned({p \in frames : Condemned(p)})
    /\ frames' = {p \in frames : ~ Condemned(p)}
    /\ timers' = {p \in timers : ~ (p \in frames /\ Condemned(p))}
    /\ waits' = Swept
    /\ UNCHANGED fault
    /\ \A q \in frames, w \in Pids :
          /\ Condemned(q) /\ ~ (w \in frames /\ Condemned(w))
          /\ Findable(w) /\ watchers[q][w] > 0
          => Told(w, q)

LEMMA SweepSteps ==
    ASSUME FramesInv, Sweep
    PROVE  \/ Sweeps
           \/ fault' = "recleaned" /\ UNCHANGED <<frames, timers, waits, events, watchers>>
<1>1. Placed
  BY Parts
<1>2. CASE SweepRecleans
  BY <1>2, Zenon DEF Sweep
<1>3. CASE ~ SweepRecleans
  <2>1. Clean(Doomed) /\ timers' = timers \ ToSet(Doomed) /\ waits' = Swept /\ UNCHANGED fault
    BY <1>3, Zenon DEF Sweep, TimersWithout
  <2>2. Doomed \in Seq(Pids) /\ ToSet(Doomed) = {p \in frames : Condemned(p)}
    BY <1>1, DoomedProperties DEF Placed
  <2>3. /\ Cleaned(ToSet(Doomed))
        /\ \A q \in ToSet(Doomed), w \in Pids \ ToSet(Doomed) :
              Findable(w) /\ watchers[q][w] > 0 => Told(w, q)
    BY <2>1, <2>2, CleanProperties
  <2>4. frames' = frames \ ToSet(Doomed)
    BY <2>3, Zenon DEF Cleaned
  <2>5. /\ frames' = {p \in frames : ~ Condemned(p)}
        /\ timers' = {p \in timers : ~ (p \in frames /\ Condemned(p))}
    BY <2>1, <2>2, <2>4
  <2>6. \A q \in frames, w \in Pids :
           /\ Condemned(q) /\ ~ (w \in frames /\ Condemned(w))
           /\ Findable(w) /\ watchers[q][w] > 0
           => Told(w, q)
    BY <2>2, <2>3
  <2>7. Cleaned({p \in frames : Condemned(p)})
    BY <2>2, <2>3
  <2> QED BY <2>1, <2>5, <2>6, <2>7, Zenon DEF Sweeps
<1> QED BY <1>2, <1>3

LEMMA SweepKeeps ==
    ASSUME FramesInv, Sweep, running = NoPid, at' \in {0, 1}, limit' \in 0 .. EventLimit,
           UNCHANGED <<used, queued, delayed, reading, running, bg, been>>
    PROVE  FramesInv'
<1>1. Placed /\ FramesTyped /\ IsFiniteSet(used) /\ CleanFrames
  BY Parts
<1>2. IsFiniteSet(used')
  BY <1>1
<1>3. waits \in Seq(Entry) /\ Len(waits) \in Nat
  BY <1>1 DEF Placed, ListTyped
<1>4. CASE Sweeps
  <2>1. /\ frames' = {p \in frames : ~ Condemned(p)}
        /\ timers' = {p \in timers : ~ (p \in frames /\ Condemned(p))}
        /\ waits' = Swept /\ UNCHANGED fault
    BY <1>4, Zenon DEF Sweeps
  <2>2. PICK f : SweptBy(f)
    BY <1>1, SweptProperties DEF Placed
  <2>3. /\ waits' \in Seq(Entry) /\ Len(waits') \in Nat
        /\ \A i \in 1 .. Len(waits') : f[i] \in 1 .. Len(waits)
        /\ \A i, j \in 1 .. Len(waits') : i # j => f[i] # f[j]
        /\ \A i \in 1 .. Len(waits') : waits'[i] = waits[f[i]] /\ waits'[i].state = "waiting"
        /\ \A j \in 1 .. Len(waits) :
              waits[j].state = "waiting" => \E i \in 1 .. Len(waits') : f[i] = j
    BY <2>1, <2>2 DEF SweptBy
  <2>4. Placed'
    <3>1. SetsTyped' /\ ListTyped'
      BY <1>1, <2>1, <2>3 DEF Placed, SetsTyped, ListTyped
    <3>2. EntryPids' /\ OneEntry'
      <4>1. EntryPids'
        BY <1>1, <2>3 DEF Placed, EntryPids
      <4>2. ASSUME NEW i \in 1 .. Len(waits'), NEW j \in 1 .. Len(waits'),
                   waits'[i].pid = waits'[j].pid
            PROVE  i = j
        <5>1. /\ waits[f[i]].pid = waits[f[j]].pid
              /\ waits[f[i]].state = "waiting" /\ waits[f[j]].state = "waiting"
          BY <2>3, <4>2
        <5>2. f[i] = f[j]
          BY <1>1, <2>3, <5>1 DEF Placed, OneEntry
        <5> QED BY <2>3, <5>2
      <4> QED BY <4>1, <4>2 DEF OneEntry
    <3>3. Resumed' /\ Apart'
      <4>1. NoPid \notin used /\ used' = used /\ running' = NoPid
        BY <1>1 DEF Placed, SetsTyped
      <4>2. \A i \in 1 .. Len(waits') : /\ waits'[i].pid \in used
                                        /\ waits'[i].pid \notin delayed \cup reading
        BY <1>1, <2>3 DEF Placed, EntryPids, Apart
      <4> QED BY <1>1, <4>1, <4>2 DEF Placed, Resumed, Apart
    <3>4. \A p : Waits(p) <=> Waits(p)'
      <4>1. ASSUME NEW p, NEW j \in 1 .. Len(waits), waits[j].pid = p, waits[j].state = "waiting"
            PROVE  Waits(p)'
        <5>1. PICK i \in 1 .. Len(waits') : f[i] = j
          BY <2>3, <4>1
        <5>2. waits'[i] = waits[j]
          BY <2>3, <5>1
        <5> QED BY <4>1, <5>2 DEF Waits
      <4>2. ASSUME NEW p, NEW i \in 1 .. Len(waits'), waits'[i].pid = p
            PROVE  Waits(p)
        <5>1. /\ f[i] \in 1 .. Len(waits) /\ waits[f[i]].pid = p
              /\ waits[f[i]].state = "waiting"
          BY <2>3, <4>2
        <5> QED BY <5>1 DEF Waits
      <4> QED BY <4>1, <4>2 DEF Waits
    <3>5. \A p : ~ Condemned(p)'
      BY <2>3 DEF Condemned
    <3>6. \A p \in Pids : Waits(p) => ~ Condemned(p) /\ HasEntry(p)
      BY <1>1 DEF Waits, Condemned, HasEntry, Placed, OneEntry
    <3>7. \A p \in Pids : HasEntry(p) => Waits(p) \/ Condemned(p)
      BY <1>1, <1>3, ListType DEF Waits, Condemned, HasEntry, Placed
    <3>8. \A p : Waits(p)' => HasEntry(p)'
      BY DEF Waits, HasEntry
    <3>9. frames \subseteq Pids
      BY <1>1 DEF Placed, SetsTyped
    <3>10. Homed'
      BY <1>1, <2>1, <3>4, <3>7, <3>8, <3>9 DEF Placed, Homed
    <3>11. NoFreedFrame'
      <4>1. \A p \in delayed \cup reading : ~ Condemned(p)
        BY <1>1 DEF Placed, Apart, Condemned
      <4> QED BY <1>1, <2>1, <3>4, <3>5, <3>6, <4>1 DEF Placed, NoFreedFrame
    <3> QED BY <3>1, <3>2, <3>3, <3>10, <3>11 DEF Placed
  <2>5. FramesTyped' /\ CleanFrames'
    BY <1>1, <1>4, <2>1, Zenon DEF FramesTyped, Sweeps, Cleaned
  <2> QED BY <1>2, <2>4, <2>5, PartsNext
<1>5. CASE fault' = "recleaned" /\ UNCHANGED <<frames, timers, waits, events, watchers>>
  <2>1. Placed'
    BY <1>1, <1>5 DEF Placed, SetsTyped, ListTyped, EntryPids, OneEntry, Resumed, Apart, Homed,
       HasEntry, NoFreedFrame, Waits, Condemned
  <2>2. FramesTyped' /\ CleanFrames'
    <3>1. fault' \in {"none", "recleaned", "stray", "runs freed"}
      BY <1>5
    <3> QED BY <1>1, <1>5, <3>1, Zenon DEF FramesTyped, CleanFrames
  <2> QED BY <1>2, <2>1, <2>2, PartsNext
<1> QED BY <1>4, <1>5, SweepSteps

LEMMA BeginEventsKeeps ==
    ASSUME FramesInv, BeginEvents
    PROVE  FramesInv'
<1>1. limit' \in 0 .. EventLimit
  BY LimitsAssumption DEF BeginEvents
<1> QED BY <1>1, SweepKeeps DEF BeginEvents, Idle

LEMMA EndEventsKeeps ==
    ASSUME FramesInv, EndEvents
    PROVE  FramesInv'
<1>1. limit' \in 0 .. EventLimit
  BY LimitsAssumption DEF EndEvents
<1> QED BY <1>1, SweepKeeps DEF EndEvents

\* What the walk gives to a process is an event it waits for; the others stay.
LEMMA MailProperties ==
    ASSUME FramesTyped, NEW e \in Entry, IsReady(e)
    PROVE  LET k == SelectInSeq(Mail(e), LAMBDA v : Accepts(e, v))
           IN  /\ Mail(e) \in Seq(Events)
               /\ k \in 1 .. Len(Mail(e))
               /\ RemoveAt(Mail(e), k) \in Seq(Events)
<1> DEFINE m == Mail(e)
           I == {i \in 1 .. Len(m) : Accepts(e, m[i])}
           k == SelectInSeq(m, LAMBDA v : Accepts(e, v))
<1>1. events \in [Pids -> Seq(Events)] /\ e.pid \in Pids
  BY Zenon DEF FramesTyped, Entry
<1>2. m \in Seq(Events)
  <2>1. events[e.pid] \in Seq(Events) /\ "READ" \in Events
    BY <1>1 DEF Events
  <2>2. Append(events[e.pid], "READ") \in Seq(Events)
    BY <2>1, AppendProperties
  <2> QED BY <2>1, <2>2, Zenon DEF Mail
<1>3. I # {} /\ I \subseteq Nat
  BY DEF IsReady
<1>4. k = CHOOSE x \in I : \A y \in I : x <= y
  BY <1>3, Zenon DEF SelectInSeq, Min
<1>5. k \in I
  <2>1. \E x \in I : \A y \in I : x <= y
    BY <1>3, LeastNat
  <2> HIDE DEF I, k
  <2> QED BY <1>4, <2>1, Zenon
<1>6. k \in 1 .. Len(m)
  <2> HIDE DEF k
  <2> QED BY <1>5
<1>7. RemoveAt(m, k) \in Seq(Events)
  <2> HIDE DEF m, k
  <2> QED BY <1>2, <1>6, RemoveAtProperties
<1> QED BY <1>2, <1>6, <1>7, Zenon

\* The process resumed waits in the entry the walk comes to.
DeliversTo(i, dies) ==
    /\ i \in 1 .. Len(waits) /\ IsReady(waits[i])
    /\ IF dies
       THEN /\ Cleaned({waits[i].pid}) /\ frames' = frames \ {waits[i].pid}
            /\ timers' = timers \ {waits[i].pid}
            /\ waits' = [waits EXCEPT ![i].state = "spent"]
            /\ at' = i + 1
            /\ UNCHANGED running
            /\ \A w \in Pids \ {waits[i].pid} :
                  Findable(w) /\ watchers[waits[i].pid][w] > 0 => Told(w, waits[i].pid)
       ELSE /\ running' = waits[i].pid
            /\ at' = i
            /\ UNCHANGED <<frames, timers, waits, watchers>>
            /\ events' \in [Pids -> Seq(Events)]
            /\ \A q \in Pids \ {waits[i].pid} : events'[q] = events[q]

LEMMA DeliverSteps ==
    ASSUME FramesInv, NEW dies \in BOOLEAN, Deliver(dies)
    PROVE  \E i : DeliversTo(i, dies)
<1>1. Placed /\ FramesTyped
  BY Parts
<1>2. waits \in Seq(Entry) /\ Len(waits) \in Nat /\ at \in Nat /\ at # 0
  BY <1>1, ListType DEF Placed, Deliver
<1>3. PICK i \in Ready :
         LET e == waits[i]
             k == SelectInSeq(Mail(e), LAMBDA v : Accepts(e, v))
         IN  IF dies
             THEN /\ Clean(<<e.pid>>)
                  /\ timers' = TimersWithout({e.pid})
                  /\ waits' = [waits EXCEPT ![i].state = "spent"]
                  /\ at' = i + 1
                  /\ UNCHANGED running
             ELSE /\ events' = [events EXCEPT ![e.pid] = RemoveAt(Mail(e), k)]
                  /\ running' = e.pid
                  /\ at' = i
                  /\ UNCHANGED <<frames, timers, waits, watchers>>
  BY Zenon DEF Deliver
<1>4. i \in 1 .. Len(waits) /\ IsReady(waits[i])
  BY <1>2 DEF Ready
<1>5. waits[i] \in Entry /\ waits[i].pid \in Pids
  BY <1>1, <1>4, ListType DEF Placed
<1>6. CASE dies
  <2>1. Clean(<<waits[i].pid>>) /\ timers' = timers \ {waits[i].pid}
    BY <1>3, <1>6, Zenon DEF TimersWithout
  <2>2. /\ Cleaned({waits[i].pid})
        /\ \A w \in Pids \ {waits[i].pid} :
              Findable(w) /\ watchers[waits[i].pid][w] > 0 => Told(w, waits[i].pid)
    BY <1>5, <2>1, CleanProperties, OneElement
  <2>3. frames' = frames \ {waits[i].pid}
    BY <2>2, Zenon DEF Cleaned
  <2> QED BY <1>3, <1>4, <1>6, <2>1, <2>2, <2>3, Zenon DEF DeliversTo
<1>7. CASE ~ dies
  <2> DEFINE e == waits[i]
             k == SelectInSeq(Mail(e), LAMBDA v : Accepts(e, v))
             new == RemoveAt(Mail(e), k)
  <2>1. new \in Seq(Events)
    BY <1>1, <1>4, <1>5, MailProperties
  <2>2. /\ events' = [events EXCEPT ![waits[i].pid] = new]
        /\ running' = waits[i].pid
        /\ at' = i
        /\ UNCHANGED <<frames, timers, waits, watchers>>
    BY <1>3, <1>7, Zenon
  <2>3. events \in [Pids -> Seq(Events)]
    BY <1>1, Zenon DEF FramesTyped
  <2> HIDE DEF new
  <2>4. /\ events' \in [Pids -> Seq(Events)]
        /\ \A q \in Pids \ {waits[i].pid} : events'[q] = events[q]
    BY <1>5, <2>1, <2>2, <2>3
  <2> QED BY <1>4, <1>7, <2>2, <2>4, Zenon DEF DeliversTo
<1> QED BY <1>6, <1>7

LEMMA DeliverKeeps ==
    ASSUME FramesInv, NEW dies \in BOOLEAN, Deliver(dies)
    PROVE  FramesInv'
<1>1. Placed /\ FramesTyped /\ IsFiniteSet(used) /\ CleanFrames
  BY Parts
<1>2. PICK i : DeliversTo(i, dies)
  BY DeliverSteps
<1>3. /\ i \in 1 .. Len(waits) /\ waits[i].state = "waiting"
      /\ waits \in Seq(Entry) /\ Len(waits) \in Nat
      /\ waits[i] \in Entry /\ waits[i].pid \in Pids
  BY <1>1, <1>2, ListType DEF DeliversTo, IsReady, Placed
<1>4. running = NoPid /\ UNCHANGED <<used, queued, delayed, reading, bg, been, fault>>
  BY DEF Deliver
<1>5. limit' \in 0 .. EventLimit
  <2>1. limit \in 0 .. EventLimit
    BY <1>1, Zenon DEF FramesTyped
  <2>2. EventLimit \in Nat /\ limit > 0 /\ limit' = limit - 1
    BY LimitsAssumption DEF Deliver
  <2> QED BY <2>1, <2>2
<1>6. IsFiniteSet(used')
  BY <1>1, <1>4
<1>7. CASE dies
  <2>1. /\ frames' = frames \ {waits[i].pid} /\ timers' = timers \ {waits[i].pid}
        /\ waits' = [waits EXCEPT ![i].state = "spent"]
        /\ at' = i + 1 /\ running' = NoPid
    BY <1>2, <1>4, <1>7, Zenon DEF DeliversTo
  <2>2. /\ waits' \in Seq(Entry) /\ Len(waits') = Len(waits)
        /\ \A j \in 1 .. Len(waits) :
              /\ waits'[j].pid = waits[j].pid
              /\ waits'[j].state = IF j = i THEN "spent" ELSE waits[j].state
    <3> DEFINE e == [waits[i] EXCEPT !.state = "spent"]
    <3>1. e \in Entry /\ e.pid = waits[i].pid /\ e.state = "spent"
      BY <1>3 DEF Entry
    <3>2. waits' = [waits EXCEPT ![i] = e]
      BY <2>1
    <3> HIDE DEF e
    <3> QED BY <1>3, <3>1, <3>2
  <2>3. Placed'
    <3>1. SetsTyped' /\ ListTyped'
      BY <1>1, <1>3, <1>4, <2>1, <2>2 DEF Placed, SetsTyped, ListTyped
    <3>2. EntryPids' /\ OneEntry'
      BY <1>1, <1>3, <1>4, <2>2 DEF Placed, EntryPids, OneEntry
    <3>3. Resumed' /\ Apart'
      BY <1>1, <1>3, <1>4, <2>1, <2>2 DEF Placed, SetsTyped, EntryPids, Resumed, Apart
    <3>4. Homed'
      BY <1>1, <1>3, <1>4, <2>1, <2>2 DEF Placed, Homed, HasEntry
    <3>5. NoFreedFrame'
      BY <1>1, <1>3, <1>4, <2>1, <2>2 DEF Placed, OneEntry, Apart, NoFreedFrame, Waits, Condemned
    <3> QED BY <3>1, <3>2, <3>3, <3>4, <3>5 DEF Placed
  <2>4. FramesTyped' /\ CleanFrames'
    BY <1>1, <1>2, <1>4, <1>5, <1>7, Zenon DEF FramesTyped, DeliversTo, Cleaned
  <2> QED BY <1>6, <2>3, <2>4, PartsNext
<1>8. CASE ~ dies
  <2>1. /\ running' = waits[i].pid /\ at' = i
        /\ UNCHANGED <<frames, timers, waits, watchers>>
        /\ events' \in [Pids -> Seq(Events)]
        /\ \A q \in Pids \ {waits[i].pid} : events'[q] = events[q]
    BY <1>2, <1>8, Zenon DEF DeliversTo
  <2>2. waits[i].pid \in frames /\ waits[i].pid \notin queued
    BY <1>1, <1>3 DEF Placed, NoFreedFrame, Waits
  <2>3. Placed'
    <3>0. /\ running' = waits[i].pid /\ at' = i
          /\ UNCHANGED <<used, frames, queued, delayed, reading, timers, waits, bg, been>>
      BY <1>4, <2>1
    <3>1. SetsTyped' /\ ListTyped' /\ EntryPids' /\ OneEntry'
      BY <1>1, <1>3, <2>2, <3>0 DEF Placed, SetsTyped, ListTyped, EntryPids, OneEntry
    <3>2. Resumed' /\ Apart'
      BY <1>1, <1>3, <3>0 DEF Placed, OneEntry, Resumed, Apart
    <3>3. Homed'
      BY <1>1, <1>3, <1>4, <3>0 DEF Placed, SetsTyped, Homed, HasEntry
    <3>4. NoFreedFrame'
      BY <1>1, <2>2, <3>0 DEF Placed, NoFreedFrame, Waits, Condemned
    <3> QED BY <3>1, <3>2, <3>3, <3>4 DEF Placed
  <2>4. CleanFrames'
    <3>1. \A p \in Pids \ frames : events'[p] = events[p]
      BY <2>1, <2>2
    <3> QED BY <1>1, <2>1, <3>1, Zenon DEF CleanFrames
  <2>5. FramesTyped'
    BY <1>1, <1>4, <1>5, <2>1, Zenon DEF FramesTyped
  <2> QED BY <1>6, <2>3, <2>4, <2>5, PartsNext
<1> QED BY <1>7, <1>8

-----------------------------------------------------------------------------
(* Therefore every reachable state satisfies the invariant.                *)

LEMMA InitEstablishes == Init => FramesInv
<1> SUFFICES ASSUME Init PROVE FramesInv
  OBVIOUS
<1>1. waits = << >> /\ Len(waits) = 0
  BY DEF Init
<1>2. EntryPids /\ OneEntry /\ Resumed /\ Apart /\ Homed /\ NoFreedFrame
  BY <1>1 DEF Init, EntryPids, OneEntry, Resumed, Apart, Homed, NoFreedFrame, Waits, Condemned
<1>3. IsFiniteSet(used)
  BY FS_EmptySet DEF Init
<1>4. CleanFrames
  BY DEF Init, CleanFrames
<1>5. TypeOK
  <2>1. events \in [Pids -> Seq(Events)]
    <3>1. << >> \in Seq(Events)
      OBVIOUS
    <3> QED BY <3>1 DEF Init
  <2>2. watchers \in [Pids -> [Pids -> Nat]]
    BY DEF Init, Nobody
  <2>3. limit \in 0 .. EventLimit
    BY LimitsAssumption DEF Init
  <2>4. waits \in Seq(Entry) /\ at \in 0 .. Len(waits) + 1
    BY <1>1 DEF Init
  <2>5. /\ used \in SUBSET Pids /\ frames \in SUBSET used /\ queued \in SUBSET used
        /\ delayed \in SUBSET used /\ reading \in SUBSET used /\ timers \in SUBSET used
        /\ running \in used \cup {NoPid} /\ bg \in SUBSET been /\ been \in SUBSET used
        /\ fault \in {"none", "recleaned", "stray", "runs freed"}
    BY DEF Init
  <2> QED BY <2>1, <2>2, <2>3, <2>4, <2>5, Zenon DEF TypeOK
<1> QED BY <1>2, <1>3, <1>4, <1>5, Zenon DEF FramesInv

LEMMA StepKeeps == FramesInv /\ [Next]_vars => FramesInv'
<1> SUFFICES ASSUME FramesInv, [Next]_vars PROVE FramesInv'
  OBVIOUS
<1>1. ASSUME NEW p \in Pids, Births(p) PROVE FramesInv'
  BY <1>1, StartKeeps, QueueKeeps, RunQueuedKeeps, ForkKeeps DEF Births
<1>2. ASSUME NEW p \in Pids, Leave(p) PROVE FramesInv'
  BY <1>2, ExitKeeps, SleepKeeps, ReadKeeps, EventWaitKeeps DEF Leave
<1>3. ASSUME NEW p \in Pids, Resumes(p) PROVE FramesInv'
  BY <1>3, ResumeDelayedKeeps, LineKeeps DEF Resumes
<1>4. ASSUME NEW p \in Pids, Sends(p) PROVE FramesInv'
  BY <1>4, SendEventKeeps, WatchKeeps, TimerStartKeeps, TimerStopKeeps, TimerDueKeeps,
     ReadNotifyKeeps, ModeKeeps DEF Sends
<1>5. ASSUME Kills PROVE FramesInv'
  BY <1>5, KillKeeps, KillProgramKeeps, KillAllKeeps DEF Kills
<1>6. ASSUME Pass PROVE FramesInv'
  BY <1>6, BeginEventsKeeps, DeliverKeeps, EndEventsKeeps DEF Pass
<1>7. ASSUME UNCHANGED vars PROVE FramesInv'
  <2>1. Placed /\ FramesTyped /\ CleanFrames
    BY Parts
  <2>2. FramesTyped' /\ CleanFrames'
    BY <1>7, <2>1, Zenon DEF FramesTyped, CleanFrames, vars
  <2>3. bg \subseteq been /\ been \subseteq used
    BY <2>1 DEF Placed, SetsTyped
  <2> QED BY <1>7, <2>2, <2>3, StaysKeeps DEF vars
<1> QED BY <1>1, <1>2, <1>3, <1>4, <1>5, <1>6, <1>7 DEF Next

\* Frames, lists, events and watchers fit together in every state.
THEOREM FramesInvariant == Spec => []FramesInv
<1>1. Init => FramesInv
  BY InitEstablishes
<1>2. FramesInv /\ [Next]_vars => FramesInv'
  BY StepKeeps
<1> QED BY <1>1, <1>2, PTL DEF Spec

\* No node, live entry or thread holds a freed frame, and neither does a timer.
THEOREM NoFreedFrameHeld == Spec => []NoFreedFrame
<1>1. FramesInv => NoFreedFrame
  BY DEF FramesInv
<1> QED BY <1>1, FramesInvariant, PTL

\* A freed frame has neither events nor watchers.
THEOREM FreedFramesClean == Spec => []CleanFrames
<1>1. FramesInv => CleanFrames
  BY DEF FramesInv
<1> QED BY <1>1, FramesInvariant, PTL

\* Every frame is in one place.
LEMMA OneHome ==
    ASSUME FramesInv, NEW p \in frames
    PROVE  \E home : Homes(p) = {home}
<1>1. Placed
  BY Parts
<1> DEFINE here(home) ==
              \/ home[1] = "thread" /\ p = running
              \/ home[1] = "delayed" /\ p \in delayed
              \/ home[1] = "reading" /\ p \in reading
           listed(i) == /\ waits[i].pid = p /\ waits[i].state # "spent"
                        /\ ~ (i = at /\ p = running)
<1>2. \A home : home \in Homes(p) <=>
         \/ home \in {"thread", "delayed", "reading"} \X {0} /\ here(home)
         \/ home \in {"entry"} \X (1 .. Len(waits)) /\ listed(home[2])
  BY Zenon DEF Homes
<1>3. p = running => p \notin delayed /\ p \notin reading
  BY <1>1 DEF Placed, Apart
<1>4. ~ (p \in delayed /\ p \in reading)
  BY <1>1 DEF Placed, Apart
<1>5. \A i \in 1 .. Len(waits) : listed(i) => p # running /\ p \notin delayed /\ p \notin reading
  BY <1>1 DEF Placed, Apart
<1>6. \A i, j \in 1 .. Len(waits) : listed(i) /\ listed(j) => i = j
  BY <1>1 DEF Placed, OneEntry
<1>7. p \in {running} \cup delayed \cup reading \/ \E i \in 1 .. Len(waits) : listed(i)
  BY <1>1 DEF Placed, Homed, HasEntry
<1> HIDE DEF listed
<1>8. CASE p = running
  <2>1. Homes(p) = {<<"thread", 0>>}
    BY <1>2, <1>3, <1>5, <1>8
  <2> QED BY <2>1
<1>9. CASE p \in delayed
  <2>1. Homes(p) = {<<"delayed", 0>>}
    BY <1>2, <1>3, <1>4, <1>5, <1>9
  <2> QED BY <2>1
<1>10. CASE p \in reading
  <2>1. Homes(p) = {<<"reading", 0>>}
    BY <1>2, <1>3, <1>4, <1>5, <1>10
  <2> QED BY <2>1
<1>11. CASE \E i \in 1 .. Len(waits) : listed(i)
  <2>1. PICK i \in 1 .. Len(waits) : listed(i)
    BY <1>11
  <2>2. Homes(p) = {<<"entry", i>>}
    BY <1>2, <1>5, <1>6, <2>1
  <2> QED BY <2>2
<1> QED BY <1>7, <1>8, <1>9, <1>10, <1>11

\* Every frame that is not freed is held by one list or by the thread.
THEOREM OnePlaceAlways == Spec => []OnePlace
<1>1. FramesInv => OnePlace
  <2> SUFFICES ASSUME FramesInv PROVE OnePlace
    OBVIOUS
  <2>1. TypeOK
    BY DEF FramesInv
  <2>2. ASSUME NEW p \in frames PROVE Cardinality(Homes(p)) = 1
    <3>1. PICK home : Homes(p) = {home}
      BY OneHome
    <3> QED BY <3>1, FS_Singleton
  <2> QED BY <2>1, <2>2, Zenon DEF OnePlace
<1> QED BY <1>1, FramesInvariant, PTL

-----------------------------------------------------------------------------
(* Watchers are told.                                                      *)

ToldStep ==
    \A q \in frames \ frames', w \in frames' :
        (watchers[q][w] > 0 /\ w # running /\ ~ Condemned(w)) => Told(w, q)

\* A suspended process can be found.
LEMMA SuspendedFindable ==
    ASSUME Placed, NEW w \in frames, w # running, ~ Condemned(w)
    PROVE  w \in Pids /\ Findable(w)
<1>1. w \in Pids
  BY DEF Placed, SetsTyped
<1>2. ASSUME HasEntry(w) PROVE Waits(w)
  <2>1. PICK i \in 1 .. Len(waits) : waits[i].pid = w /\ waits[i].state # "spent"
    BY <1>2 DEF HasEntry
  <2>2. waits[i].state \in {"waiting", "condemned", "spent"}
    BY ListType DEF Placed
  <2> QED BY <2>1, <2>2 DEF Waits, Condemned
<1> QED BY <1>1, <1>2 DEF Placed, Homed, Findable

LEMMA CleanTells ==
    ASSUME FramesInv, NEW order \in Seq(Pids), Clean(order)
    PROVE  ToldStep
<1>1. /\ frames' = frames \ ToSet(order)
      /\ \A q \in ToSet(order), w \in Pids \ ToSet(order) :
            Findable(w) /\ watchers[q][w] > 0 => Told(w, q)
  BY CleanProperties DEF Cleaned
<1> QED BY <1>1, SuspendedFindable, Parts DEF ToldStep

LEMMA StepTells == FramesInv /\ [Next]_vars => ToldStep
<1> SUFFICES ASSUME FramesInv, [Next]_vars PROVE ToldStep
  OBVIOUS
<1>0. Placed
  BY Parts
<1>1. ASSUME frames \subseteq frames' PROVE ToldStep
  BY <1>1 DEF ToldStep
<1>2. ASSUME NEW p \in Pids, Exit(p) PROVE ToldStep
  BY <1>2, CleanTells, OneElement DEF Exit
<1>3. ASSUME NEW p \in Pids, NEW dies \in BOOLEAN, Line(p, dies) PROVE ToldStep
  BY <1>1, <1>3, CleanTells, OneElement DEF Line
<1>4. ASSUME NEW q \in Pids, Kill(q) PROVE ToldStep
  BY <1>1, <1>4, CleanTells, OneElement DEF Kill
<1>5. ASSUME NEW x, NEW mode, NEW readFirst \in BOOLEAN, KillProgram(x, mode, readFirst)
      PROVE  ToldStep
  <2>1. CASE KillsHit(HitBy(x, mode))
    <3> DEFINE freed == FreedBy(HitBy(x, mode))
    <3>1. /\ frames' = frames \ freed
          /\ \A q \in freed, w \in Pids \ freed :
                Findable(w) /\ watchers[q][w] > 0 => Told(w, q)
      BY <2>1, Zenon DEF KillsHit
    <3> HIDE DEF freed
    <3> QED BY <1>0, <3>1, SuspendedFindable DEF ToldStep
  <2> QED BY <1>1, <1>5, <2>1, KillProgramSteps
<1>6. ASSUME KillAll PROVE ToldStep
  <2>1. /\ frames' = frames \ (delayed \cup reading)
        /\ \A q \in delayed \cup reading, w \in Pids \ (delayed \cup reading) :
              Findable(w) /\ watchers[q][w] > 0 => Told(w, q)
    BY <1>6, KillAllSteps, Zenon DEF KillsAll
  <2> QED BY <1>0, <2>1, SuspendedFindable DEF ToldStep
<1>7. ASSUME Sweep PROVE ToldStep
  <2>1. CASE Sweeps
    <3>1. /\ frames' = {p \in frames : ~ Condemned(p)}
          /\ \A q \in frames, w \in Pids :
                /\ Condemned(q) /\ ~ (w \in frames /\ Condemned(w))
                /\ Findable(w) /\ watchers[q][w] > 0
                => Told(w, q)
      BY <2>1, Zenon DEF Sweeps
    <3> QED BY <1>0, <3>1, SuspendedFindable DEF ToldStep
  <2> QED BY <1>1, <1>7, <2>1, SweepSteps
<1>8. ASSUME NEW dies \in BOOLEAN, Deliver(dies) PROVE ToldStep
  <2>1. PICK i : DeliversTo(i, dies)
    BY <1>8, DeliverSteps
  <2>2. CASE dies
    <3>1. /\ frames' = frames \ {waits[i].pid}
          /\ \A w \in Pids \ {waits[i].pid} :
                Findable(w) /\ watchers[waits[i].pid][w] > 0 => Told(w, waits[i].pid)
      BY <2>1, <2>2, Zenon DEF DeliversTo
    <3> QED BY <1>0, <3>1, SuspendedFindable DEF ToldStep
  <2>3. CASE ~ dies
    BY <1>1, <2>1, <2>3 DEF DeliversTo
  <2> QED BY <2>2, <2>3
<1>9. ASSUME NEW p \in Pids, Births(p) PROVE ToldStep
  BY <1>1, <1>9 DEF Births, Start, Queue, RunQueued, Fork
<1>10. ASSUME NEW p \in Pids, Leave(p) PROVE ToldStep
  <2>1. ASSUME NEW full \in BOOLEAN, Sleep(p, full) PROVE ToldStep
    BY <1>1, <1>2, <2>1 DEF Sleep
  <2>2. ASSUME Read(p) PROVE ToldStep
    BY <1>1, <2>2 DEF Read
  <2>3. ASSUME NEW on \in Filters, EventWait(p, on) PROVE ToldStep
    BY <1>1, <2>3 DEF EventWait
  <2> QED BY <1>2, <1>10, <2>1, <2>2, <2>3 DEF Leave
<1>11. ASSUME NEW p \in Pids, Resumes(p) PROVE ToldStep
  <2>1. ASSUME ResumeDelayed(p) PROVE ToldStep
    BY <1>1, <2>1 DEF ResumeDelayed
  <2> QED BY <1>3, <1>11, <2>1 DEF Resumes
<1>12. ASSUME NEW p \in Pids, Sends(p) PROVE ToldStep
  <2>1. frames' = frames
    BY <1>12, Zenon DEF Sends, SendEvent, Watch, TimerStart, TimerStop, TimerDue, ReadNotify,
       Background, Preempt
  <2> QED BY <1>1, <2>1
<1>13. ASSUME Kills PROVE ToldStep
  BY <1>4, <1>5, <1>6, <1>13 DEF Kills
<1>14. ASSUME Pass PROVE ToldStep
  BY <1>7, <1>8, <1>14 DEF Pass, BeginEvents, EndEvents
<1>15. ASSUME UNCHANGED vars PROVE ToldStep
  BY <1>1, <1>15 DEF vars
<1> QED BY <1>9, <1>10, <1>11, <1>12, <1>13, <1>14, <1>15 DEF Next

\* A suspended watcher finds the event of every frame that is freed.
THEOREM SuspendedAreTold == Spec => ToldIfSuspended
<1>1. FramesInv /\ [Next]_vars => [ToldStep]_vars
  BY StepTells
<1>2. FramesInv /\ [Next]_vars =>
         [\A q \in frames \ frames', w \in frames' :
            (watchers[q][w] > 0 /\ w # running /\ ~ Condemned(w)) => Told(w, q)]_vars
  BY <1>1 DEF ToldStep
<1> QED BY <1>2, FramesInvariant, PTL DEF Spec, ToldIfSuspended

-----------------------------------------------------------------------------
(* Who a kill hits is dead.                                                *)

LEMMA HitIsDead ==
    ASSUME FramesInv, NEW hit, KillsHit(hit), NEW p \in hit
    PROVE  Stage(p)' \in {"unborn", "dead"}
<1>1. Placed
  BY Parts
<1>2. /\ waits' \in Seq(Entry) /\ Len(waits') = Len(waits)
      /\ \A i \in 1 .. Len(waits) :
            /\ waits'[i].pid = waits[i].pid
            /\ waits'[i].state = IF waits[i].pid \in hit /\ waits[i].state = "waiting"
                                 THEN "condemned" ELSE waits[i].state
  BY <1>1, CondemnProperties DEF KillsHit, Placed
<1>3. /\ hit \subseteq Pids /\ frames' = frames \ FreedBy(hit)
      /\ queued' = queued \ hit
      /\ running' = IF running \in hit THEN NoPid ELSE running
  BY Zenon DEF KillsHit
<1>4. p \notin queued' /\ p # running'
  BY <1>3
<1>5. ASSUME p \in frames' PROVE Condemned(p)'
  <2>1. p \in frames /\ p # running /\ p \notin delayed \cup reading /\ ~ Waits(p)
    BY <1>3, <1>5 DEF FreedBy
  <2>2. PICK i \in 1 .. Len(waits) : waits[i].pid = p /\ waits[i].state # "spent"
    BY <1>1, <2>1 DEF Placed, Homed, HasEntry
  <2>3. waits[i].state = "condemned"
    BY <1>1, <2>1, <2>2, ListType DEF Placed, Waits
  <2>4. waits'[i].pid = p /\ waits'[i].state = "condemned"
    BY <1>2, <2>2, <2>3
  <2> QED BY <1>2, <2>2, <2>4 DEF Condemned
<1> QED BY <1>4, <1>5 DEF Stage

-----------------------------------------------------------------------------
(* The processes live as ProcessLife promises: every step of MufProcess is *)
(* one of ProcessLife, or changes the stage of no process.                 *)

Alive == {"queued", "running", "suspended"}

\* A step moves p, and the others stay.
Moves(p, from, to) ==
    /\ Stage(p) = from /\ Stage(p)' = to
    /\ \A q \in Pids \ {p} : Stage(q)' = Stage(q)

\* A step kills D, and the others stay.
DiesIn(D) ==
    /\ D \subseteq Pids
    /\ \A q \in D : Stage(q) \in Alive /\ Stage(q)' = "dead"
    /\ \A q \in Pids \ D : Stage(q)' = Stage(q)

LEMMA MovesTurns ==
    ASSUME NEW p \in Pids, NEW from, NEW to, Moves(p, from, to)
    PROVE  Lives!Turns(p, from, to)
BY DEF Moves, Lives!Turns

LEMMA NobodyRuns ==
    ASSUME running = NoPid
    PROVE  Lives!Nobody("running")
BY DEF Lives!Nobody, Stage

LEMMA KillsDie ==
    ASSUME NEW D, DiesIn(D)
    PROVE  Lives!Next
<1>1. Lives!Die(D) /\ D \in SUBSET Pids
  BY DEF DiesIn, Alive, Lives!Die
<1> QED BY <1>1 DEF Lives!Next

LEMMA MovesNext ==
    ASSUME NEW p \in Pids,
           \/ running = NoPid /\ \E from \in {"unborn", "queued", "suspended"} : Moves(p, from, "running")
           \/ Moves(p, "unborn", "queued")
           \/ Moves(p, "unborn", "dead")
           \/ Moves(p, "running", "suspended")
    PROVE  Lives!Next
<1>1. CASE running = NoPid /\ Moves(p, "unborn", "running")
  BY <1>1, MovesTurns, NobodyRuns DEF Lives!Next, Lives!Start
<1>2. CASE running = NoPid /\ Moves(p, "queued", "running")
  BY <1>2, MovesTurns, NobodyRuns DEF Lives!Next, Lives!RunQueued
<1>3. CASE running = NoPid /\ Moves(p, "suspended", "running")
  BY <1>3, MovesTurns, NobodyRuns DEF Lives!Next, Lives!Resume
<1>4. CASE Moves(p, "unborn", "queued")
  BY <1>4, MovesTurns DEF Lives!Next, Lives!Queue
<1>5. CASE Moves(p, "unborn", "dead")
  BY <1>5, MovesTurns DEF Lives!Next, Lives!Stillborn
<1>6. CASE Moves(p, "running", "suspended")
  BY <1>6, MovesTurns DEF Lives!Next, Lives!Suspend
<1> QED BY <1>1, <1>2, <1>3, <1>4, <1>5, <1>6

\* The stages before and after a step: Lives!Next, or no change.
Lived == Lives!Next \/ \A p \in Pids : Stage(p)' = Stage(p)

LEMMA BirthsLived ==
    ASSUME FramesInv, NEW p \in Pids, Births(p)
    PROVE  Lived
<1>0. Placed
  BY Parts
<1>1. CASE Start(p)
  <2>1. Moves(p, "unborn", "running") /\ running = NoPid
    BY <1>0, <1>1 DEF Placed, SetsTyped, Moves, Stage, Condemned, Start, Idle, Fresh
  <2> QED BY <2>1, MovesNext DEF Lived
<1>2. CASE Queue(p)
  <2>1. Moves(p, "unborn", "queued")
    BY <1>0, <1>2 DEF Moves, Stage, Condemned, Queue, Fresh
  <2> QED BY <2>1, MovesNext DEF Lived
<1>3. ASSUME NEW allowed \in BOOLEAN, RunQueued(p, allowed) PROVE Lived
  <2>1. CASE allowed
    <3>1. Moves(p, "queued", "running") /\ running = NoPid
      BY <1>0, <1>3, <2>1 DEF Placed, SetsTyped, Moves, Stage, Condemned, RunQueued, Idle
    <3> QED BY <3>1, MovesNext DEF Lived
  <2>2. CASE ~ allowed
    <3>1. DiesIn({p})
      BY <1>0, <1>3, <2>2 DEF Placed, SetsTyped, NoFreedFrame, DiesIn, Alive, Stage, Condemned,
         RunQueued, Idle
    <3> QED BY <3>1, KillsDie DEF Lived
  <2> QED BY <2>1, <2>2
<1>4. ASSUME NEW child \in Pids, NEW full \in BOOLEAN, Fork(p, child, full) PROVE Lived
  <2>1. child \notin used /\ used \subseteq Pids /\ queued \subseteq used /\ frames \subseteq used
    BY <1>0, <1>4 DEF Placed, SetsTyped, Fork, Fresh
  <2>2. CASE full
    <3>1. Moves(child, "unborn", "dead")
      BY <1>0, <1>4, <2>1, <2>2 DEF Placed, SetsTyped, Moves, Stage, Condemned, Fork, Runs
    <3> QED BY <3>1, MovesNext DEF Lived
  <2>3. CASE ~ full
    <3>1. ~ Condemned(child)
      BY <1>0, <2>1 DEF Placed, EntryPids, Condemned
    <3>2. Moves(child, "unborn", "suspended")
      BY <1>0, <1>4, <2>1, <2>3, <3>1 DEF Placed, SetsTyped, Moves, Stage, Condemned, Fork, Runs
    <3>3. Stage(p) = "running"
      BY <1>0, <1>4 DEF Placed, SetsTyped, NoFreedFrame, Stage, Fork, Runs
    <3>4. Lives!Fork(p, child)
      BY <3>2, <3>3, MovesTurns DEF Lives!Fork
    <3> QED BY <3>4 DEF Lived, Lives!Next
  <2> QED BY <2>2, <2>3
<1> QED BY <1>1, <1>2, <1>3, <1>4 DEF Births

LEMMA ExitLived ==
    ASSUME FramesInv, NEW p \in Pids, Exit(p)
    PROVE  Lived
<1>1. Placed
  BY Parts
<1>2. frames' = frames \ {p}
  BY CleanProperties, OneElement DEF Exit, Cleaned
<1>3. /\ Len(waits') = Len(waits)
      /\ \A i \in 1 .. Len(waits) :
            /\ waits'[i].pid = waits[i].pid
            /\ waits'[i].state = IF waits[i].pid = p THEN "spent" ELSE waits[i].state
  BY <1>1, RunningSpent DEF Exit
<1>4. \A q \in Pids \ {p} : Condemned(q)' <=> Condemned(q)
  BY <1>3 DEF Condemned
<1>5. running = p /\ p \in used /\ p \notin queued /\ running' = NoPid /\ UNCHANGED <<used, queued>>
  BY <1>1 DEF Placed, SetsTyped, NoFreedFrame, Exit, Runs, Leaves
<1>6. DiesIn({p})
  BY <1>2, <1>4, <1>5 DEF DiesIn, Alive, Stage
<1> QED BY <1>6, KillsDie DEF Lived

\* A program that keeps its frame, and whose entries are not condemned.
LEMMA SuspendsLived ==
    ASSUME FramesInv, NEW p \in Pids, Runs(p), running' = NoPid,
           UNCHANGED <<used, frames, queued>>, ~ Condemned(p)',
           \A q \in Pids \ {p} : Condemned(q)' <=> Condemned(q)
    PROVE  Lived
<1>1. Placed
  BY Parts
<1>2. running = p /\ p \in used /\ p \in frames /\ p \notin queued
  BY <1>1 DEF Placed, SetsTyped, NoFreedFrame, Runs
<1>3. Moves(p, "running", "suspended")
  BY <1>2 DEF Moves, Stage
<1> QED BY <1>3, MovesNext DEF Lived

LEMMA LeaveLived ==
    ASSUME FramesInv, NEW p \in Pids, Leave(p)
    PROVE  Lived
<1>1. Placed
  BY Parts
<1>2. ASSUME Runs(p), waits' = Spent(waits)
      PROVE  ~ Condemned(p)' /\ \A q \in Pids \ {p} : Condemned(q)' <=> Condemned(q)
  <2>1. /\ Len(waits') = Len(waits)
        /\ \A i \in 1 .. Len(waits) :
              /\ waits'[i].pid = waits[i].pid
              /\ waits'[i].state = IF waits[i].pid = p THEN "spent" ELSE waits[i].state
    BY <1>1, <1>2, RunningSpent
  <2> QED BY <2>1 DEF Condemned
<1>3. ASSUME NEW full \in BOOLEAN, Sleep(p, full) PROVE Lived
  <2>1. CASE full
    BY <1>3, <2>1, ExitLived DEF Sleep
  <2>2. CASE ~ full
    BY <1>2, <1>3, <2>2, SuspendsLived DEF Sleep, Leaves
  <2> QED BY <2>1, <2>2
<1>4. ASSUME Read(p) PROVE Lived
  BY <1>2, <1>4, SuspendsLived DEF Read, Leaves
<1>5. ASSUME NEW on \in Filters, EventWait(p, on) PROVE Lived
  <2>1. /\ Spent(waits) \in Seq(Entry) /\ Len(Spent(waits)) = Len(waits) /\ Len(waits) \in Nat
        /\ \A i \in 1 .. Len(waits) :
              /\ Spent(waits)[i].pid = waits[i].pid
              /\ Spent(waits)[i].state = IF waits[i].pid = p THEN "spent" ELSE waits[i].state
    BY <1>1, <1>5, RunningSpent DEF EventWait, Placed, ListTyped
  <2> DEFINE e == [pid |-> p, on |-> on, state |-> "waiting"]
  <2>2. e \in Entry /\ e.pid = p /\ e.state = "waiting"
    BY FiltersAssumption DEF Entry
  <2>3. waits' = Append(Spent(waits), e)
    BY <1>5, Zenon DEF EventWait, Register
  <2> HIDE DEF e
  <2>4. /\ Len(waits') = Len(waits) + 1 /\ waits'[Len(waits) + 1] = e
        /\ \A i \in 1 .. Len(waits) : waits'[i] = Spent(waits)[i]
    BY <2>1, <2>2, <2>3, AppendProperties
  <2>5. \A i \in 1 .. Len(waits') : i \in 1 .. Len(waits) \/ i = Len(waits) + 1
    BY <2>1, <2>4
  <2>6. \A i \in 1 .. Len(waits) : i \in 1 .. Len(waits')
    BY <2>1, <2>4
  <2>7. ~ Condemned(p)'
    BY <2>1, <2>2, <2>4, <2>5 DEF Condemned
  <2>8. ASSUME NEW q \in Pids \ {p} PROVE Condemned(q)' <=> Condemned(q)
    BY <2>1, <2>2, <2>4, <2>5, <2>6 DEF Condemned
  <2> QED BY <1>5, <2>7, <2>8, SuspendsLived DEF EventWait, Leaves
<1> QED BY <1>3, <1>4, <1>5, ExitLived DEF Leave

LEMMA ResumesLived ==
    ASSUME FramesInv, NEW p \in Pids, Resumes(p)
    PROVE  Lived
<1>1. Placed
  BY Parts
<1>2. ASSUME p \in delayed \cup reading, running = NoPid PROVE Stage(p) = "suspended"
  BY <1>1, <1>2 DEF Placed, SetsTyped, NoFreedFrame, Apart, Condemned, Stage
<1>3. ASSUME p \in delayed \cup reading, running = NoPid, running' = p,
             UNCHANGED <<used, frames, queued, waits>>
      PROVE  Lived
  <2>1. Moves(p, "suspended", "running")
    BY <1>1, <1>2, <1>3 DEF Placed, SetsTyped, NoFreedFrame, Moves, Stage, Condemned
  <2> QED BY <1>3, <2>1, MovesNext DEF Lived
<1>4. CASE ResumeDelayed(p)
  BY <1>3, <1>4 DEF ResumeDelayed, Idle
<1>5. ASSUME NEW dies \in BOOLEAN, Line(p, dies) PROVE Lived
  <2>1. CASE dies
    <3>1. frames' = frames \ {p}
      BY <1>5, <2>1, CleanProperties, OneElement DEF Line, Cleaned
    <3>2. running = NoPid /\ p \in reading /\ UNCHANGED <<running, used, queued, waits>>
      BY <1>5, <2>1 DEF Line, Idle
    <3>3. DiesIn({p})
      BY <1>1, <1>2, <3>1, <3>2 DEF Placed, SetsTyped, NoFreedFrame, DiesIn, Alive, Stage, Condemned
    <3> QED BY <3>3, KillsDie DEF Lived
  <2>2. CASE ~ dies
    BY <1>3, <1>5, <2>2 DEF Line, Idle
  <2> QED BY <2>1, <2>2
<1> QED BY <1>4, <1>5 DEF Resumes

LEMMA SendsLived ==
    ASSUME NEW p \in Pids, Sends(p)
    PROVE  Lived
<1>1. UNCHANGED <<used, frames, queued, waits, running>>
  BY Zenon DEF Sends, SendEvent, Watch, TimerStart, TimerStop, TimerDue, ReadNotify,
     Background, Preempt
<1> QED BY <1>1 DEF Lived, Stage, Condemned

LEMMA KillsLived ==
    ASSUME FramesInv, Kills
    PROVE  Lived
<1>1. Placed
  BY Parts
<1>2. ASSUME NEW q \in Pids, Kill(q) PROVE Lived
  <2>1. /\ Len(waits') = Len(waits)
        /\ \A i \in 1 .. Len(waits) :
              /\ waits'[i].pid = waits[i].pid
              /\ waits'[i].state = IF waits[i].pid \in {q} /\ waits[i].state = "waiting"
                                   THEN "condemned" ELSE waits[i].state
    BY <1>1, <1>2, CondemnProperties DEF Kill, Placed
  <2>2. /\ q \in delayed \cup reading => frames' = frames \ {q}
        /\ q \notin delayed \cup reading => frames' = frames
    <3>1. CASE q \in delayed \cup reading
      BY <1>2, <3>1, CleanProperties, OneElement DEF Kill, Cleaned
    <3>2. CASE q \notin delayed \cup reading
      BY <1>2, <3>2 DEF Kill
    <3> QED BY <3>1, <3>2
  <2>3. /\ Waits(q) \/ q \in queued \cup delayed \cup reading
        /\ queued' = queued \ {q} /\ running # q /\ UNCHANGED <<used, running>>
    BY <1>2 DEF Kill, Idle
  <2>4. Waits(q) => Condemned(q)'
    BY <2>1 DEF Waits, Condemned
  <2>5. \A r \in Pids \ {q} : Condemned(r)' <=> Condemned(r)
    BY <2>1 DEF Condemned
  <2>6. Stage(q) \in Alive
    <3>1. CASE q \in queued
      BY <1>1, <3>1 DEF Placed, SetsTyped, Stage, Alive
    <3>2. CASE Waits(q)
      BY <1>1, <3>2 DEF Placed, SetsTyped, NoFreedFrame, OneEntry, Waits, Condemned, Stage, Alive
    <3>3. CASE q \in delayed \cup reading
      BY <1>1, <3>3 DEF Placed, SetsTyped, NoFreedFrame, Apart, Condemned, Stage, Alive
    <3> QED BY <2>3, <3>1, <3>2, <3>3
  <2>7. Stage(q)' = "dead"
    <3>1. q \in used /\ (q \in queued => q \notin frames)
      BY <1>1, <2>6 DEF Placed, NoFreedFrame, Stage, Alive
    <3> QED BY <1>1, <2>2, <2>3, <2>4, <3>1 DEF Stage
  <2>8. DiesIn({q})
    BY <2>2, <2>3, <2>5, <2>6, <2>7 DEF DiesIn, Stage
  <2> QED BY <2>8, KillsDie DEF Lived
<1>3. ASSUME NEW x, NEW mode, NEW readFirst \in BOOLEAN, KillProgram(x, mode, readFirst)
      PROVE  Lived
  <2> DEFINE hit == HitBy(x, mode)
             D == {p \in hit : Stage(p) \in Alive}
  <2>1. CASE KillsHit(hit)
    <3>1. /\ hit \subseteq Pids /\ frames' = frames \ FreedBy(hit) /\ queued' = queued \ hit
          /\ running' = IF running \in hit THEN NoPid ELSE running
          /\ used' = used /\ Condemn(hit)
      BY <2>1, Zenon DEF KillsHit
    <3>2. \A p \in hit : Stage(p)' \in {"unborn", "dead"}
      BY <2>1, HitIsDead
    <3>3. /\ Len(waits') = Len(waits)
          /\ \A i \in 1 .. Len(waits) :
                /\ waits'[i].pid = waits[i].pid
                /\ waits'[i].state = IF waits[i].pid \in hit /\ waits[i].state = "waiting"
                                     THEN "condemned" ELSE waits[i].state
      BY <1>1, <3>1, CondemnProperties DEF Placed
    <3> HIDE DEF hit
    <3>4. \A p \in Pids \ hit : Condemned(p)' <=> Condemned(p)
      BY <3>3 DEF Condemned
    <3>5. \A p : Stage(p)' = "unborn" <=> Stage(p) = "unborn"
      BY <3>1 DEF Stage
    <3>6. \A p \in hit : Stage(p) \notin Alive => Stage(p) \in {"unborn", "dead"}
      BY DEF Stage, Alive
    <3>7. \A p \in Pids \ hit : Stage(p)' = Stage(p)
      BY <1>1, <3>1, <3>4 DEF Placed, SetsTyped, Stage, FreedBy
    <3>8. \A p \in Pids \ D : Stage(p)' = Stage(p)
      <4>1. ASSUME NEW p \in hit, Stage(p) \notin Alive PROVE Stage(p)' = Stage(p)
        BY <3>2, <3>5, <3>6, <4>1
      <4> QED BY <3>7, <4>1
    <3>9. \A p \in D : Stage(p) \in Alive /\ Stage(p)' = "dead"
      BY <3>2, <3>5 DEF Alive
    <3>10. DiesIn(D)
      BY <3>1, <3>8, <3>9 DEF DiesIn
    <3> QED BY <3>10, KillsDie DEF Lived
  <2>2. CASE UNCHANGED <<used, frames, queued, waits, running>>
    BY <2>2 DEF Lived, Stage, Condemned
  <2> QED BY <1>3, <2>1, <2>2, KillProgramSteps
<1>4. ASSUME KillAll PROVE Lived
  <2>1. /\ running = NoPid /\ frames' = frames \ (delayed \cup reading) /\ queued' = {}
        /\ UNCHANGED <<used, waits, running>>
    BY <1>4, KillAllSteps, Zenon DEF KillsAll
  <2>2. DiesIn(queued \cup delayed \cup reading)
    BY <1>1, <2>1 DEF Placed, SetsTyped, NoFreedFrame, Apart, Condemned, DiesIn, Alive, Stage
  <2> QED BY <2>2, KillsDie DEF Lived
<1> QED BY <1>2, <1>3, <1>4 DEF Kills

LEMMA PassLived ==
    ASSUME FramesInv, Pass
    PROVE  Lived
<1>1. Placed
  BY Parts
<1>2. ASSUME Sweep, UNCHANGED <<used, queued, running>> PROVE Lived
  <2>1. CASE Sweeps
    <3>1. frames' = {p \in frames : ~ Condemned(p)} /\ waits' = Swept
      BY <2>1, Zenon DEF Sweeps
    <3>2. PICK f : SweptBy(f)
      BY <1>1, SweptProperties DEF Placed
    <3>3. \A p : ~ Condemned(p)'
      BY <3>1, <3>2 DEF SweptBy, Condemned
    <3>4. \A p \in Pids : Stage(p)' = Stage(p)
      BY <1>2, <3>1, <3>3 DEF Stage
    <3> QED BY <3>4 DEF Lived
  <2>2. CASE UNCHANGED <<frames, waits>>
    BY <1>2, <2>2 DEF Lived, Stage, Condemned
  <2> QED BY <1>2, <2>1, <2>2, SweepSteps
<1>3. ASSUME NEW dies \in BOOLEAN, Deliver(dies) PROVE Lived
  <2>1. PICK i : DeliversTo(i, dies)
    BY <1>3, DeliverSteps
  <2> DEFINE p == waits[i].pid
  <2>2. /\ i \in 1 .. Len(waits) /\ waits[i].state = "waiting"
        /\ waits \in Seq(Entry) /\ waits[i] \in Entry /\ p \in Pids
    BY <1>1, <2>1, ListType DEF DeliversTo, IsReady, Placed
  <2>3. running = NoPid /\ UNCHANGED <<used, queued>>
    BY <1>3 DEF Deliver
  <2>4. p \in frames /\ p \in used /\ p \notin queued /\ ~ Condemned(p)
    BY <1>1, <2>2 DEF Placed, SetsTyped, NoFreedFrame, OneEntry, EntryPids, Waits, Condemned
  <2>5. Stage(p) = "suspended"
    BY <2>2, <2>3, <2>4 DEF Stage
  <2>6. CASE dies
    <3>1. /\ frames' = frames \ {p} /\ UNCHANGED running
          /\ waits' = [waits EXCEPT ![i].state = "spent"]
      BY <2>1, <2>6, Zenon DEF DeliversTo
    <3>2. \A q \in Pids \ {p} : Condemned(q)' <=> Condemned(q)
      <4> DEFINE e == [waits[i] EXCEPT !.state = "spent"]
      <4>1. e.pid = p /\ e.state = "spent"
        BY <2>2 DEF Entry
      <4>2. waits' = [waits EXCEPT ![i] = e]
        BY <3>1
      <4> HIDE DEF e
      <4>3. /\ Len(waits') = Len(waits) /\ waits'[i] = e
            /\ \A j \in 1 .. Len(waits) : j # i => waits'[j] = waits[j]
        BY <2>2, <4>2
      <4> QED BY <2>2, <4>1, <4>3 DEF Condemned
    <3>3. DiesIn({p})
      BY <2>2, <2>3, <2>4, <2>5, <3>1, <3>2 DEF DiesIn, Alive, Stage
    <3> QED BY <3>3, KillsDie DEF Lived
  <2>7. CASE ~ dies
    <3>1. running' = p /\ UNCHANGED <<frames, waits>>
      BY <2>1, <2>7, Zenon DEF DeliversTo
    <3>2. PICK r \in Pids : r = p
      BY <2>2
    <3> HIDE DEF p
    <3>3. Moves(r, "suspended", "running")
      BY <2>3, <2>4, <2>5, <3>1, <3>2 DEF Moves, Stage, Condemned
    <3> QED BY <2>3, <3>3, MovesNext DEF Lived
  <2> QED BY <2>6, <2>7
<1> QED BY <1>2, <1>3 DEF Pass, BeginEvents, EndEvents

LEMMA StepLived == FramesInv /\ [Next]_vars => Lived
<1> SUFFICES ASSUME FramesInv, [Next]_vars PROVE Lived
  OBVIOUS
<1>1. ASSUME UNCHANGED vars PROVE Lived
  BY <1>1 DEF vars, Lived, Stage, Condemned
<1> QED BY <1>1, BirthsLived, LeaveLived, ResumesLived, SendsLived, KillsLived, PassLived
        DEF Next

\* A killed process does not come back, one program runs at a time: the
\* processes live as ProcessLife promises.
THEOREM ImplementsLives == Spec => LivesAsPromised
<1>1. Init => Lives!Init
  BY DEF Init, Lives!Init, Stage
<1>2. FramesInv /\ [Next]_vars => [Lives!Next]_([p \in Pids |-> Stage(p)])
  BY StepLived DEF Lived
<1> QED BY <1>1, <1>2, FramesInvariant, PTL DEF Spec, Lives!Spec, LivesAsPromised
=============================================================================
