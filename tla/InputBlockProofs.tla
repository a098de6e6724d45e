--------------------------- MODULE InputBlockProofs ---------------------------
(***************************************************************************)
(* Proofs about InputBlock, for every set of processes, whatever they want *)
(* to read, call and type: the player is blocked by his foreground program *)
(* and by nothing else, he has one at a time, and @Q frees him.            *)
(***************************************************************************)
EXTENDS InputBlock, ListsProofs

USE PidsAssumption

-----------------------------------------------------------------------------
(* The inductive invariant. The order of the READ nodes matters for none   *)
(* of it: they are the set Readers, without repetition.                    *)

Readers == ToSet(reading)

SetsTyped ==
    /\ online \in BOOLEAN /\ block \in BOOLEAN /\ readmode \in BOOLEAN /\ loose \in BOOLEAN
    /\ used \subseteq Pids
    /\ queued \subseteq used /\ delayed \subseteq used /\ waiting \subseteq used
    /\ Readers \subseteq used \ bg
    /\ running \in used \cup {NoPid}
    /\ bg \subseteq been /\ been \subseteq used /\ writeonly \subseteq used
    /\ mute \in BOOLEAN /\ restoring \in BOOLEAN /\ saved \in BOOLEAN /\ hearing \in BOOLEAN

InputTyped == input \in Seq(Lines) /\ (~ online => input = << >>)

ReadersTyped == reading \in Seq(Pids) /\ Distinct(reading)

\* A process is in one place.
Apart ==
    /\ queued \cap delayed = {} /\ queued \cap waiting = {} /\ delayed \cap waiting = {}
    /\ Readers \cap (queued \cup delayed \cup waiting) = {}
    /\ running \notin queued \cup delayed \cup waiting \cup Readers

\* PLAYER_BLOCK is put back after a program that has been in the background.
RestoresAfterBackground == restoring => running \in been /\ (block => saved)

\* While somebody reads, lines are for him; handle_read_event() looks again
\* when the program it resumed gives the thread back.
LinesAreForReaders ==
    /\ hearing => ~ Idle
    /\ (~ loose /\ ~ hearing /\ Readers # {}) => readmode
    /\ readmode => Readers # {}

\* What will be put back is right as long as nobody changed it.
SavedIsRight == (~ loose /\ restoring /\ saved = block) => FlagIsRight

OneOfThem == ~ loose => \A p, q \in InForeground : p = q

Core == /\ SetsTyped /\ Apart /\ RestoresAfterBackground /\ LinesAreForReaders
        /\ SavedIsRight /\ BlockedByForeground /\ OneOfThem

InputInv == InputTyped /\ ReadersTyped /\ Core

\* A step that leaves the input and the READ nodes alone.
Elsewhere == UNCHANGED <<online, input, reading>>

LEMMA ElsewhereKeeps ==
    ASSUME InputInv, Elsewhere, Core'
    PROVE  InputInv'
BY Zenon DEF InputInv, InputTyped, ReadersTyped, Elsewhere

LEMMA ReadersSame ==
    ASSUME Elsewhere
    PROVE  Readers' = Readers
BY Zenon DEF Elsewhere, Readers

LEMMA NoReaders ==
    ASSUME ReadersTyped
    PROVE  reading = << >> <=> Readers = {}
BY SetOfSequence DEF ReadersTyped, Readers

LEMMA NoReadersNext ==
    ASSUME ReadersTyped'
    PROVE  reading' = << >> <=> Readers' = {}
BY SetOfSequence DEF ReadersTyped, Readers

-----------------------------------------------------------------------------
(* The running program gives the thread back.                              *)

\* When it has not been in the background, no other program is in the foreground.
LEMMA AloneInForeground ==
    ASSUME Core, NEW p \in Pids, Runs(p), p \notin been, ~ loose
    PROVE  Waiting = {}
<1>1. p \in InForeground
  BY DEF Runs, InForeground
<1>2. \A q \in Waiting : q \in InForeground
  BY DEF Waiting, InForeground
<1>3. \A q \in Waiting : q # p
  BY DEF Core, Apart, Runs, Waiting
<1> QED BY <1>1, <1>2, <1>3 DEF Core, OneOfThem

\* Where it goes: to D in the time queue, W in the events or R to read.
Goes(p, D, W, R) ==
    /\ delayed' = delayed \cup D /\ waiting' = waiting \cup W /\ Readers' = Readers \cup R
    /\ D \cup W \cup R \subseteq {p}
    /\ D \cap W = {} /\ D \cap R = {} /\ W \cap R = {}
    /\ R # {} => p \notin bg
    /\ UNCHANGED <<online, used, queued, modes>>

LEMMA GoesWaiting ==
    ASSUME Core, NEW p \in Pids, Runs(p), ~ loose, p \notin been,
           NEW D, NEW W, NEW R, Goes(p, D, W, R)
    PROVE  Waiting' = D \cup W
<1>1. Waiting = {}
  BY AloneInForeground
<1> QED BY <1>1 DEF Waiting, Goes, modes

LEMMA LeavesKeeps ==
    ASSUME Core, NEW p \in Pids, Runs(p),
           NEW D, NEW W, NEW R, Goes(p, D, W, R),
           NEW blocked \in BOOLEAN, NEW rm \in BOOLEAN, NEW other \in BOOLEAN,
           Leaves(blocked, rm, other), reading' # << >> <=> Readers' # {},
           IF R = {} THEN rm = readmode ELSE rm,
           p \notin been /\ ~ other => (blocked <=> D \cup W # {})
    PROVE  Core'
<1>1. Idle' /\ ~ restoring' /\ ~ hearing' /\ running = p
  BY DEF Leaves, Idle, Runs
<1>2. SetsTyped'
  BY <1>1 DEF Core, SetsTyped, Goes, Leaves, Meddled, FlagIsRight, Idle, modes
<1>3. Apart'
  BY <1>1, PidsAssumption DEF Core, SetsTyped, Apart, Goes, Idle, modes
<1>4. LinesAreForReaders'
  <2>1. readmode' <=> (rm \/ (hearing /\ Readers' # {}))
    BY DEF Leaves
  <2>2. CASE R = {}
    <3>1. Readers' = Readers
      BY <2>2 DEF Goes
    <3>2. loose => loose'
      BY DEF Leaves, Meddled, Core, SetsTyped
    <3> QED BY <1>1, <2>1, <2>2, <3>1, <3>2 DEF Core, LinesAreForReaders
  <2>3. CASE R # {}
    <3>1. Readers' # {}
      BY <2>3 DEF Goes
    <3> QED BY <1>1, <2>1, <2>3, <3>1 DEF LinesAreForReaders
  <2> QED BY <2>2, <2>3
<1>5. ASSUME ~ loose'
      PROVE  FlagIsRight'
  <2>1. /\ ~ loose
        /\ ~ FlagIsRight' => ~ other /\ (p \in been => restoring /\ saved = block)
    BY <1>1, <1>5 DEF Leaves, Meddled, Core, SetsTyped
  <2>2. CASE p \in been /\ ~ FlagIsRight'
    <3>1. restoring /\ saved = block /\ block' = block
      BY <2>1, <2>2 DEF Leaves
    <3>2. FlagIsRight
      BY <2>1, <3>1 DEF Core, SavedIsRight
    <3>3. Waiting' = Waiting
      BY <2>2 DEF Goes, Waiting, modes
    <3> QED BY <3>1, <3>2, <3>3 DEF FlagIsRight
  <2>3. CASE p \notin been /\ ~ FlagIsRight'
    <3>1. ~ restoring
      BY <1>1, <2>3 DEF Core, RestoresAfterBackground
    <3>2. block' = blocked
      BY <3>1 DEF Leaves
    <3>3. Waiting' = D \cup W
      BY <2>1, <2>3, GoesWaiting
    <3> QED BY <2>1, <2>3, <3>2, <3>3 DEF FlagIsRight
  <2> QED BY <2>2, <2>3
<1>6. OneOfThem'
  <2>1. InForeground' \subseteq InForeground
    BY <1>1 DEF InForeground, Goes, Readers, Idle, modes, Core, SetsTyped
  <2>2. loose => loose'
    BY DEF Leaves, Meddled, Core, SetsTyped
  <2> QED BY <2>1, <2>2 DEF Core, OneOfThem
<1> QED BY <1>1, <1>2, <1>3, <1>4, <1>5, <1>6
       DEF Core, RestoresAfterBackground, SavedIsRight, BlockedByForeground

LEMMA ExitKeeps ==
    ASSUME InputInv, NEW p \in Pids, Exit(p)
    PROVE  InputInv'
<1>1. /\ Core /\ Elsewhere /\ ReadersTyped /\ reading' = reading /\ Runs(p)
      /\ Leaves(FALSE, readmode, FALSE)
  BY DEF InputInv, Elsewhere, Exit, places
<1>2. Readers' = Readers /\ (reading' # << >> <=> Readers' # {})
  BY <1>1, ReadersSame, NoReaders
<1>3. PICK D, W \in {{}, {p}} : D = {} /\ W = {}
  OBVIOUS
<1>4. Goes(p, D, W, {})
  BY <1>1, <1>2, <1>3 DEF Goes, Exit, places
<1>5. Core'
  <2>1. readmode \in BOOLEAN
    BY <1>1 DEF Core, SetsTyped
  <2>2. FALSE \in BOOLEAN
    OBVIOUS
  <2>3. p \notin been /\ ~ FALSE => (FALSE <=> D \cup W # {})
    BY <1>3
  <2>4. IF {} = {} THEN readmode = readmode ELSE readmode
    OBVIOUS
  <2> QED BY <1>1, <1>2, <1>4, <2>1, <2>2, <2>3, <2>4, LeavesKeeps, Zenon
<1> QED BY <1>1, <1>5, ElsewhereKeeps

LEMMA SleepKeeps ==
    ASSUME InputInv, NEW p \in Pids, NEW full \in BOOLEAN, Sleep(p, full)
    PROVE  InputInv'
<1>1. /\ Core /\ Elsewhere /\ ReadersTyped /\ reading' = reading /\ Runs(p)
      /\ Leaves(Sleeps(p), readmode, full)
  BY DEF InputInv, Elsewhere, Sleep
<1>2. Readers' = Readers /\ (reading' # << >> <=> Readers' # {})
  BY <1>1, ReadersSame, NoReaders
<1>3. PICK D, W \in {{}, {p}} : D = (IF full THEN {} ELSE {p}) /\ W = {}
  OBVIOUS
<1>4. Goes(p, D, W, {})
  BY <1>1, <1>2, <1>3 DEF Goes, Sleep
<1>5. Core'
  <2>1. readmode \in BOOLEAN
    BY <1>1 DEF Core, SetsTyped
  <2>2. Sleeps(p) \in BOOLEAN
    BY DEF Sleeps, AfterSlice
  <2>3. p \notin been /\ ~ full => (Sleeps(p) <=> D \cup W # {})
    BY <1>3 DEF Sleeps, AfterSlice
  <2>4. IF {} = {} THEN readmode = readmode ELSE readmode
    OBVIOUS
  <2> QED BY <1>1, <1>2, <1>4, <2>1, <2>2, <2>3, <2>4, LeavesKeeps, Zenon
<1> QED BY <1>1, <1>5, ElsewhereKeeps

LEMMA SliceKeeps ==
    ASSUME InputInv, NEW p \in Pids, NEW full \in BOOLEAN, Slice(p, full)
    PROVE  InputInv'
<1>1. /\ Core /\ Elsewhere /\ ReadersTyped /\ reading' = reading /\ Runs(p)
      /\ Leaves(AfterSlice(p, full), readmode, FALSE)
  BY DEF InputInv, Elsewhere, Slice
<1>2. Readers' = Readers /\ (reading' # << >> <=> Readers' # {})
  BY <1>1, ReadersSame, NoReaders
<1>3. PICK D, W \in {{}, {p}} : D = (IF full THEN {} ELSE {p}) /\ W = {}
  OBVIOUS
<1>4. Goes(p, D, W, {})
  BY <1>1, <1>2, <1>3 DEF Goes, Slice
<1>5. Core'
  <2>1. readmode \in BOOLEAN
    BY <1>1 DEF Core, SetsTyped
  <2>2. AfterSlice(p, full) \in BOOLEAN
    BY DEF Sleeps, AfterSlice
  <2>3. p \notin been /\ ~ FALSE => (AfterSlice(p, full) <=> D \cup W # {})
    BY <1>3 DEF Sleeps, AfterSlice
  <2>4. IF {} = {} THEN readmode = readmode ELSE readmode
    OBVIOUS
  <2> QED BY <1>1, <1>2, <1>4, <2>1, <2>2, <2>3, <2>4, LeavesKeeps, Zenon
<1> QED BY <1>1, <1>5, ElsewhereKeeps

LEMMA EventWaitKeeps ==
    ASSUME InputInv, NEW p \in Pids, EventWait(p)
    PROVE  InputInv'
<1>1. /\ Core /\ Elsewhere /\ ReadersTyped /\ reading' = reading /\ Runs(p)
      /\ Leaves(Sleeps(p), readmode, FALSE)
  BY DEF InputInv, Elsewhere, EventWait
<1>2. Readers' = Readers /\ (reading' # << >> <=> Readers' # {})
  BY <1>1, ReadersSame, NoReaders
<1>3. PICK D, W \in {{}, {p}} : D = {} /\ W = {p}
  OBVIOUS
<1>4. Goes(p, D, W, {})
  BY <1>1, <1>2, <1>3 DEF Goes, EventWait
<1>5. Core'
  <2>1. readmode \in BOOLEAN
    BY <1>1 DEF Core, SetsTyped
  <2>2. Sleeps(p) \in BOOLEAN
    BY DEF Sleeps, AfterSlice
  <2>3. p \notin been /\ ~ FALSE => (Sleeps(p) <=> D \cup W # {})
    BY <1>3 DEF Sleeps, AfterSlice
  <2>4. IF {} = {} THEN readmode = readmode ELSE readmode
    OBVIOUS
  <2> QED BY <1>1, <1>2, <1>4, <2>1, <2>2, <2>3, <2>4, LeavesKeeps, Zenon
<1> QED BY <1>1, <1>5, ElsewhereKeeps

LEMMA ReadKeeps ==
    ASSUME InputInv, NEW p \in Pids, Read(p)
    PROVE  InputInv'
<1>1. Core /\ InputTyped /\ ReadersTyped /\ Runs(p) /\ Leaves(FALSE, TRUE, FALSE)
  BY DEF InputInv, Read, BlockAtRead
<1>2. p \notin Readers /\ UNCHANGED <<online, input>> /\ reading' = Append(reading, p)
  BY <1>1 DEF Core, Apart, Read, Runs
<1>3. ReadersTyped' /\ Readers' = Readers \cup {p}
  BY <1>1, <1>2, AppendSet DEF ReadersTyped, Readers
<1>4. reading' # << >> <=> Readers' # {}
  BY <1>3, NoReadersNext
<1>5. Goes(p, {}, {}, {p})
  BY <1>3 DEF Goes, Read, MayRead
<1>6. Core'
  <2>1. p \notin been /\ ~ FALSE => (FALSE <=> {} \cup {} # {})
    OBVIOUS
  <2>2. IF {p} = {} THEN TRUE = readmode ELSE TRUE
    OBVIOUS
  <2>3. FALSE \in BOOLEAN /\ TRUE \in BOOLEAN
    OBVIOUS
  <2> QED BY <1>1, <1>4, <1>5, <2>1, <2>2, <2>3, LeavesKeeps, Zenon
<1>7. InputTyped'
  BY <1>1, <1>2, Zenon DEF InputTyped
<1> QED BY <1>3, <1>6, <1>7 DEF InputInv

-----------------------------------------------------------------------------
(* Calls of the running program.                                           *)

LEMMA BackgroundKeeps ==
    ASSUME InputInv, NEW p \in Pids, Background(p)
    PROVE  InputInv'
<1>1. Core /\ Elsewhere
  BY DEF InputInv, Elsewhere, Background, Runs, flags, places, modes, caller
<1>2. Readers' = Readers
  BY <1>1, ReadersSame
<1>3. Core'
  BY <1>1, <1>2 DEF Core, SetsTyped, Apart, RestoresAfterBackground, LinesAreForReaders,
       SavedIsRight, BlockedByForeground, OneOfThem, InForeground, Waiting, FlagIsRight,
       Readers, Idle,
       Background, Runs, flags, places, modes, caller
<1> QED BY <1>1, <1>3, ElsewhereKeeps

LEMMA PreemptKeeps ==
    ASSUME InputInv, NEW p \in Pids, Preempt(p)
    PROVE  InputInv'
<1>1. Core /\ Elsewhere
  BY DEF InputInv, Elsewhere, Preempt, Runs, flags, places, modes, caller
<1>2. Readers' = Readers
  BY <1>1, ReadersSame
<1>3. Core'
  BY <1>1, <1>2 DEF Core, SetsTyped, Apart, RestoresAfterBackground, LinesAreForReaders,
       SavedIsRight, BlockedByForeground, OneOfThem, InForeground, Waiting, FlagIsRight,
       Readers, Idle,
       Preempt, Runs, flags, places, modes, caller
<1> QED BY <1>1, <1>3, ElsewhereKeeps

LEMMA QueueKeeps ==
    ASSUME InputInv, NEW child \in Pids, Queue(child)
    PROVE  InputInv'
<1>1. Core /\ Elsewhere
  BY DEF InputInv, Elsewhere, Queue, Fresh, flags, places, modes, caller
<1>2. Readers' = Readers
  BY <1>1, ReadersSame
<1>3. Core'
  BY <1>1, <1>2 DEF Core, SetsTyped, Apart, RestoresAfterBackground, LinesAreForReaders,
       SavedIsRight, BlockedByForeground, OneOfThem, InForeground, Waiting, FlagIsRight,
       Readers, Idle,
       Queue, Fresh, flags, places, modes, caller
<1> QED BY <1>1, <1>3, ElsewhereKeeps

LEMMA ForkKeeps ==
    ASSUME InputInv, NEW p \in Pids, NEW child \in Pids, Fork(p, child)
    PROVE  InputInv'
<1>1. Core /\ Elsewhere
  BY DEF InputInv, Elsewhere, Fork, Fresh, Runs, flags, places, modes, caller
<1>2. Readers' = Readers
  BY <1>1, ReadersSame
<1>3. Core'
  BY <1>1, <1>2 DEF Core, SetsTyped, Apart, RestoresAfterBackground, LinesAreForReaders,
       SavedIsRight, BlockedByForeground, OneOfThem, InForeground, Waiting, FlagIsRight,
       Readers, Idle,
       Fork, Fresh, Runs, flags, places, modes, caller
<1> QED BY <1>1, <1>3, ElsewhereKeeps

-----------------------------------------------------------------------------
(* Kills, @Q and the end of the last connection.                           *)

LEMMA RemovedReaders ==
    ASSUME ReadersTyped, NEW S, Removed(S)
    PROVE  /\ ReadersTyped' /\ Readers' = Readers \ S
           /\ reading' # << >> <=> Readers' # {}
<1>1. reading' = Without(reading, S)
  BY Zenon DEF Removed
<1>2. ReadersTyped' /\ Readers' = Readers \ S
  BY <1>1, WithoutSet DEF ReadersTyped, Readers
<1> QED BY <1>2, NoReadersNext

LEMMA KillKeeps ==
    ASSUME InputInv, NEW q \in Pids, Kill(q)
    PROVE  InputInv'
<1>1. Core /\ InputTyped /\ ReadersTyped /\ UNCHANGED <<online, input>>
  BY DEF InputInv, Kill
<1>2. ReadersTyped' /\ Readers' = Readers \ {q} /\ (reading' # << >> <=> Readers' # {})
  BY <1>1, RemovedReaders DEF Kill
<1>3. /\ queued' = queued \ {q} /\ delayed' = delayed \ {q} /\ waiting' = waiting \ {q}
      /\ readmode' = (Readers' # {} \/ (readmode /\ q \notin Readers))
      /\ block' = (block /\ ~ Clears({q}))
      /\ q # running /\ q \in queued \cup delayed \cup waiting \cup Readers
      /\ loose' = (loose \/ ((Idle /\ q \in been) /\ ~ FlagIsRight'))
      /\ UNCHANGED <<online, used, running, modes, caller>>
  BY <1>2 DEF Kill, Removed, Meddled, Readers
<1>4. Clears({q}) <=> (q \in (delayed \cup Readers) \ bg \/ q \in waiting \ been)
  BY DEF Clears, Readers
<1>5. SetsTyped'
  BY <1>1, <1>2, <1>3 DEF Core, SetsTyped, modes, caller
<1>6. Apart' /\ RestoresAfterBackground' /\ LinesAreForReaders'
  BY <1>1, <1>2, <1>3 DEF Core, SetsTyped, Apart, RestoresAfterBackground, LinesAreForReaders,
     Idle, modes, caller
<1>7. OneOfThem'
  BY <1>1, <1>2, <1>3 DEF Core, OneOfThem, InForeground, Readers, modes
<1>8. Idle => ~ restoring
  BY <1>1 DEF Core, SetsTyped, RestoresAfterBackground, Idle
<1>9. Waiting' = Waiting \ {q}
  BY <1>3 DEF Waiting, modes
<1>10. q \in Waiting => Clears({q})
  BY <1>1, <1>4 DEF Waiting, Core, SetsTyped
<1>11. ASSUME q \notin been, ~ loose, FlagIsRight
       PROVE  FlagIsRight'
  <2>1. CASE q \in Waiting
    <3>1. Waiting \ {q} = {}
      BY <1>1, <1>11, <2>1 DEF Core, OneOfThem, InForeground, Waiting
    <3> QED BY <1>3, <1>9, <1>10, <2>1, <3>1 DEF FlagIsRight
  <2>2. CASE q \in Readers
    <3>1. Waiting = {}
      <4>1. q \in InForeground /\ \A r \in Waiting : r \in InForeground
        BY <1>11, <2>2 DEF InForeground, Waiting, Readers
      <4>2. \A r \in Waiting : r # q
        BY <1>1, <2>2 DEF Core, Apart, Waiting
      <4> QED BY <1>1, <1>11, <4>1, <4>2 DEF Core, OneOfThem
    <3> QED BY <1>3, <1>9, <1>11, <3>1 DEF FlagIsRight
  <2>3. CASE q \in queued
    <3>1. ~ Clears({q}) /\ q \notin Waiting
      BY <1>1, <1>4, <2>3 DEF Core, Apart, Waiting
    <3>2. block \in BOOLEAN
      BY <1>1 DEF Core, SetsTyped
    <3> QED BY <1>3, <1>9, <1>11, <3>1, <3>2 DEF FlagIsRight
  <2> QED BY <1>3, <1>11, <2>1, <2>2, <2>3 DEF Waiting
<1>12. BlockedByForeground'
  <2>1. loose \in BOOLEAN /\ (Idle' => Idle)
    BY <1>1, <1>3 DEF Core, SetsTyped, Idle
  <2> QED BY <1>1, <1>3, <1>11, <2>1 DEF Core, BlockedByForeground
<1>13. SavedIsRight'
  <2>1. SUFFICES ASSUME ~ loose', restoring', saved' = block'
                 PROVE  FlagIsRight'
    BY DEF SavedIsRight
  <2>2. ~ loose /\ restoring /\ saved = block' /\ (block => saved) /\ block \in BOOLEAN
    BY <1>1, <1>3, <2>1 DEF Core, SetsTyped, RestoresAfterBackground, caller
  <2>3. saved = block /\ block' = block
    BY <1>3, <2>2 DEF Core, SetsTyped
  <2>4. FlagIsRight
    BY <1>1, <2>2, <2>3 DEF Core, SavedIsRight
  <2>5. CASE q \in been
    <3>1. Waiting' = Waiting
      BY <1>9, <2>5 DEF Waiting
    <3> QED BY <2>3, <2>4, <3>1 DEF FlagIsRight
  <2> QED BY <1>11, <2>2, <2>4, <2>5
<1>14. InputTyped'
  BY <1>1, Zenon DEF InputTyped
<1> QED BY <1>2, <1>5, <1>6, <1>7, <1>12, <1>13, <1>14 DEF InputInv, Core

\* Nobody in the foreground is left.
LEMMA AbortedProperties ==
    ASSUME Core, ReadersTyped, Removed(Aborted)
    PROVE  /\ queued' = queued \cap bg /\ delayed' = delayed \cap bg /\ waiting' = waiting \cap bg
           /\ ReadersTyped' /\ Readers' = {} /\ reading' = << >>
           /\ readmode' = (readmode /\ Readers = {})
<1>1. /\ ReadersTyped' /\ Readers' = Readers \ Aborted
      /\ reading' # << >> <=> Readers' # {}
  BY RemovedReaders
<1>2. Aborted = (queued \cup delayed \cup waiting \cup Readers) \ bg
  BY Zenon DEF Aborted, Readers
<1>3. Readers \subseteq Aborted
  BY <1>2 DEF Core, SetsTyped
<1>4. Readers' = {} /\ reading' = << >>
  BY <1>1, <1>3
<1>5. /\ queued' = queued \ Aborted /\ delayed' = delayed \ Aborted /\ waiting' = waiting \ Aborted
      /\ readmode' = (reading' # << >> \/ (readmode /\ Aborted \cap Readers = {}))
  BY Zenon DEF Removed, Readers
<1>6. Aborted \cap Readers = Readers
  BY <1>3
<1> QED BY <1>1, <1>2, <1>4, <1>5, <1>6

\* @Q: whatever was wrong before, nobody in the foreground is left.
LEMMA BreakKeeps ==
    ASSUME InputInv, Break
    PROVE  InputInv' /\ InForeground' = {} /\ ~ block' /\ ~ readmode'
<1>1. /\ Core /\ InputTyped /\ ReadersTyped /\ Removed(Aborted)
      /\ running = NoPid /\ input # << >> /\ input' = Tail(input)
      /\ block' = FALSE /\ loose' = FALSE
      /\ UNCHANGED <<online, used, running, modes, caller>>
  BY DEF InputInv, Break, LineIs, Idle, NextLine
<1>2. /\ queued' = queued \cap bg /\ delayed' = delayed \cap bg /\ waiting' = waiting \cap bg
      /\ ReadersTyped' /\ Readers' = {} /\ reading' = << >>
      /\ readmode' = (readmode /\ Readers = {})
  BY <1>1, AbortedProperties
<1>3. readmode' = FALSE
  BY <1>1, <1>2 DEF Core, LinesAreForReaders
<1>4. Waiting' = {} /\ InForeground' = {}
  BY <1>1, <1>2 DEF Core, SetsTyped, Waiting, InForeground, Readers, modes
<1>5. SetsTyped'
  BY <1>1, <1>2, <1>3 DEF Core, SetsTyped, modes, caller
<1>6. Apart' /\ RestoresAfterBackground' /\ LinesAreForReaders'
  BY <1>1, <1>2, <1>3 DEF Core, SetsTyped, Apart, RestoresAfterBackground,
     LinesAreForReaders, Idle, modes, caller
<1>7. FlagIsRight' /\ OneOfThem'
  BY <1>1, <1>4 DEF FlagIsRight, OneOfThem
<1>8. InputTyped'
  <2>1. online' /\ input \in Seq(Lines)
    BY <1>1 DEF InputTyped
  <2>2. Tail(input) \in Seq(Lines)
    BY <1>1, <2>1
  <2> QED BY <1>1, <2>1, <2>2, Zenon DEF InputTyped
<1> QED BY <1>1, <1>2, <1>3, <1>4, <1>5, <1>6, <1>7, <1>8
       DEF InputInv, Core, SavedIsRight, BlockedByForeground

LEMMA ConnectKeeps ==
    ASSUME InputInv, Connect
    PROVE  InputInv'
<1>1. Core /\ InputTyped /\ ReadersTyped /\ reading' = reading /\ input' = input /\ online' = TRUE
  BY DEF InputInv, Connect, places
<1>2. Readers' = Readers /\ ReadersTyped'
  BY <1>1 DEF Readers, ReadersTyped
<1>3. /\ running = NoPid /\ block' = FALSE /\ loose' = (loose \/ ~ FlagIsRight')
      /\ UNCHANGED <<readmode, used, queued, delayed, waiting, running, modes, caller>>
  BY DEF Connect, Meddled, Idle, places
<1>4. SetsTyped'
  BY <1>1, <1>2, <1>3 DEF Core, SetsTyped, modes, caller
<1>5. loose => loose'
  BY <1>1, <1>3 DEF Core, SetsTyped
<1>6. Apart' /\ RestoresAfterBackground' /\ LinesAreForReaders'
  BY <1>1, <1>2, <1>3, <1>5 DEF Core, SetsTyped, Apart, RestoresAfterBackground,
     LinesAreForReaders, Idle, modes, caller
<1>7. BlockedByForeground' /\ SavedIsRight'
  BY <1>3 DEF BlockedByForeground, SavedIsRight
<1>8. OneOfThem'
  <2>1. InForeground' = InForeground
    BY <1>2, <1>3 DEF InForeground, Readers, modes
  <2> QED BY <1>1, <1>5, <2>1 DEF Core, OneOfThem
<1>9. InputTyped'
  BY <1>1, Zenon DEF InputTyped
<1> QED BY <1>2, <1>4, <1>6, <1>7, <1>8, <1>9 DEF InputInv, Core

\* The last connection takes the programs in the foreground with it, and with
\* them the flag.
LEMMA DisconnectKeeps ==
    ASSUME InputInv, NEW last \in BOOLEAN, Disconnect(last)
    PROVE  InputInv'
<1>1. /\ Core /\ InputTyped /\ ReadersTyped /\ running = NoPid
      /\ online' = ~ last /\ input' = << >>
      /\ UNCHANGED <<loose, used, running, modes, caller>>
  BY DEF InputInv, Disconnect, Idle
<1>2. InputTyped'
  <2>1. << >> \in Seq(Lines)
    OBVIOUS
  <2> QED BY <1>1, <2>1, Zenon DEF InputTyped
<1>3. CASE ~ last
  <2>1. UNCHANGED <<block, readmode, queued, delayed, reading, waiting>>
    BY <1>3 DEF Disconnect, places
  <2>2. Readers' = Readers /\ ReadersTyped'
    BY <1>1, <2>1 DEF Readers, ReadersTyped
  <2>3. Core'
    BY <1>1, <1>3, <2>1, <2>2 DEF Core, SetsTyped, Apart, RestoresAfterBackground,
       LinesAreForReaders, SavedIsRight, BlockedByForeground, OneOfThem, InForeground,
       Waiting, FlagIsRight, Readers, Idle, modes, caller
  <2> QED BY <1>2, <2>2, <2>3 DEF InputInv
<1>4. CASE last
  <2>1. Removed(Aborted) /\ block' = (block /\ ~ Clears(Aborted))
    BY <1>4 DEF Disconnect
  <2>2. /\ queued' = queued \cap bg /\ delayed' = delayed \cap bg /\ waiting' = waiting \cap bg
        /\ ReadersTyped' /\ Readers' = {} /\ reading' = << >>
        /\ readmode' = (readmode /\ Readers = {})
    BY <1>1, <2>1, AbortedProperties
  <2>3. readmode' = FALSE
    BY <1>1, <2>2 DEF Core, LinesAreForReaders
  <2>4. Waiting' = {} /\ InForeground' = {}
    BY <1>1, <2>2 DEF Core, SetsTyped, Waiting, InForeground, Readers, modes
  <2>5. SetsTyped'
    BY <1>1, <1>4, <2>1, <2>2, <2>3 DEF Core, SetsTyped, modes, caller
  <2>6. Apart' /\ RestoresAfterBackground' /\ LinesAreForReaders'
    BY <1>1, <2>2, <2>3 DEF Core, SetsTyped, Apart, RestoresAfterBackground,
       LinesAreForReaders, Idle, modes, caller
  <2>7. ~ restoring'
    BY <1>1 DEF Core, SetsTyped, RestoresAfterBackground, caller
  <2>8. ASSUME ~ loose'
        PROVE  FlagIsRight'
    <3>1. block = (Waiting # {})
      BY <1>1, <2>8 DEF Core, BlockedByForeground, Idle, FlagIsRight
    <3>2. CASE Waiting # {}
      <4>1. PICK p \in Waiting : TRUE
        BY <3>2
      <4>2. p \in Aborted /\ (p \in delayed \ bg \/ p \in waiting \ been)
        BY <1>1, <4>1 DEF Core, SetsTyped, Waiting, Aborted
      <4>3. Clears(Aborted)
        BY <4>2 DEF Clears
      <4> QED BY <2>1, <2>4, <4>3 DEF FlagIsRight
    <3> QED BY <2>1, <2>4, <3>1, <3>2 DEF FlagIsRight
  <2>9. OneOfThem'
    BY <2>4 DEF OneOfThem
  <2> QED BY <1>2, <2>2, <2>5, <2>6, <2>7, <2>8, <2>9
         DEF InputInv, Core, SavedIsRight, BlockedByForeground
<1> QED BY <1>3, <1>4

-----------------------------------------------------------------------------
(* The passes.                                                             *)

LEMMA RunQueuedKeeps ==
    ASSUME InputInv, NEW p \in Pids, NEW allowed \in BOOLEAN, NEW wo \in BOOLEAN,
           RunQueued(p, allowed, wo)
    PROVE  InputInv'
<1>1. Core /\ Elsewhere /\ running = NoPid
  BY DEF InputInv, Elsewhere, RunQueued, Resumes, Idle
<1>2. Readers' = Readers
  BY <1>1, ReadersSame
<1>3. /\ p \in queued /\ queued' = queued \ {p}
      /\ UNCHANGED <<block, readmode, loose, used, delayed, waiting>>
  BY DEF RunQueued, Resumes, flags
<1>4. CASE allowed
  <2>1. /\ running' = p /\ ~ restoring' /\ ~ saved' /\ ~ hearing' /\ mute' \in BOOLEAN
        /\ restoring' \in BOOLEAN /\ saved' \in BOOLEAN /\ hearing' \in BOOLEAN
        /\ bg' = bg \cup {p} /\ been' = been \cup {p}
        /\ writeonly' \in {writeonly, writeonly \cup {p}}
    BY <1>4 DEF RunQueued, Resumes
  <2>2. SetsTyped'
    <3>1. p \notin Readers
      BY <1>1, <1>3 DEF Core, Apart
    <3>2. p \in used /\ Readers' \subseteq used' \ bg'
      BY <1>1, <1>2, <1>3, <2>1, <3>1 DEF Core, SetsTyped
    <3>3. writeonly' \subseteq used'
      BY <1>1, <1>3, <2>1, <3>2 DEF Core, SetsTyped
    <3> QED BY <1>1, <1>3, <2>1, <3>2, <3>3 DEF Core, SetsTyped, Elsewhere
  <2>3. Apart'
    BY <1>1, <1>2, <1>3, <2>1 DEF Core, SetsTyped, Apart
  <2>4. Waiting' = Waiting
    BY <1>1, <1>3, <2>1 DEF Core, Apart, Waiting
  <2>5. InForeground' \subseteq InForeground
    BY <1>1, <1>2, <1>3, <2>1 DEF InForeground, Readers
  <2>6. ~ Idle' /\ ~ hearing
    BY <1>1, <1>3, <2>1 DEF Idle, Core, LinesAreForReaders, SetsTyped
  <2> QED BY <1>1, <1>2, <1>3, <2>1, <2>2, <2>3, <2>4, <2>5, <2>6, ElsewhereKeeps
          DEF Core, RestoresAfterBackground, LinesAreForReaders, SavedIsRight,
              BlockedByForeground, OneOfThem, FlagIsRight
<1>5. CASE ~ allowed
  <2>1. UNCHANGED <<running, modes, caller>>
    BY <1>5 DEF RunQueued
  <2>2. Core'
    BY <1>1, <1>2, <1>3, <2>1 DEF Core, SetsTyped, Apart, RestoresAfterBackground,
       LinesAreForReaders, SavedIsRight, BlockedByForeground, OneOfThem, InForeground,
       Waiting, FlagIsRight, Readers, Idle, Elsewhere, modes, caller
  <2> QED BY <1>1, <2>2, ElsewhereKeeps
<1> QED BY <1>4, <1>5

\* A program is taken from where it slept or waited; if it has been in the
\* background PLAYER_BLOCK is right, and will be put back.
LEMMA ResumesKeeps ==
    ASSUME InputInv, NEW p \in Pids, Idle, Resumes(p, p \in bg), mute' \in BOOLEAN,
           UNCHANGED <<queued, reading, modes>>,
           \/ p \in delayed /\ delayed' = delayed \ {p} /\ waiting' = waiting
           \/ p \in waiting /\ waiting' = waiting \ {p} /\ delayed' = delayed
    PROVE  InputInv'
<1>1. Core /\ Elsewhere /\ running = NoPid
  BY DEF InputInv, Elsewhere, Resumes, Idle
<1>2. Readers' = Readers
  BY <1>1, ReadersSame
<1>3. /\ running' = p /\ restoring' = (p \in bg) /\ saved' = (p \in bg /\ block) /\ ~ hearing'
      /\ hearing' \in BOOLEAN
      /\ UNCHANGED <<online, block, readmode, loose, used, bg, been, writeonly>>
  BY DEF Resumes, flags, modes
<1>4. SetsTyped'
  BY <1>1, <1>2, <1>3 DEF Core, SetsTyped
<1>5. Apart'
  BY <1>1, <1>2, <1>3 DEF Core, SetsTyped, Apart
<1>6. RestoresAfterBackground'
  BY <1>1, <1>3 DEF Core, SetsTyped, RestoresAfterBackground
<1>7. ~ Idle' /\ ~ hearing
  BY <1>1, <1>3 DEF Idle, Core, LinesAreForReaders, SetsTyped
<1>8. LinesAreForReaders'
  BY <1>1, <1>2, <1>3, <1>7 DEF Core, LinesAreForReaders
<1>9. SavedIsRight'
  <2>1. SUFFICES ASSUME ~ loose', restoring'
                 PROVE  FlagIsRight'
    BY DEF SavedIsRight
  <2>2. Waiting' = Waiting
    BY <1>1, <1>3, <2>1 DEF Waiting, Core, SetsTyped
  <2>3. FlagIsRight
    BY <1>1, <1>3, <2>1 DEF Core, BlockedByForeground, Idle
  <2> QED BY <1>3, <2>2, <2>3 DEF FlagIsRight
<1>10. OneOfThem'
  <2>1. InForeground' \subseteq InForeground
    BY <1>1, <1>2, <1>3 DEF InForeground, Readers
  <2> QED BY <1>1, <1>3, <2>1 DEF Core, OneOfThem
<1> QED BY <1>1, <1>4, <1>5, <1>6, <1>7, <1>8, <1>9, <1>10, ElsewhereKeeps
       DEF Core, BlockedByForeground

LEMMA ResumeDelayedKeeps ==
    ASSUME InputInv, NEW p \in Pids, ResumeDelayed(p)
    PROVE  InputInv'
BY ResumesKeeps DEF ResumeDelayed

LEMMA EventKeeps ==
    ASSUME InputInv, NEW p \in Pids, NEW dies \in BOOLEAN, Event(p, dies)
    PROVE  InputInv'
<1>1. CASE ~ dies
  BY <1>1, ResumesKeeps DEF Event
<1>2. CASE dies
  <2>1. Core /\ Elsewhere
    BY <1>2 DEF InputInv, Elsewhere, Event
  <2>2. Readers' = Readers
    BY <2>1, ReadersSame
  <2>3. /\ waiting' = waiting \ {p} /\ loose' = (loose \/ ~ FlagIsRight') /\ Idle
        /\ UNCHANGED <<online, block, readmode, used, queued, delayed, running, modes, caller>>
    BY <1>2 DEF Event, Meddled
  <2>4. SetsTyped'
    BY <2>1, <2>2, <2>3 DEF Core, SetsTyped, modes, caller
  <2>5. Apart'
    BY <2>1, <2>2, <2>3 DEF Core, SetsTyped, Apart
  <2>6. loose => loose'
    BY <2>1, <2>3 DEF Core, SetsTyped
  <2>7. InForeground' \subseteq InForeground
    BY <2>2, <2>3 DEF InForeground, Readers, modes
  <2>8. LinesAreForReaders' /\ RestoresAfterBackground' /\ OneOfThem'
    BY <2>1, <2>2, <2>3, <2>6, <2>7
       DEF Core, RestoresAfterBackground, LinesAreForReaders, OneOfThem, Idle, modes, caller
  <2>9. SavedIsRight' /\ BlockedByForeground'
    BY <2>3 DEF SavedIsRight, BlockedByForeground
  <2> QED BY <2>1, <2>4, <2>5, <2>8, <2>9, ElsewhereKeeps DEF Core
<1> QED BY <1>1, <1>2

-----------------------------------------------------------------------------
(* The player's lines.                                                     *)

\* A step that leaves the programs alone.
LEMMA InputOnlyKeeps ==
    ASSUME InputInv, InputTyped', UNCHANGED <<online, flags, places, modes, caller>>,
           UNCHANGED <<used, running>>
    PROVE  InputInv'
<1>1. Core /\ ReadersTyped /\ UNCHANGED <<online, block, readmode, loose, queued, delayed, reading,
          waiting, bg, been, writeonly, restoring, saved, hearing, mute, used, running>>
  BY DEF InputInv, flags, places, modes, caller
<1>2. Readers' = Readers /\ ReadersTyped'
  BY <1>1, Zenon DEF Readers, ReadersTyped
<1>3. Core'
  BY <1>1, <1>2 DEF Core, SetsTyped, Apart, RestoresAfterBackground,
     LinesAreForReaders, SavedIsRight, BlockedByForeground, OneOfThem, InForeground,
     Waiting, FlagIsRight, Readers, Idle
<1> QED BY <1>2, <1>3 DEF InputInv

LEMMA NextLineTyped ==
    ASSUME InputTyped, input # << >>, NextLine, online' = online
    PROVE  InputTyped'
<1>1. online' /\ input \in Seq(Lines)
  BY DEF InputTyped
<1>2. Tail(input) \in Seq(Lines)
  BY <1>1
<1> QED BY <1>1, <1>2, Zenon DEF InputTyped, NextLine

LEMMA TypeKeeps ==
    ASSUME InputInv, NEW l \in Lines, Type(l)
    PROVE  InputInv'
<1>1. online /\ online' = online /\ input' = Append(input, l) /\ input \in Seq(Lines)
  BY DEF Type, InputInv, InputTyped
<1>2. Append(input, l) \in Seq(Lines)
  BY <1>1
<1>3. InputTyped'
  BY <1>1, <1>2, Zenon DEF InputTyped
<1> QED BY <1>3, InputOnlyKeeps DEF Type

LEMMA BuiltinKeeps ==
    ASSUME InputInv, Builtin \/ DropBlank
    PROVE  InputInv'
<1>1. InputTyped'
  BY NextLineTyped DEF InputInv, Builtin, DropBlank, Free, LineIs
<1> QED BY <1>1, InputOnlyKeeps DEF Builtin, DropBlank

\* Nobody is in the foreground when a command is taken.
LEMMA CommandKeeps ==
    ASSUME InputInv, NEW p \in Pids, Command(p)
    PROVE  InputInv'
<1>1. /\ Core /\ ReadersTyped /\ Idle /\ ~ block /\ ~ readmode /\ p \in Pids \ used
      /\ used' = used \cup {p} /\ running' = p
      /\ UNCHANGED <<online, block, readmode, loose, queued, delayed, reading,
          waiting, bg, been, writeonly, restoring, saved, hearing, mute>>
  BY DEF InputInv, Command, Free, LineIs, Fresh, flags, places, modes, caller
<1>2. InputTyped'
  BY NextLineTyped DEF InputInv, Command, Free, LineIs
<1>3. Readers' = Readers /\ ReadersTyped'
  BY <1>1, Zenon DEF Readers, ReadersTyped
<1>4. SetsTyped' /\ Apart'
  BY <1>1, <1>3 DEF Core, SetsTyped, Apart
<1>5. ~ Idle' /\ ~ hearing /\ ~ restoring
  BY <1>1 DEF Core, SetsTyped, RestoresAfterBackground, LinesAreForReaders, Idle
<1>6. RestoresAfterBackground' /\ LinesAreForReaders' /\ SavedIsRight' /\ BlockedByForeground'
  BY <1>1, <1>3, <1>5 DEF Core, RestoresAfterBackground, LinesAreForReaders, SavedIsRight,
     BlockedByForeground
<1>7. OneOfThem'
  <2>1. SUFFICES ASSUME ~ loose
                 PROVE  \A q \in InForeground' : q = p
    BY <1>1 DEF OneOfThem
  <2>2. Readers = {} /\ Waiting = {}
    BY <1>1, <1>5, <2>1 DEF Core, LinesAreForReaders, BlockedByForeground, FlagIsRight
  <2> QED BY <1>1, <1>3, <2>2 DEF InForeground, Readers, Waiting
<1> QED BY <1>2, <1>3, <1>4, <1>6, <1>7 DEF InputInv, Core

\* The first to read gets the line.
LEMMA LineKeeps ==
    ASSUME InputInv, NEW l \in Lines, NEW dies \in BOOLEAN, Line(l, dies)
    PROVE  InputInv'
<1>1. /\ Core /\ ReadersTyped /\ Idle /\ ~ block /\ readmode /\ reading # << >>
      /\ readmode' = FALSE /\ reading' = Tail(reading)
      /\ UNCHANGED <<online, block, used, queued, delayed, waiting, bg, been, writeonly,
          restoring, saved>>
  BY DEF InputInv, Line, LineIs, modes
<1>2. InputTyped'
  BY NextLineTyped DEF InputInv, Line, LineIs
<1>3. /\ ReadersTyped' /\ Head(reading) \in Readers
      /\ Readers' = Readers \ {Head(reading)}
  BY <1>1, TailSet DEF ReadersTyped, Readers
<1>4. reading' # << >> <=> Readers' # {}
  BY <1>3, NoReadersNext
<1>5. PICK r \in Readers : r = Head(reading)
  BY <1>3
<1>6. Readers' = Readers \ {r}
  BY <1>3, <1>5
<1>7. ~ hearing /\ ~ restoring /\ running = NoPid
  BY <1>1 DEF Core, SetsTyped, RestoresAfterBackground, LinesAreForReaders, Idle
<1>8. CASE ~ dies
  <2>1. running' = r /\ hearing' = TRUE /\ mute' \in BOOLEAN /\ loose' = loose
    BY <1>5, <1>8 DEF Line
  <2>2. SetsTyped' /\ Apart'
    BY <1>1, <1>6, <2>1 DEF Core, SetsTyped, Apart
  <2>3. ~ Idle'
    BY <1>1, <2>1 DEF Core, SetsTyped, Idle
  <2>4. InForeground' \subseteq InForeground
    BY <1>1, <1>6, <2>1 DEF InForeground, Readers
  <2> QED BY <1>1, <1>2, <1>3, <1>7, <2>1, <2>2, <2>3, <2>4
          DEF InputInv, Core, RestoresAfterBackground, LinesAreForReaders, SavedIsRight,
              BlockedByForeground, OneOfThem
<1>9. CASE dies
  <2>1. UNCHANGED <<running, hearing, mute>> /\ loose' = (loose \/ Readers' # {})
    BY <1>4, <1>9 DEF Line
  <2>2. SetsTyped' /\ Apart'
    BY <1>1, <1>6, <2>1 DEF Core, SetsTyped, Apart
  <2>3. InForeground' \subseteq InForeground
    BY <1>1, <1>6, <2>1 DEF InForeground, Readers
  <2>4. (loose => loose') /\ (~ loose' => ~ loose)
    BY <1>1, <2>1 DEF Core, SetsTyped
  <2>5. BlockedByForeground'
    BY <1>1, <2>1, <2>4 DEF Core, BlockedByForeground, FlagIsRight, Waiting, Idle
  <2> QED BY <1>1, <1>2, <1>3, <1>7, <2>1, <2>2, <2>3, <2>4, <2>5
          DEF InputInv, Core, RestoresAfterBackground, LinesAreForReaders, SavedIsRight, OneOfThem
<1> QED BY <1>8, <1>9

-----------------------------------------------------------------------------
(* The theorems.                                                           *)

LEMMA InitEstablishes ==
    ASSUME Init
    PROVE  InputInv
<1>1. << >> \in Seq(Lines) /\ << >> \in Seq(Pids) /\ Distinct(<< >>)
  BY DEF Distinct
<1>2. ReadersTyped /\ InputTyped
  BY <1>1, Zenon DEF Init, ReadersTyped, InputTyped
<1>3. Readers = {}
  BY <1>2, NoReaders DEF Init
<1>4. Core
  BY <1>3 DEF Init, Core, SetsTyped, Apart, RestoresAfterBackground,
     LinesAreForReaders, SavedIsRight, BlockedByForeground, OneOfThem, InForeground,
     Waiting, FlagIsRight, Readers, Idle
<1> QED BY <1>2, <1>4 DEF InputInv

LEMMA StutterKeeps ==
    ASSUME InputInv, UNCHANGED vars
    PROVE  InputInv'
<1>1. InputTyped'
  BY DEF InputInv, InputTyped, vars
<1> QED BY <1>1, InputOnlyKeeps DEF vars

LEMMA NextKeeps ==
    ASSUME InputInv, Next
    PROVE  InputInv'
<1>1. CASE Turn
  BY <1>1, RunQueuedKeeps, ResumeDelayedKeeps DEF Turn
<1>2. CASE Events
  BY <1>2, EventKeeps DEF Events, Fulls
<1>3. CASE Handle
  BY <1>3, CommandKeeps, LineKeeps, BuiltinKeeps, BreakKeeps DEF Handle, Fulls
<1>4. CASE Net
  BY <1>4, TypeKeeps, ConnectKeeps, DisconnectKeeps DEF Net
<1>5. ASSUME NEW p \in Pids, Leave(p)
      PROVE  InputInv'
  BY <1>5, ExitKeeps, SleepKeeps, SliceKeeps, ReadKeeps, EventWaitKeeps DEF Leave, Fulls
<1>6. ASSUME NEW p \in Pids, Call(p)
      PROVE  InputInv'
  BY <1>6, BackgroundKeeps, PreemptKeeps, ForkKeeps, QueueKeeps, KillKeeps DEF Call
<1> QED BY <1>1, <1>2, <1>3, <1>4, <1>5, <1>6 DEF Next

\* The player's flags, his lines and his programs fit together in every state.
THEOREM InputInvariant == Spec => []InputInv
<1>1. Init => InputInv
  BY InitEstablishes
<1>2. InputInv /\ [Next]_vars => InputInv'
  BY NextKeeps, StutterKeeps
<1> QED BY <1>1, <1>2, PTL DEF Spec

\* The flags, the places and the queue of readers keep their types; only
\* programs that are not in the background are queued to read.
THEOREM InputTypes == Spec => []TypeOK
<1>1. ASSUME InputInv
      PROVE  TypeOK
  <2>1. Core /\ ReadersTyped /\ InputTyped
    BY <1>1 DEF InputInv
  <2>2. ToSet(reading) \subseteq used \ bg
    BY <2>1 DEF Core, SetsTyped, Readers
  <2>3. reading \in Seq(used \ bg)
    BY <2>1, <2>2, SetOfSequence, Zenon DEF ReadersTyped
  <2>4. /\ online \in BOOLEAN /\ block \in BOOLEAN /\ readmode \in BOOLEAN
        /\ used \in SUBSET Pids
        /\ queued \in SUBSET used /\ delayed \in SUBSET used /\ waiting \in SUBSET used
        /\ running \in used \cup {NoPid}
        /\ bg \in SUBSET been /\ been \in SUBSET used /\ writeonly \in SUBSET used
        /\ mute \in BOOLEAN /\ restoring \in BOOLEAN /\ saved \in BOOLEAN /\ hearing \in BOOLEAN
        /\ loose \in BOOLEAN
    BY <2>1 DEF Core, SetsTyped
  <2> QED BY <2>1, <2>3, <2>4, Zenon DEF TypeOK, InputTyped
<1> QED BY <1>1, InputInvariant, PTL

\* interface.c, interp.c, timequeue.c and mufevent.c agree on PLAYER_BLOCK:
\* between two steps it is set when a foreground program of the player sleeps
\* or waits for an event, and clear otherwise.
THEOREM BlockedByHisOwn == Spec => []BlockedByForeground
<1>1. InputInv => BlockedByForeground
  BY DEF InputInv, Core
<1> QED BY <1>1, InputInvariant, PTL

\* No command or resumption gives the player a second foreground program.
THEOREM OneInForeground == Spec => []OneForeground
<1>1. ASSUME InputInv, ~ loose
      PROVE  Cardinality(InForeground) <= 1
  <2>1. CASE InForeground = {}
    BY <2>1, FS_EmptySet
  <2>2. CASE InForeground # {}
    <3>1. PICK p \in InForeground : TRUE
      BY <2>2
    <3>2. InForeground = {p}
      BY <1>1, <3>1 DEF InputInv, Core, OneOfThem
    <3> QED BY <3>2, FS_Singleton
  <2> QED BY <2>1, <2>2
<1>2. InputInv => OneForeground
  BY <1>1 DEF OneForeground
<1> QED BY <1>2, InputInvariant, PTL

\* do_command() on @Q frees the player in whatever state he is.
THEOREM BreakFreesAlways == Spec => BreakFrees
<1>1. ASSUME InputInv, Break
      PROVE  InForeground' = {} /\ ~ block' /\ ~ readmode'
  BY <1>1, BreakKeeps
<1>2. InputInv /\ [Next]_vars => [Break => InForeground' = {} /\ ~ block' /\ ~ readmode']_vars
  BY <1>1
<1> QED BY <1>2, InputInvariant, PTL DEF Spec, BreakFrees

=============================================================================
