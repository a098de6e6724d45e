------------------------------ MODULE TimeQueue ------------------------------
(***************************************************************************)
(* src/src/timequeue.c: the queue of everything the server has promised to *)
(* run later. The program that calls in is arbitrary: every function of    *)
(* the file that a primitive, a command or the main loop may call is an    *)
(* action, and a process is only its pid: suspended in a DELAY or READ     *)
(* node, or running, or elsewhere. What frames and MUF events add is the   *)
(* subject of MufProcess.                                                  *)
(*                                                                         *)
(* The server has one thread. Between two steps of a pass (RunHead) or     *)
(* inside handle_read_event() the program that was resumed runs: the calls *)
(* it makes are the other actions.                                         *)
(***************************************************************************)
EXTENDS TimeNodes

CONSTANTS
    Addrs,                  \* addresses of struct timenode
    NoAddr,                 \* the NULL pointer
    Players,
    Wizards,                \* players add_event() exempts from their quota
    Pids,                   \* process numbers
    UidOf,                  \* the player each process runs for
    Ids,                    \* timer names a program may use
    NoId,
    Trunc32,                \* a name cut to 32 characters, as a timer is stored
    Trunc30,                \* a name cut to 30 characters, as it is looked up
    MaxDelay,               \* bound on a sleep or timer, in seconds
    RunLimit,               \* nodes one pass may run: 10 in the code
    MaxDrift,               \* bound on how far process_count may fall below 0
    KillCommands,           \* the @kill forms users type: some of "pid", "all"
    tp_max_process_limit,
    tp_max_plyr_processes,
    tp_process_timer_limit

ASSUME AddrsAssumption == NoAddr \notin Addrs
ASSUME PlayersAssumption == UidOf \in [Pids -> Players] /\ Wizards \subseteq Players
ASSUME IdsAssumption == /\ NoId \notin Ids
                        /\ Trunc32 \in [Ids -> Ids]
                        /\ Trunc30 \in [Ids -> Ids]
ASSUME BoundsAssumption ==
    /\ MaxDelay \in Nat /\ RunLimit \in Nat \ {0} /\ MaxDrift \in Nat
    /\ tp_max_process_limit \in Nat
    /\ tp_max_plyr_processes \in Nat
    /\ tp_process_timer_limit \in Nat

VARIABLES
    tq,             \* the list at tqhead
    process_count,
    readmode,       \* INTERACTIVE | READMODE of each player, set together
    left,           \* next_timequeue_event()'s maxruns, NoPass outside it
    last,           \* its lastevent
    reader,         \* handle_read_event()'s player and saved ptr
    loose,          \* history: the pass counted READs or lost a node
    fault           \* a freed node has been read: nothing is promised any more

vars == <<tq, process_count, readmode, left, last, reader, loose, fault>>

Node == [addr : Addrs, sub : Subtypes, when : 0 .. MaxDelay,
         uid : Players, pid : Pids, id : Ids \cup {NoId}]

NoPass == -1
NoReader == [uid |-> NoAddr, ptr |-> NoAddr]
ReaderState == {NoReader} \cup [uid : Players, ptr : Addrs \cup {NoAddr}]

TypeOK ==
    /\ tq \in Seq(Node)
    /\ process_count \in Int
    /\ readmode \in [Players -> BOOLEAN]
    /\ left \in 0 .. RunLimit - 1 \cup {NoPass}
    /\ last \in Addrs \cup {NoAddr}
    /\ reader \in ReaderState
    /\ loose \in BOOLEAN
    /\ fault \in BOOLEAN

Init ==
    /\ tq = << >>
    /\ process_count = 0
    /\ readmode = [p \in Players |-> FALSE]
    /\ left = NoPass
    /\ last = NoAddr
    /\ reader = NoReader
    /\ loose = FALSE
    /\ fault = FALSE

-----------------------------------------------------------------------------
InPass == left # NoPass
Reading == reader # NoReader

Suspended(p) == \E n \in NodesOf(tq) : n.pid = p /\ HoldsProcess(n)
HasFrame(p) == \A n \in NodesOf(tq) : n.pid = p => n.sub \in {"DELAY", "READ", "TIMER"}
Known(p) == \E n \in NodesOf(tq) : n.pid = p

\* What it is to be running: a program that can make calls.
MayRun(p) == HasFrame(p) /\ ~ Suspended(p)

Readers(nodes) == {n.uid : n \in {m \in nodes : IsRead(m)}}

(* Slips, see TimeNodes.                                                   *)

\* The flags of a player whose READ is freed stay set.
FlagsKept(gone, kept) == [p \in Players |-> p \in Readers(kept) \/ readmode[p]]

\* A removal counts once, however many nodes it frees.
UnlinkCountsOnce(gone, cost) ==
    /\ tq' = Without(tq, gone)
    /\ process_count' = process_count - cost - (IF gone = {} THEN 0 ELSE 1)
    /\ loose' = (loose \/ (InPass /\ gone # {}))

-----------------------------------------------------------------------------
(* free_timenode() of a READ node clears the player's flags; the dequeue   *)
(* functions then walk the list and set them again for the READs left.     *)
FlagsAfter(gone, kept) ==
    [p \in Players |-> \/ p \in Readers(kept)
                       \/ readmode[p] /\ p \notin Readers(gone)]

(* Unlink and free the nodes of gone, counting each once, and cost more    *)
(* for the decrements that have no node.                                   *)
Unlink(gone, cost) ==
    /\ tq' = Without(tq, gone)
    /\ process_count' = process_count - (Len(tq) - Len(Without(tq, gone))) - cost
    /\ loose' = (loose \/ (InPass /\ gone # {}))

-----------------------------------------------------------------------------
Tick ==
    /\ ~ fault
    /\ \E n \in NodesOf(tq) : n.when > 0
    /\ tq' = Older(tq)
    /\ UNCHANGED <<process_count, readmode, left, last, reader, loose, fault>>

(* add_muf_read_event() and the first branch of add_event(): no limit, at  *)
(* the tail.                                                               *)
AddRead(p, a) ==
    /\ ~ fault
    /\ MayRun(p)
    /\ a \in Addrs \ AddrsOf(tq)
    /\ tq' = Append(tq, [addr |-> a, sub |-> "READ", when |-> 0,
                         uid |-> UidOf[p], pid |-> p, id |-> NoId])
    /\ process_count' = process_count + 1
    /\ readmode' = [readmode EXCEPT ![UidOf[p]] = TRUE]
    /\ UNCHANGED <<left, last, reader, loose, fault>>

TableFull(u, q, count) ==
    \/ count > tp_max_process_limit
    \/ /\ u \notin Wizards
       /\ Cardinality({i \in 1 .. Len(q) : q[i].uid = u}) > tp_max_plyr_processes

(* add_event() for everything that is not a READ. A full table costs a     *)
(* process its frame, and prog_clean() its timers.                         *)
AddEvent(p, sub, d, a) ==
    /\ ~ fault
    /\ IF sub = "DELAY" THEN MayRun(p) ELSE ~ Known(p)
    /\ a \in Addrs \ AddrsOf(tq)
    /\ IF TableFull(UidOf[p], tq, process_count)
       THEN Unlink(TimersOf(tq, p), 0)
       ELSE /\ tq' = InsertNode(tq, [addr |-> a, sub |-> sub, when |-> d,
                                     uid |-> UidOf[p], pid |-> p, id |-> NoId])
            /\ process_count' = process_count + 1
            /\ UNCHANGED loose
    /\ UNCHANGED <<readmode, left, last, reader, fault>>

-----------------------------------------------------------------------------
(* prim_timer_start(): the running program's timer of that name is         *)
(* dequeued, then the new one is added under the name the code stores.     *)
TimerStart(p, d, id, a) ==
    LET old == {n \in TimersOf(tq, p) : n.id = Trunc30[id]}
        q   == Without(tq, old)
        n   == [addr |-> a, sub |-> "TIMER", when |-> d,
                uid |-> UidOf[p], pid |-> p, id |-> Trunc32[id]]
        count == process_count - (Len(tq) - Len(q))
    IN  /\ ~ fault /\ MayRun(p)
        /\ Cardinality(TimersOf(tq, p)) <= tp_process_timer_limit
        /\ a \in Addrs \ AddrsOf(q)
        /\ IF TableFull(UidOf[p], q, count)
           THEN Unlink(TimersOf(tq, p), 0)
           ELSE /\ tq' = InsertNode(q, n)
                /\ process_count' = count + 1
                /\ loose' = (loose \/ (InPass /\ old # {}))
        /\ UNCHANGED <<readmode, left, last, reader, fault>>

\* prim_timer_stop()
TimerStop(p, id) ==
    /\ ~ fault
    /\ MayRun(p)
    /\ Unlink({n \in TimersOf(tq, p) : n.id = Trunc30[id]}, 0)
    /\ UNCHANGED <<readmode, left, last, reader, fault>>

\* The running program ends: prog_clean() drops its timers.
ProcessExit(p) ==
    /\ ~ fault
    /\ MayRun(p)
    /\ TimersOf(tq, p) # {}
    /\ Unlink(TimersOf(tq, p), 0)
    /\ UNCHANGED <<readmode, left, last, reader, fault>>

-----------------------------------------------------------------------------
(* dequeue_process(): kill one process. Freeing a DELAY node cleans the    *)
(* frame, which unlinks and frees the frame's timers; when the DELAY is at *)
(* the head, the loop has already saved its successor. waiting: the        *)
(* process is (also) in the EVENT_WAIT list, which costs a decrement;      *)
(* @kill costs another.                                                    *)
SavedNodeFreed(p) ==
    \E i \in 1 .. Len(tq) - 1 :
        /\ \A j \in 1 .. i : tq[j].pid = p
        /\ HoldsProcess(tq[i])
        /\ tq[i + 1].pid = p

DequeueProcess(p, waiting, command) ==
    LET gone == {n \in NodesOf(tq) : n.pid = p}
        cost == (IF waiting THEN 1 ELSE 0) + (IF command THEN 1 ELSE 0)
    IN  /\ ~ fault
        /\ waiting => MayRun(p)
        /\ waiting \/ gone # {}
        /\ command => "pid" \in KillCommands
        /\ process_count - Cardinality(gone) - cost >= - MaxDrift
        /\ Unlink(gone, cost)
        /\ readmode' = FlagsAfter(gone, NodesOf(tq) \ gone)
        /\ fault' = SavedNodeFreed(p)
        /\ UNCHANGED <<left, last, reader>>

(* dequeue_prog(): every node that runs the program, has it on its frame's *)
(* call stack or runs for the player; which nodes match is arbitrary here, *)
(* and a TIMER may match alone: it keeps the program that started it. The  *)
(* timers of a process that loses its frame go with it; one of them may be *)
(* the node the second loop goes on from.                                  *)
FreedWith(matching) ==
    LET ended == {n.pid : n \in {m \in matching : HoldsProcess(m)}}
    IN  {n \in NodesOf(tq) : \/ n \in matching
                             \/ n.sub = "TIMER" /\ n.pid \in ended}

GoesOnFromFreed(matching) ==
    \E i \in 1 .. Len(tq) :
        LET before == SubSeq(tq, 1, i - 1)
            stays  == Without(before, FreedWith(matching \cap NodesOf(before)))
        IN  /\ tq[i] \in matching /\ HoldsProcess(tq[i])
            /\ stays # << >>
            /\ Last(stays) \in TimersOf(tq, tq[i].pid)

DequeueProg(matching) ==
    LET gone == FreedWith(matching)
    IN  /\ ~ fault
        /\ matching # {}
        /\ Unlink(gone, 0)
        /\ readmode' = FlagsAfter(gone, NodesOf(tq) \ gone)
        /\ fault' = GoesOnFromFreed(matching)
        /\ UNCHANGED <<left, last, reader>>

(* do_dequeue("all"): the loop saves each node's successor before it frees *)
(* the node.                                                               *)
DequeueAll ==
    /\ ~ fault
    /\ "all" \in KillCommands
    /\ tq # << >>
    /\ Unlink(NodesOf(tq), 0)
    /\ readmode' = FlagsAfter(NodesOf(tq), {})
    /\ fault' = \E i \in 1 .. Len(tq) - 1 :
                    /\ HoldsProcess(tq[i])
                    /\ tq[i + 1] \in TimersOf(tq, tq[i].pid)
    /\ UNCHANGED <<left, last, reader>>

-----------------------------------------------------------------------------
(* next_timequeue_event(): note how many nodes are due, READs among them,  *)
(* and the first that is not, and run the head; then run on from the head  *)
(* until one of the two stops the loop. The program of a node runs after   *)
(* the step that takes the node off.                                       *)
TakeHead ==
    /\ tq' = Tail(tq)
    /\ process_count' = process_count - 1

BeginPass ==
    LET n == DueRun(tq, RunLimit)
    IN  /\ ~ fault /\ ~ InPass /\ ~ Reading
        /\ n > 0 /\ ~ IsRead(tq[1])
        /\ TakeHead
        /\ left' = n - 1
        /\ last' = IF n < Len(tq) THEN tq[n + 1].addr ELSE NoAddr
        /\ loose' = \E i \in 1 .. n : IsRead(tq[i])
        /\ UNCHANGED <<readmode, reader, fault>>

PassGoesOn == /\ tq # << >> /\ left > 0
              /\ tq[1].addr # last
              /\ ~ IsRead(tq[1])

RunHead ==
    /\ ~ fault
    /\ InPass /\ PassGoesOn
    /\ TakeHead
    /\ left' = left - 1
    /\ UNCHANGED <<readmode, last, reader, loose, fault>>

EndPass ==
    /\ ~ fault
    /\ InPass /\ ~ PassGoesOn
    /\ left' = NoPass
    /\ last' = NoAddr
    /\ loose' = FALSE
    /\ UNCHANGED <<tq, process_count, readmode, reader, fault>>

-----------------------------------------------------------------------------
FirstRead(u) ==
    CHOOSE i \in 1 .. Len(tq) :
        /\ IsRead(tq[i]) /\ tq[i].uid = u
        /\ \A j \in 1 .. i - 1 : ~ (IsRead(tq[j]) /\ tq[j].uid = u)

(* handle_read_event(): a line of input for a player in READ mode. The     *)
(* flags are cleared and the player's first READ is unlinked; dies: the    *)
(* program's stack is full or the line is @Q, and the frame is cleaned.    *)
HandleRead(u, dies) ==
    /\ ~ fault
    /\ ~ InPass /\ ~ Reading
    /\ readmode[u]
    /\ readmode' = [readmode EXCEPT ![u] = FALSE]
    /\ IF u \notin Readers(NodesOf(tq))
       THEN UNCHANGED <<tq, process_count, reader, loose>>
       ELSE LET i == FirstRead(u)
            IN  /\ Unlink({tq[i]} \cup
                          IF dies THEN TimersOf(tq, tq[i].pid) ELSE {}, 0)
                /\ reader' = IF dies THEN NoReader
                             ELSE [uid |-> u,
                                   ptr |-> IF i < Len(tq) THEN tq[i + 1].addr
                                           ELSE NoAddr]
    /\ UNCHANGED <<left, last, fault>>

(* The program gave the thread back: look for other READs of the player    *)
(* from the node saved before it ran. If that node was freed meanwhile the *)
(* walk reads freed memory.                                                *)
HandleReadEnds ==
    /\ ~ fault
    /\ Reading
    /\ LET from == {i \in 1 .. Len(tq) : tq[i].addr = reader.ptr}
       IN  /\ fault' = (reader.ptr # NoAddr /\ from = {})
           /\ readmode' = [readmode EXCEPT ![reader.uid] =
                @ \/ \E i \in from : \E j \in i .. Len(tq) :
                        IsRead(tq[j]) /\ tq[j].uid = reader.uid]
    /\ reader' = NoReader
    /\ UNCHANGED <<tq, process_count, left, last, loose>>

-----------------------------------------------------------------------------
ProgramStep ==
    \E p \in Pids :
        \/ \E a \in Addrs : AddRead(p, a)
        \/ \E a \in Addrs, d \in 0 .. MaxDelay :
              \/ \E sub \in {"QUEUE", "MPI", "DELAY"} : AddEvent(p, sub, d, a)
              \/ \E id \in Ids : TimerStart(p, d, id, a)
        \/ \E id \in Ids : TimerStop(p, id)
        \/ ProcessExit(p)

Kill ==
    \/ \E p \in Pids, waiting, command \in BOOLEAN : DequeueProcess(p, waiting, command)
    \/ \E matching \in SUBSET NodesOf(tq) : DequeueProg(matching)
    \/ DequeueAll

Pass == BeginPass \/ RunHead \/ EndPass

ReadLine == (\E u \in Players, dies \in BOOLEAN : HandleRead(u, dies)) \/ HandleReadEnds

Next == Tick \/ ProgramStep \/ Kill \/ Pass \/ ReadLine

Spec == Init /\ [][Next]_vars

(* Every turn of the main loop (shovechars()) starts a pass, whatever      *)
(* lines of input it handles after it: strong fairness. The interpreter    *)
(* stops every program after a slice of instructions, so a pass goes on    *)
(* and a line of input is done with; and the clock goes on.                *)
Fairness == /\ SF_vars(BeginPass)
            /\ WF_vars(RunHead \/ EndPass)
            /\ WF_vars(HandleReadEnds)
            /\ WF_vars(Tick)

FairSpec == Spec /\ Fairness
-----------------------------------------------------------------------------
(***************************************************************************)
(* What the queue promises.                                                *)
(***************************************************************************)

\* The list is in the order of the times, and no READ stands before a node
\* that can run: next_timequeue_event() looks only at the head, so one node
\* out of place would hold back every other (add_event()'s walk, 252-275).
QueueOrder == InOrder(tq)

\* process_count never exceeds the nodes there are: add_event() does not
\* refuse a process for a table that is not full.
CountWithinQueue == process_count <= Len(tq)

\* A player in READ mode has a program waiting for his line: in READ mode
\* without one every line he types would be swallowed (handle_read_event()).
NoGhostReader == \A u \in Players : readmode[u] => u \in Readers(NodesOf(tq))

\* First come, first served: a node keeps its place before the nodes that
\* were behind it, and a new one goes behind all that are due no later
\* (a timer may be rescheduled, which is a new node at an old address).
SameNode(n, m) == n.addr = m.addr /\ n.sub = m.sub /\ n.pid = m.pid
NoOvertaking ==
    [][\A i, j \in 1 .. Len(tq') :
          (i < j /\ tq'[j].sub \notin {"TIMER", "READ"}
                 /\ \E m \in NodesOf(tq) : SameNode(m, tq'[j]))
          => \/ tq'[i].when < tq'[j].when
             \/ \E k, l \in 1 .. Len(tq) :
                   /\ k < l
                   /\ SameNode(tq[k], tq'[i]) /\ SameNode(tq[l], tq'[j])]_vars

\* A pass that counted no READ and saw no node removed runs no node before
\* its time: resumed programs may queue what they like meanwhile, the count
\* taken at the start still bounds the pass (next_timequeue_event(), 542-548).
OnTimeUnlessLoose ==
    [][(BeginPass \/ RunHead) /\ ~ loose' => tq[1].when = 0]_vars

\* A sleeping or queued process that is due is run or killed, however many
\* are queued behind it and whatever they do (a timer may be put off for ever
\* by the program that restarts it, a READ waits for its player).
Due(a) == \E n \in NodesOf(tq) : /\ n.addr = a /\ n.when = 0
                                 /\ n.sub \notin {"READ", "TIMER"}
DueRuns == \A a \in Addrs : Due(a) ~> (fault \/ ~ Due(a))

\* KILL and @kill by number drop the process they name and read no node that
\* they have freed.
KillsAreClean ==
    [][(\E p \in Pids, waiting, command \in BOOLEAN : DequeueProcess(p, waiting, command))
          => ~ fault']_vars
=============================================================================
