------------------------------ MODULE TimeNodes ------------------------------
(***************************************************************************)
(* The list of struct timenode that src/src/timequeue.c keeps behind       *)
(* tqhead, as a sequence of records, and the operations on it that the     *)
(* components share: where add_event() puts a node, what a removal leaves, *)
(* how many nodes next_timequeue_event() finds due.                        *)
(*                                                                         *)
(* A node is a record with at least                                        *)
(*   addr  the address of the struct: what `lastevent' and saved pointers  *)
(*         are compared with                                               *)
(*   sub   the kind of event; the MPI kinds differ in how the message is   *)
(*         printed only and are one kind here                              *)
(*   when  seconds left before the node is due, 0 once it is due: the code *)
(*         keeps the absolute time, the order of the nodes is the same     *)
(*   uid   the player it runs for                                          *)
(*   pid   eventnum, the process the node belongs to                       *)
(*   id    the timer's name, or NoId                                       *)
(* A READ node is given the time "now - 1": it is due from the start.      *)
(***************************************************************************)
EXTENDS Integers, Sequences, FiniteSets, SequencesExt, Lists

Subtypes == {"QUEUE", "DELAY", "READ", "TIMER", "MPI"}

IsRead(n) == n.sub = "READ"

\* A process that sleeps or waits for a line is suspended in this node.
HoldsProcess(n) == n.sub \in {"DELAY", "READ"}

-----------------------------------------------------------------------------
(* Slips: what a plausible mistake would make of the operators named after *)
(* them. They show that the properties can fail; nothing uses them.        *)

\* A new node goes before those due at the same time.
StopsBeforeEqual(q, d, k) == \/ k = Len(q) + 1
                             \/ IsRead(q[k])
                             \/ d <= q[k].when

\* The walk does not stop at READ nodes.
StopsPastReads(q, d, k) == k = Len(q) + 1 \/ d < q[k].when

\* One node more than is due.
DueRunOneMore(q, limit) ==
    CHOOSE n \in 0 .. Len(q) :
        /\ n <= limit
        /\ \A i \in 1 .. n - 1 : q[i].when = 0
        /\ n < Len(q) /\ n < limit => n > 0 /\ q[n].when > 0

\* A pass runs all that is due, however much it is.
DueRunNoLimit(q, limit) ==
    CHOOSE n \in 0 .. Len(q) :
        /\ \A i \in 1 .. n : q[i].when = 0
        /\ n < Len(q) => q[n + 1].when > 0

-----------------------------------------------------------------------------
(* add_event(): the walk stops at the end of the list, at the first READ   *)
(* node, or at the first node that is due later than the new one.          *)
Stops(q, d, k) == \/ k = Len(q) + 1
                  \/ IsRead(q[k])
                  \/ d < q[k].when

InsertPos(q, d) ==
    CHOOSE k \in 1 .. Len(q) + 1 :
        Stops(q, d, k) /\ \A j \in 1 .. k - 1 : ~ Stops(q, d, j)

InsertNode(q, n) == InsertAt(q, InsertPos(q, n.when), n)

NodesOf(q) == {q[i] : i \in 1 .. Len(q)}

TimersOf(q, p) == {n \in NodesOf(q) : n.sub = "TIMER" /\ n.pid = p}

AddrsOf(q) == {n.addr : n \in NodesOf(q)}

(* next_timequeue_event(): how many nodes from the head on are due, at     *)
(* most limit.                                                             *)
DueRun(q, limit) ==
    CHOOSE n \in 0 .. Len(q) :
        /\ n <= limit
        /\ \A i \in 1 .. n : q[i].when = 0
        /\ n < Len(q) /\ n < limit => q[n + 1].when > 0

(* One second passes.                                                      *)
Older(q) == [i \in 1 .. Len(q) |->
                [q[i] EXCEPT !.when = IF @ = 0 THEN 0 ELSE @ - 1]]

(* The order add_event() keeps: by time, and the READs behind the rest.    *)
InOrder(q) ==
    \A i, j \in 1 .. Len(q) : i < j =>
        /\ IsRead(q[i]) => IsRead(q[j])
        /\ IsRead(q[j]) \/ q[i].when <= q[j].when

\* No struct is linked twice.
NoNodeTwice(q) == \A i, j \in 1 .. Len(q) : q[i].addr = q[j].addr => i = j
=============================================================================
