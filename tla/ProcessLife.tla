----------------------------- MODULE ProcessLife -----------------------------
(***************************************************************************)
(* What the MUF scheduler promises of a process, whatever queues, lists    *)
(* and frames it keeps: one thread runs one program at a time, a program   *)
(* that gives the thread back goes on later or dies, and a process that is *)
(* dead, killed or at its end, never runs again. MufProcess implements it. *)
(***************************************************************************)
CONSTANT Pids

VARIABLE life

Stages == {"unborn", "queued", "running", "suspended", "dead"}

Init == life = [p \in Pids |-> "unborn"]

Nobody(stage) == \A p \in Pids : life[p] # stage

Turns(p, from, to) == life[p] = from /\ life' = [life EXCEPT ![p] = to]

\* A program is typed in, or queued for later.
Start(p) == Nobody("running") /\ Turns(p, "unborn", "running")
Queue(p) == Turns(p, "unborn", "queued")
RunQueued(p) == Nobody("running") /\ Turns(p, "queued", "running")

\* A copy of the running program.
Fork(p, child) == life[p] = "running" /\ Turns(child, "unborn", "suspended")

\* There was no room for it.
Stillborn(p) == Turns(p, "unborn", "dead")

Suspend(p) == Turns(p, "running", "suspended")
Resume(p) == Nobody("running") /\ Turns(p, "suspended", "running")

\* An end, a kill, or a kill of many at once.
Die(D) ==
    /\ \A p \in D : life[p] \in {"queued", "running", "suspended"}
    /\ life' = [p \in Pids |-> IF p \in D THEN "dead" ELSE life[p]]

Next ==
    \/ \E p \in Pids : \/ Start(p) \/ Queue(p) \/ RunQueued(p)
                       \/ Stillborn(p) \/ Suspend(p) \/ Resume(p)
                       \/ \E child \in Pids : Fork(p, child)
    \/ \E D \in SUBSET Pids : Die(D)

Spec == Init /\ [][Next]_life
=============================================================================
