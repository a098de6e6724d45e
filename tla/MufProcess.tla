----------------------------- MODULE MufProcess -----------------------------
(***************************************************************************)
(* The life of MUF processes: src/src/mufevent.c (the list of processes in *)
(* EVENT_WAITFOR and the events of each frame), what interp.c does to a    *)
(* frame between two runs (start, suspend, resume, prog_clean()), and the  *)
(* primitives of p_misc.c that act on another process. TimeQueue has the   *)
(* order and the times of the list at tqhead; here a node is only the set  *)
(* its pid is in.                                                          *)
(*                                                                         *)
(* The server has one thread: next_timequeue_event() and                   *)
(* process_commands() act while nobody runs and no pass of                 *)
(* muf_event_process() is under way (Idle), a pass runs one program after  *)
(* the other, and the program that runs acts on the rest until it leaves.  *)
(* Where the code goes on with a frame that is in free_frames_list, the    *)
(* model stops: fault says how it got there.                               *)
(***************************************************************************)
EXTENDS Integers, Sequences, FiniteSets, SequencesExt, Lists

CONSTANTS
    Pids,
    NoPid,
    Programs,
    Users,          \* what a program runs as: players, and things
    Things,         \* the users that a program can recycle
    ProgOf,         \* the program and the user of each process
    UserOf,
    Filters,        \* the sets of events programs wait for; {}: any event
    Calls,          \* what the programs and the users of an instance do
    EventLimit,     \* processes one event pass may run: 10 in the code
    MaxEvents,      \* bound on the events a process has not read
    MaxWatch        \* bound on the times a process watches another

ASSUME PidsAssumption == NoPid \notin Pids
ASSUME OwnersAssumption == /\ ProgOf \in [Pids -> Programs]
                           /\ UserOf \in [Pids -> Users]
                           /\ Things \subseteq Users
                           /\ Programs \cap Users = {}
ASSUME LimitsAssumption == /\ EventLimit \in Nat \ {0}
                           /\ MaxEvents \in Nat /\ MaxWatch \in Nat

VARIABLES
    used,           \* pids given out: those below top_pid
    frames,         \* pids whose frame is not in free_frames_list
    queued,         \* pids of QUEUE nodes, which have no frame yet
    delayed,        \* pids of DELAY nodes
    reading,        \* pids of READ nodes
    timers,         \* pids of TIMER nodes, one for each process here
    waits,          \* the list at mufevent_processes
    at,             \* muf_event_process()'s proc, 0 outside a pass
    limit,          \* its limit
    running,        \* the pid interp_loop() runs
    events,         \* fr->events
    watchers,       \* how often a pid is in fr->waiters
    bg,             \* fr->multitask = BACKGROUND
    been,           \* fr->been_background
    fault           \* "none", or how a freed frame came to be used

vars == <<used, frames, queued, delayed, reading, timers, waits, at, limit,
          running, events, watchers, bg, been, fault>>

Events == {"USER", "READ", "TIMER"} \cup Pids   \* a pid: PROC.EXIT.<pid>

ASSUME FiltersAssumption == Filters \subseteq SUBSET Events

(* struct mufevent_process. "waiting": not deleted; "condemned": deleted   *)
(* while it still points to the frame; "spent": deleted, without frame.    *)
Entry == [pid : Pids, on : SUBSET Events, state : {"waiting", "condemned", "spent"}]

TypeOK ==
    /\ used \in SUBSET Pids
    /\ frames \in SUBSET used
    /\ queued \in SUBSET used
    /\ delayed \in SUBSET used
    /\ reading \in SUBSET used
    /\ timers \in SUBSET used
    /\ waits \in Seq(Entry)
    /\ at \in 0 .. Len(waits) + 1
    /\ limit \in 0 .. EventLimit
    /\ running \in used \cup {NoPid}
    /\ events \in [Pids -> Seq(Events)]
    /\ watchers \in [Pids -> [Pids -> Nat]]
    /\ bg \in SUBSET been
    /\ been \in SUBSET used
    /\ fault \in {"none", "recleaned", "stray", "runs freed"}

Nobody == [w \in Pids |-> 0]

Init ==
    /\ used = {} /\ frames = {}
    /\ queued = {} /\ delayed = {} /\ reading = {} /\ timers = {}
    /\ waits = << >> /\ at = 0 /\ limit = 0
    /\ running = NoPid
    /\ events = [p \in Pids |-> << >>]
    /\ watchers = [p \in Pids |-> Nobody]
    /\ bg = {} /\ been = {}
    /\ fault = "none"

-----------------------------------------------------------------------------
Sound == fault = "none"
Idle == Sound /\ running = NoPid /\ at = 0
Runs(p) == Sound /\ running = p /\ p # NoPid
Fresh(p) == p \in Pids \ used

Waits(p) == \E i \in 1 .. Len(waits) : waits[i].pid = p /\ waits[i].state = "waiting"
Condemned(p) == \E i \in 1 .. Len(waits) : waits[i].pid = p /\ waits[i].state = "condemned"

(* Slips: what a plausible mistake would make of the operators named after *)
(* them. They show that the properties can fail; nothing uses them.        *)

\* The event list is not searched, or its deleted entries are searched too.
FindableOnQueue(p) == p \in delayed \cup reading \cup timers
FindableThoughDeleted(p) == Waits(p) \/ Condemned(p) \/ p \in delayed \cup reading \cup timers

\* A process goes to the front of the list.
RegisterFirst(ws, p, on) == <<[pid |-> p, on |-> on, state |-> "waiting"]>> \o ws

\* The timers, the entry, the mark of deletion, the frame is forgotten.
TimersKept(gone) == timers
SpentNever(ws) == ws
CondemnNobody(S) == UNCHANGED waits
DoomedNobody == << >>

\* The walk is over when the limit is used up, and then only.
WalkUsesUpLimit == limit = 0

\* Nothing is done about a background process that waits for a line.
MailAsItIs(e) == events[e.pid]

-----------------------------------------------------------------------------
(* timequeue_pid_frame(): the frame a pid is found by. A running program   *)
(* is found by a TIMER of its own, or by the entry it was resumed from.    *)
Findable(p) == Waits(p) \/ p \in delayed \cup reading \cup timers

(* muf_event_register_specific() puts a process at the end of the list.    *)
Register(ws, p, on) == Append(ws, [pid |-> p, on |-> on, state |-> "waiting"])

(* dequeue_timers() as prog_clean() calls it.                              *)
TimersWithout(gone) == timers \ gone

(* watchpid_process(): the frames in order are cleaned; those who watched  *)
(* one of them and can be found are told.                                  *)
Notices(w, order) ==
    FlattenSeq([i \in 1 .. Len(order) |->
                   [j \in 1 .. watchers[order[i]][w] |-> order[i]]])

(* prog_clean() of the frames in order, but for the timers.                *)
Clean(order) ==
    LET gone == ToSet(order)
    IN  /\ frames' = frames \ gone
        /\ events' = [w \in Pids |->
                        IF w \in gone THEN << >>
                        ELSE IF Findable(w) THEN events[w] \o Notices(w, order)
                        ELSE events[w]]
        /\ watchers' = [p \in Pids |->
                          IF p \in gone THEN Nobody
                          ELSE IF Findable(p)
                               THEN [w \in Pids |-> IF w \in gone THEN 0 ELSE watchers[p][w]]
                               ELSE watchers[p]]

(* muf_event_process(): when the program it resumed gives the thread back, *)
(* the entry is without frame and deleted, and the walk goes on.           *)
Spent(ws) == IF at = 0 THEN ws ELSE [ws EXCEPT ![at].state = "spent"]

Leaves ==
    /\ running' = NoPid
    /\ at' = IF at = 0 THEN 0 ELSE at + 1

-----------------------------------------------------------------------------
(* Processes come to be.                                                   *)

\* A player runs a program: interp() and interp_loop().
Start(p) ==
    /\ Idle /\ Fresh(p)
    /\ used' = used \cup {p}
    /\ frames' = frames \cup {p}
    /\ running' = p
    /\ UNCHANGED <<queued, delayed, reading, timers, waits, at, limit, events,
                   watchers, bg, been, fault>>

\* QUEUE, a listener or a propqueue: a pid and a node, no frame.
Queue(p) ==
    /\ Sound /\ (Idle \/ running # NoPid)
    /\ Fresh(p)
    /\ used' = used \cup {p}
    /\ queued' = queued \cup {p}
    /\ UNCHANGED <<frames, delayed, reading, timers, waits, at, limit, running,
                   events, watchers, bg, been, fault>>

(* next_timequeue_event() on a QUEUE node: interp() with the node's pid,   *)
(* in the background; allowed: it does not refuse.                         *)
RunQueued(p, allowed) ==
    /\ Idle /\ p \in queued
    /\ queued' = queued \ {p}
    /\ IF allowed
       THEN /\ frames' = frames \cup {p}
            /\ running' = p
            /\ bg' = bg \cup {p}
            /\ been' = been \cup {p}
       ELSE UNCHANGED <<frames, running, bg, been>>
    /\ UNCHANGED <<used, delayed, reading, timers, waits, at, limit, events,
                   watchers, fault>>

(* prim_fork(): a copy of the frame in a DELAY node; full: the table is    *)
(* full, and add_event() has cleaned the copy.                             *)
Fork(p, child, full) ==
    /\ Runs(p) /\ Fresh(child)
    /\ used' = used \cup {child}
    /\ IF full
       THEN UNCHANGED <<frames, delayed, bg, been>>
       ELSE /\ frames' = frames \cup {child}
            /\ delayed' = delayed \cup {child}
            /\ bg' = bg \cup {child}
            /\ been' = been \cup {child}
    /\ UNCHANGED <<queued, reading, timers, waits, at, limit, running, events,
                   watchers, fault>>

-----------------------------------------------------------------------------
(* The running program gives the thread back.                              *)

\* It ends, is aborted, or kills itself.
Exit(p) ==
    /\ Runs(p)
    /\ Clean(<<p>>)
    /\ timers' = TimersWithout({p})
    /\ waits' = Spent(waits)
    /\ Leaves
    /\ UNCHANGED <<used, queued, delayed, reading, limit, bg, been, fault>>

\* SLEEP, or the end of the slice interp_loop() grants.
Sleep(p, full) ==
    IF full THEN Exit(p)
    ELSE /\ Runs(p)
         /\ delayed' = delayed \cup {p}
         /\ waits' = Spent(waits)
         /\ Leaves
         /\ UNCHANGED <<used, frames, queued, reading, timers, limit, events,
                        watchers, bg, been, fault>>

(* READ, which aborts a program in the background. So does fr->writeonly,  *)
(* as it was when the run began: that is Exit here, InputBlock has when.   *)
Read(p) ==
    /\ Runs(p) /\ p \notin bg
    /\ reading' = reading \cup {p}
    /\ waits' = Spent(waits)
    /\ Leaves
    /\ UNCHANGED <<used, frames, queued, delayed, timers, limit, events,
                   watchers, bg, been, fault>>

\* EVENT_WAITFOR
EventWait(p, on) ==
    /\ Runs(p)
    /\ waits' = Register(Spent(waits), p, on)
    /\ Leaves
    /\ UNCHANGED <<used, frames, queued, delayed, reading, timers, limit,
                   events, watchers, bg, been, fault>>

-----------------------------------------------------------------------------
(* Suspended processes go on.                                              *)

\* next_timequeue_event() on a DELAY node
ResumeDelayed(p) ==
    /\ Idle /\ p \in delayed
    /\ delayed' = delayed \ {p}
    /\ running' = p
    /\ UNCHANGED <<used, frames, queued, reading, timers, waits, at, limit,
                   events, watchers, bg, been, fault>>

\* Slip: the node of a program that dies stays in the queue.
LineKeepsNode(p, dies) ==
    /\ Idle /\ p \in reading
    /\ IF dies
       THEN /\ Clean(<<p>>)
            /\ timers' = TimersWithout({p})
            /\ UNCHANGED <<running, reading>>
       ELSE /\ running' = p
            /\ reading' = reading \ {p}
            /\ UNCHANGED <<frames, timers, events, watchers>>
    /\ UNCHANGED <<used, queued, delayed, waits, at, limit, bg, been, fault>>

(* handle_read_event(): a line for the program; dies: it is @Q, or the     *)
(* program's stack is full.                                                *)
Line(p, dies) ==
    /\ Idle /\ p \in reading
    /\ reading' = reading \ {p}
    /\ IF dies
       THEN /\ Clean(<<p>>)
            /\ timers' = TimersWithout({p})
            /\ UNCHANGED running
       ELSE /\ running' = p
            /\ UNCHANGED <<frames, timers, events, watchers>>
    /\ UNCHANGED <<used, queued, delayed, waits, at, limit, bg, been, fault>>

-----------------------------------------------------------------------------
(* Events are sent.                                                        *)

Tell(p, e) == events' = [events EXCEPT ![p] = Append(@, e)]
HasRoom(p) == Len(events[p]) < MaxEvents

\* prim_event_send()
SendEvent(p, q) ==
    /\ Runs(p)
    /\ q = p \/ Findable(q)
    /\ HasRoom(q)
    /\ Tell(q, "USER")
    /\ UNCHANGED <<used, frames, queued, delayed, reading, timers, waits, at,
                   limit, running, watchers, bg, been, fault>>

(* prim_timer_start(): a full table costs the program its frame, and it    *)
(* runs on.                                                                *)
TimerStart(p, full) ==
    /\ Runs(p)
    /\ IF full
       THEN fault' = "runs freed" /\ UNCHANGED timers
       ELSE timers' = timers \cup {p} /\ UNCHANGED fault
    /\ UNCHANGED <<used, frames, queued, delayed, reading, waits, at, limit,
                   running, events, watchers, bg, been>>

\* prim_timer_stop()
TimerStop(p) ==
    /\ Runs(p) /\ p \in timers
    /\ timers' = timers \ {p}
    /\ UNCHANGED <<used, frames, queued, delayed, reading, waits, at, limit,
                   running, events, watchers, bg, been, fault>>

\* next_timequeue_event() on a TIMER node
TimerDue(p) ==
    /\ Idle /\ p \in timers /\ HasRoom(p)
    /\ timers' = timers \ {p}
    /\ Tell(p, "TIMER")
    /\ UNCHANGED <<used, frames, queued, delayed, reading, waits, at, limit,
                   running, watchers, bg, been, fault>>

(* read_event_notify(): a line of input that is not for a READ; an event   *)
(* for the user's first foreground process in EVENT_WAITFOR, or else for   *)
(* one in the time queue, unless it has one already.                       *)
Foreground(u) == {p \in Pids : UserOf[p] = u /\ p \notin bg}

ReadNotify(u, p) ==
    LET waiting == {i \in 1 .. Len(waits) : /\ waits[i].state = "waiting"
                                            /\ waits[i].pid \in Foreground(u)}
    IN  /\ Idle
        /\ IF waiting # {}
           THEN \E i \in waiting : p = waits[i].pid /\ \A j \in waiting : i <= j
           ELSE p \in Foreground(u) \cap (delayed \cup reading \cup timers)
        /\ "READ" \notin ToSet(events[p])
        /\ HasRoom(p)
        /\ Tell(p, "READ")
        /\ UNCHANGED <<used, frames, queued, delayed, reading, timers, waits, at,
                       limit, running, watchers, bg, been, fault>>

(* prim_watchpid(): the check for a second registration compares the       *)
(* watcher with the watched, and never finds one. A pid without a frame    *)
(* counts as gone.                                                         *)
Watch(p, q) ==
    /\ Runs(p) /\ p # q
    /\ IF Findable(q)
       THEN /\ watchers[q][p] < MaxWatch
            /\ watchers' = [watchers EXCEPT ![q][p] = @ + 1]
            /\ UNCHANGED events
       ELSE /\ HasRoom(p)
            /\ Tell(p, q)
            /\ UNCHANGED watchers
    /\ UNCHANGED <<used, frames, queued, delayed, reading, timers, waits, at,
                   limit, running, bg, been, fault>>

\* prim_setmode(): BACKGROUND; and away from it, which leaves been_background.
Background(p) ==
    /\ Runs(p) /\ p \notin bg
    /\ bg' = bg \cup {p}
    /\ been' = been \cup {p}
    /\ UNCHANGED <<used, frames, queued, delayed, reading, timers, waits, at,
                   limit, running, events, watchers, fault>>

Preempt(p) ==
    /\ Runs(p) /\ p \in bg
    /\ bg' = bg \ {p}
    /\ UNCHANGED <<used, frames, queued, delayed, reading, timers, waits, at,
                   limit, running, events, watchers, been, fault>>

-----------------------------------------------------------------------------
(* Processes are killed.                                                   *)

Condemn(S) ==
    waits' = [i \in 1 .. Len(waits) |->
                IF waits[i].pid \in S /\ waits[i].state = "waiting"
                THEN [waits[i] EXCEPT !.state = "condemned"] ELSE waits[i]]

(* dequeue_process(), for KILL and @kill: a process in EVENT_WAITFOR loses *)
(* its events and is condemned, the next pass frees its frame; one in the  *)
(* time queue loses its frame at once. Both lose their timers.             *)
Kill(q) ==
    /\ Idle \/ (Sound /\ running \notin {NoPid, q})
    /\ Waits(q) \/ q \in queued \cup delayed \cup reading
    /\ queued' = queued \ {q}
    /\ delayed' = delayed \ {q}
    /\ reading' = reading \ {q}
    /\ timers' = timers \ {q}
    /\ Condemn({q})
    /\ IF q \in delayed \cup reading THEN Clean(<<q>>)
       ELSE /\ events' = [events EXCEPT ![q] = << >>]
            /\ UNCHANGED <<frames, watchers>>
    /\ UNCHANGED <<used, at, limit, running, bg, been, fault>>

(* dequeue_prog(x, mode): the processes that run the program or for the    *)
(* user. A node without a frame is not spared as background, in mode 2,    *)
(* and is spared in mode 1. A process in EVENT_WAITFOR is cleaned and its  *)
(* entry keeps the frame. "count < (count += ...)" reads and writes count  *)
(* in no order: readFirst says which the compiler chose, and then a frame  *)
(* that nobody asked for is cleaned too.                                   *)
Matches(x, mode, p) ==
    /\ x \in {ProgOf[p], UserOf[p]}
    /\ mode = 2 => p \notin bg
    /\ mode = 1 => p \notin queued

MayKillProgram(x, mode) ==
    \/ Idle
    \/ /\ Sound /\ running # NoPid /\ mode = 0
       /\ x # ProgOf[running]
       /\ x = UserOf[running] => x \in Things

(* A program whose user is recycled under it is cleaned when interp_loop() *)
(* looks next; if it was resumed from EVENT_WAITFOR it is then cleaned the *)
(* second time.                                                            *)
KillProgram(x, mode, readFirst) ==
    LET hit   == {p \in Pids : Matches(x, mode, p)}
        self  == hit \cap {running}
        entry == Without(waits, {e \in Entry : e.pid \notin hit \/ e.state # "waiting"})
    IN  /\ MayKillProgram(x, mode)
        /\ hit \cap (queued \cup delayed \cup reading \cup timers) # {} \/ entry # << >>
        /\ IF \/ (readFirst /\ entry # << >>)
              \/ (self # {} /\ at # 0)
           THEN /\ fault' = IF readFirst /\ entry # << >> THEN "stray" ELSE "recleaned"
                /\ UNCHANGED <<frames, queued, delayed, reading, timers, waits, at,
                               running, events, watchers>>
           ELSE /\ \E held \in SetToSeqs(hit \cap (delayed \cup reading)), own \in SetToSeqs(self) :
                      Clean(held \o [i \in 1 .. Len(entry) |-> entry[i].pid] \o own)
                /\ queued' = queued \ hit
                /\ delayed' = delayed \ hit
                /\ reading' = reading \ hit
                /\ timers' = TimersWithout(hit)
                /\ Condemn(hit)
                /\ running' = IF self = {} THEN running ELSE NoPid
                /\ UNCHANGED <<at, fault>>
        /\ UNCHANGED <<used, limit, bg, been>>

(* do_dequeue("all"): the time queue, and the processes in EVENT_WAITFOR   *)
(* whose program or player is NOTHING.                                     *)
KillAll ==
    /\ Idle
    /\ queued \cup delayed \cup reading \cup timers # {}
    /\ \E order \in SetToSeqs(delayed \cup reading) : Clean(order)
    /\ queued' = {} /\ delayed' = {} /\ reading' = {} /\ timers' = {}
    /\ UNCHANGED <<used, waits, at, limit, running, bg, been, fault>>

-----------------------------------------------------------------------------
(* muf_event_process(): before and after the walk, the deleted entries are *)
(* freed, and with an entry the frame it still has, if the program has     *)
(* instances: also a frame that dequeue_prog() has freed already. Then     *)
(* prog_clean() aborts the server, or, if the frame has been handed out    *)
(* again meanwhile, takes it from its new owner.                           *)
Swept == Without(waits, {e \in Entry : e.state # "waiting"})

Doomed == LET ended == Without(waits, {e \in Entry : e.state # "condemned" \/ e.pid \notin frames})
          IN  [i \in 1 .. Len(ended) |-> ended[i].pid]

SweepRecleans ==
    \E i \in 1 .. Len(waits) :
        /\ waits[i].state = "condemned" /\ waits[i].pid \notin frames
        /\ \E p \in frames :
              /\ ProgOf[p] = ProgOf[waits[i].pid]
              /\ \A j \in 1 .. i - 1 : waits[j].pid = p => waits[j].state # "condemned"

Sweep ==
    IF SweepRecleans
    THEN /\ fault' = "recleaned"
         /\ UNCHANGED <<frames, timers, waits, events, watchers>>
    ELSE /\ Clean(Doomed)
         /\ timers' = TimersWithout(ToSet(Doomed))
         /\ waits' = Swept
         /\ UNCHANGED fault

BeginEvents ==
    /\ Idle /\ waits # << >>
    /\ Sweep
    /\ at' = 1
    /\ limit' = EventLimit
    /\ UNCHANGED <<used, queued, delayed, reading, running, bg, been>>

(* A process that has been in the background gets a READ when that is one  *)
(* of the events it waits for, so that it does not wait for ever.          *)
Mail(e) == IF e.pid \in been /\ "READ" \in e.on
           THEN Append(events[e.pid], "READ") ELSE events[e.pid]

Accepts(e, v) == e.on = {} \/ v \in e.on

IsReady(e) == e.state = "waiting" /\ \E k \in 1 .. Len(Mail(e)) : Accepts(e, Mail(e)[k])

Ready == {i \in at .. Len(waits) : IsReady(waits[i])}

(* The walk comes to the next entry with an event it waits for; dies: the  *)
(* program's stack is full.                                                *)
Deliver(dies) ==
    /\ Sound /\ running = NoPid /\ at # 0 /\ limit > 0
    /\ \E i \in Ready :
          LET e == waits[i]
              k == SelectInSeq(Mail(e), LAMBDA v : Accepts(e, v))
          IN  /\ \A j \in Ready : i <= j
              /\ limit' = limit - 1
              /\ IF dies
                 THEN /\ Clean(<<e.pid>>)
                      /\ timers' = TimersWithout({e.pid})
                      /\ waits' = [waits EXCEPT ![i].state = "spent"]
                      /\ at' = i + 1
                      /\ UNCHANGED running
                 ELSE /\ events' = [events EXCEPT ![e.pid] = RemoveAt(Mail(e), k)]
                      /\ running' = e.pid
                      /\ at' = i
                      /\ UNCHANGED <<frames, timers, waits, watchers>>
    /\ UNCHANGED <<used, queued, delayed, reading, bg, been, fault>>

WalkIsOver == limit = 0 \/ Ready = {}

EndEvents ==
    /\ Sound /\ running = NoPid /\ at # 0
    /\ WalkIsOver
    /\ Sweep
    /\ at' = 0
    /\ limit' = 0
    /\ UNCHANGED <<used, queued, delayed, reading, running, bg, been>>

-----------------------------------------------------------------------------
Births(p) == \/ Start(p)
             \/ /\ "queue" \in Calls
                /\ (Queue(p) \/ \E allowed \in BOOLEAN : RunQueued(p, allowed))
             \/ "fork" \in Calls /\ \E child \in Pids, full \in BOOLEAN : Fork(p, child, full)

Leave(p) == \/ Exit(p)
            \/ "sleep" \in Calls /\ \E full \in BOOLEAN : Sleep(p, full)
            \/ "read" \in Calls /\ Read(p)
            \/ \E on \in Filters : EventWait(p, on)

Resumes(p) == ResumeDelayed(p) \/ \E dies \in BOOLEAN : Line(p, dies)

Sends(p) == \/ \E q \in Pids : \/ "send" \in Calls /\ SendEvent(p, q)
                               \/ "watch" \in Calls /\ Watch(p, q)
            \/ "timer" \in Calls /\ ((\E full \in BOOLEAN : TimerStart(p, full)) \/ TimerStop(p))
            \/ TimerDue(p)
            \/ "notify" \in Calls /\ \E u \in Users : ReadNotify(u, p)
            \/ "mode" \in Calls /\ (Background(p) \/ Preempt(p))

Kills == \/ "kill" \in Calls /\ \E q \in Pids : Kill(q)
         \/ "killprogram" \in Calls /\ \E readFirst \in BOOLEAN :
               \/ \E x \in Programs, mode \in {0, 1} : KillProgram(x, mode, readFirst)
               \/ \E x \in Users, mode \in {0, 2} : KillProgram(x, mode, readFirst)
         \/ "killall" \in Calls /\ KillAll

Pass == BeginEvents \/ (\E dies \in BOOLEAN : Deliver(dies)) \/ EndEvents

Next == Kills \/ Pass \/ \E p \in Pids : Births(p) \/ Leave(p) \/ Resumes(p) \/ Sends(p)

Spec == Init /\ [][Next]_vars

(* shovechars() calls muf_event_process() in every turn, whatever the      *)
(* commands and the time queue did before: strong fairness. The walk goes  *)
(* on by itself, and interp_loop() takes the thread from every program     *)
(* after a slice, or aborts a PREEMPT one.                                 *)
Fairness == /\ SF_vars(BeginEvents)
            /\ WF_vars((\E dies \in BOOLEAN : Deliver(dies)) \/ EndEvents)
            /\ \A p \in Pids : WF_vars(Leave(p))

FairSpec == Spec /\ Fairness
-----------------------------------------------------------------------------
(***************************************************************************)
(* What the scheduler promises.                                            *)
(***************************************************************************)

\* Every frame is in one place: running, in one node of the time queue, or
\* in one entry of the list. A frame in none is lost for ever, one in two is
\* run twice. The running program keeps the entry it was resumed from.
Homes(p) ==
    {home \in {"thread", "delayed", "reading"} \X {0} :
        \/ home[1] = "thread" /\ p = running
        \/ home[1] = "delayed" /\ p \in delayed
        \/ home[1] = "reading" /\ p \in reading}
    \cup {home \in {"entry"} \X (1 .. Len(waits)) :
            LET i == home[2]
            IN  /\ waits[i].pid = p /\ waits[i].state # "spent"
                /\ ~ (i = at /\ p = running)}
OnePlace == TypeOK /\ \A p \in frames : Cardinality(Homes(p)) = 1

\* No node, no live entry and no thread holds a freed frame: the next one who
\* follows the pointer would read another process's frame. A queued process
\* has none yet. A TIMER node points to the frame of the process that started
\* it, and next_timequeue_event() follows the pointer (617-618): when the
\* frame is freed, on whatever way, the timer has gone first.
NoFreedFrame ==
    /\ delayed \cup reading \cup ({running} \ {NoPid}) \subseteq frames
    /\ \A p \in Pids : Waits(p) => p \in frames
    /\ queued \cap frames = {}
    /\ timers \subseteq {p \in frames : ~ Condemned(p)}

\* A freed frame has neither events nor watchers, and nobody writes to one
\* after it was freed: the next process to get the frame starts clean.
CleanFrames == \A p \in Pids \ frames : events[p] = << >> /\ watchers[p] = Nobody

\* man.txt on WATCHPID, as far as it holds: a watcher that is suspended when
\* the frame it watches is freed finds the event in its queue, however the
\* frame came to be freed.
Told(w, q) == q \in ToSet(events'[w])
ToldIfSuspended ==
    [][\A q \in frames \ frames', w \in frames' :
          (watchers[q][w] > 0 /\ w # running /\ ~ Condemned(w)) => Told(w, q)]_vars

\* A killed process does not come back, and one program runs at a time: the
\* stages of ProcessLife. A condemned process is dead, though it has a frame.
Stage(p) ==
    IF p \notin used THEN "unborn"
    ELSE IF p \in queued THEN "queued"
    ELSE IF p = running THEN "running"
    ELSE IF p \in frames /\ ~ Condemned(p) THEN "suspended"
    ELSE "dead"

Lives == INSTANCE ProcessLife WITH life <- [p \in Pids |-> Stage(p)]
LivesAsPromised == Lives!Spec

\* do_recycle(): "getting here is a bug - we already dequeued it". When
\* dequeue_prog() has dropped a program, none of its instances is left.
NoInstanceLeft ==
    [][\A x \in Programs, readFirst \in BOOLEAN :
          (Idle /\ KillProgram(x, 0, readFirst) /\ Sound') =>
              \A p \in frames' : ProgOf[p] # x]_vars

\* A process with an event it waits for is resumed or dies, however many are
\* before it in the list and however often they come back.
HasMail(p) == \E i \in 1 .. Len(waits) :
                 /\ waits[i].pid = p /\ waits[i].state = "waiting" /\ p # running
                 /\ \E k \in 1 .. Len(events[p]) : Accepts(waits[i], events[p][k])
Delivery == \A p \in Pids : HasMail(p) ~> (~ HasMail(p) \/ ~ Sound)

\* "make sure that background processes aren't waiting for READ events": such a
\* process does not wait for ever.
WaitsForLine(p) == \E i \in 1 .. Len(waits) :
                     /\ waits[i].pid = p /\ waits[i].state = "waiting" /\ p # running
                     /\ "READ" \in waits[i].on /\ p \in been
NoBackgroundRead == \A p \in Pids : WaitsForLine(p) ~> (~ WaitsForLine(p) \/ ~ Sound)

\* A pass ends, though the programs it resumes put themselves behind those it
\* has still to look at.
PassEnds == at # 0 ~> (at = 0 \/ ~ Sound)

\* The frame of a process killed in EVENT_WAITFOR is freed in the end, and its
\* watchers learn of it then.
KilledIsFreed == \A p \in Pids : (Condemned(p) /\ p \in frames) ~> (p \notin frames \/ ~ Sound)
=============================================================================
