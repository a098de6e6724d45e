----------------------------- MODULE InputBlock -----------------------------
(***************************************************************************)
(* One player's input and his programs: src/src/interface.c decides with   *)
(* PLAYER_BLOCK, INTERACTIVE and READMODE who gets a line, and interp.c,   *)
(* timequeue.c and mufevent.c set them whenever a program is suspended,    *)
(* resumed or killed. The flags belong to the player, the programs that    *)
(* set them are many: queued ones, sleeping ones, and one that runs for    *)
(* him in the foreground and keeps his commands waiting.                   *)
(*                                                                         *)
(* The processes here all run for this player; the order of the queues is  *)
(* the subject of TimeQueue, their frames of MufProcess. The player has    *)
(* one connection with lines; that others come and go is in Connect and    *)
(* Disconnect. A program that runs inside another's turn (FORCE, MPI) is   *)
(* not followed.                                                           *)
(***************************************************************************)
EXTENDS Integers, Sequences, FiniteSets, SequencesExt, Lists

CONSTANTS
    Pids,
    NoPid,
    WantsBlanks,    \* the processes with fr->wantsblanks
    Calls,          \* what may happen beside ending and sleeping
    MaxLines        \* bound on the lines typed ahead

ASSUME PidsAssumption == NoPid \notin Pids /\ WantsBlanks \subseteq Pids
ASSUME LinesAssumption == MaxLines \in Nat

VARIABLES
    online,         \* the player is connected
    input,          \* d->input
    block,          \* PLAYER_BLOCK
    readmode,       \* INTERACTIVE | READMODE
    used,           \* pids given out
    queued,         \* QUEUE nodes
    delayed,        \* DELAY nodes
    reading,        \* READ nodes, in their order
    waiting,        \* EVENT_WAITFOR
    running,        \* the pid interp_loop() runs
    bg,             \* fr->multitask = BACKGROUND
    been,           \* fr->been_background
    writeonly,      \* fr->writeonly
    mute,           \* the copy of it that interp_loop() took
    restoring,      \* the pass that resumed it will restore PLAYER_BLOCK
    saved,          \* ... to this
    hearing,        \* handle_read_event() resumed it
    loose           \* history: the flag was set by one it does not belong to

flags == <<block, readmode, loose>>
places == <<queued, delayed, reading, waiting>>
modes == <<bg, been, writeonly>>
caller == <<restoring, saved, hearing, mute>>
vars == <<online, input, flags, used, places, running, modes, caller>>

Lines == {"text", "blank", "@Q"}

TypeOK ==
    /\ online \in BOOLEAN /\ input \in Seq(Lines)
    /\ ~ online => input = << >>
    /\ block \in BOOLEAN /\ readmode \in BOOLEAN
    /\ used \in SUBSET Pids
    /\ queued \in SUBSET used /\ delayed \in SUBSET used /\ waiting \in SUBSET used
    /\ reading \in Seq(used \ bg)
    /\ running \in used \cup {NoPid}
    /\ bg \in SUBSET been /\ been \in SUBSET used /\ writeonly \in SUBSET used
    /\ mute \in BOOLEAN /\ restoring \in BOOLEAN /\ saved \in BOOLEAN /\ hearing \in BOOLEAN
    /\ loose \in BOOLEAN

Init ==
    /\ online = FALSE /\ input = << >>
    /\ block = FALSE /\ readmode = FALSE
    /\ used = {} /\ queued = {} /\ delayed = {} /\ waiting = {} /\ reading = << >>
    /\ running = NoPid
    /\ bg = {} /\ been = {} /\ writeonly = {}
    /\ mute = FALSE /\ restoring = FALSE /\ saved = FALSE /\ hearing = FALSE
    /\ loose = FALSE

-----------------------------------------------------------------------------
Idle == running = NoPid
Runs(p) == p # NoPid /\ running = p
Fresh(p) == p \in Pids \ used

\* The foreground programs that stopped and will go on by themselves.
Waiting == (delayed \cup waiting) \ been

\* The player's commands wait when one of them does, and else they do not.
FlagIsRight == block = (Waiting # {})

\* A step by one the flag does not belong to.
Meddled(other) == loose' = (loose \/ (other /\ ~ FlagIsRight'))

(* Slips: what a plausible mistake would make of the operators named after *)
(* them. They show that the properties can fail; nothing uses them.        *)

\* READ leaves the flag as it is.
ReadKeepsBlock(p) == block

\* READ does not ask for the mode.
MayReadIfNotMute(p) == ~ mute

\* Programs in EVENT_WAITFOR are not looked for.
AbortedInQueue == (queued \cup delayed \cup ToSet(reading)) \ bg

\* The end of a slice does not set the flag.
SliceUnblocked(p, full) == FALSE

-----------------------------------------------------------------------------
(* interp_loop() returns; the pass that resumed a background program puts  *)
(* PLAYER_BLOCK back, which is wrong if the program killed the one it      *)
(* belonged to, and handle_read_event() looks for other READs.             *)
Leaves(blocked, rm, other) ==
    /\ running' = NoPid
    /\ block' = IF restoring THEN saved ELSE blocked
    /\ readmode' = (rm \/ (hearing /\ reading' # << >>))
    /\ restoring' = FALSE /\ saved' = FALSE /\ hearing' = FALSE /\ mute' = FALSE
    /\ Meddled(other \/ (running \in been /\ ~ (restoring /\ saved = block)))

\* What SLEEP, READ, EVENT_WAITFOR and the slice set PLAYER_BLOCK to.
Sleeps(p) == p \notin been
BlockAtRead(p) == FALSE
MayRead(p) == p \notin bg /\ ~ mute
AfterSlice(p, full) == p \notin been /\ ~ full

\* The program ends or is aborted.
Exit(p) ==
    /\ Runs(p)
    /\ UNCHANGED <<online, input, used, places, modes>>
    /\ Leaves(FALSE, readmode, FALSE)

(* SLEEP: the flag is set after the node is added; with a full table there *)
(* is no node and no program any more.                                     *)
Sleep(p, full) ==
    /\ Runs(p)
    /\ delayed' = IF full THEN delayed ELSE delayed \cup {p}
    /\ UNCHANGED <<online, input, used, queued, reading, waiting, modes>>
    /\ Leaves(Sleeps(p), readmode, full)

\* The end of a slice: the flag is set before, and a full table clears it.
Slice(p, full) ==
    /\ Runs(p) /\ (p \in been => p \in bg)
    /\ delayed' = IF full THEN delayed ELSE delayed \cup {p}
    /\ UNCHANGED <<online, input, used, queued, reading, waiting, modes>>
    /\ Leaves(AfterSlice(p, full), readmode, FALSE)

\* READ; the player's lines are now for the program. A program that has been
\* in the background may still do it, unless it was stopped since.
Read(p) ==
    /\ Runs(p) /\ MayRead(p)
    /\ reading' = Append(reading, p)
    /\ UNCHANGED <<online, input, used, queued, delayed, waiting, modes>>
    /\ Leaves(BlockAtRead(p), TRUE, FALSE)

\* EVENT_WAITFOR
EventWait(p) ==
    /\ Runs(p)
    /\ waiting' = waiting \cup {p}
    /\ UNCHANGED <<online, input, used, queued, delayed, reading, modes>>
    /\ Leaves(Sleeps(p), readmode, FALSE)

-----------------------------------------------------------------------------
(* Calls of the running program.                                           *)

\* prim_setmode()
Background(p) ==
    /\ Runs(p) /\ p \notin bg
    /\ bg' = bg \cup {p} /\ been' = been \cup {p} /\ writeonly' = writeonly \cup {p}
    /\ UNCHANGED <<online, input, flags, used, places, running, caller>>

Preempt(p) ==
    /\ Runs(p) /\ p \in bg
    /\ bg' = bg \ {p}
    /\ UNCHANGED <<online, input, flags, used, places, running, been, writeonly, caller>>

\* prim_queue(); also a listener or a propqueue, when nobody runs
Queue(child) ==
    /\ Fresh(child)
    /\ used' = used \cup {child}
    /\ queued' = queued \cup {child}
    /\ UNCHANGED <<online, input, flags, delayed, reading, waiting, running, modes, caller>>

\* prim_fork(): the copy is in the background; one that finds a full table is
\* gone at once and left out here, as a queued one is.
Fork(p, child) ==
    /\ Runs(p) /\ Fresh(child)
    /\ used' = used \cup {child}
    /\ delayed' = delayed \cup {child}
    /\ bg' = bg \cup {child} /\ been' = been \cup {child}
    /\ writeonly' = writeonly \cup {child}
    /\ UNCHANGED <<online, input, flags, queued, reading, waiting, running, caller>>

-----------------------------------------------------------------------------
(* Kills: dequeue_process(), and dequeue_prog() of the player in mode 2.   *)

(* free_timenode() clears the flag for a program that is not in the        *)
(* background now, the list of EVENT_WAITFOR for one that has never been.  *)
Clears(S) == \/ S \cap ((delayed \cup ToSet(reading)) \ bg) # {}
             \/ S \cap (waiting \ been) # {}

Removed(S) ==
    /\ queued' = queued \ S
    /\ delayed' = delayed \ S
    /\ waiting' = waiting \ S
    /\ reading' = Without(reading, S)
    /\ readmode' = (reading' # << >> \/ (readmode /\ S \cap ToSet(reading) = {}))

\* KILL by a program, @kill by a user
Kill(q) ==
    /\ q # running
    /\ q \in queued \cup delayed \cup waiting \cup ToSet(reading)
    /\ block' = (block /\ ~ Clears({q}))
    /\ Removed({q})
    /\ UNCHANGED <<online, input, used, running, modes, caller>>
    /\ Meddled(Idle /\ q \in been)

Aborted == (queued \cup delayed \cup waiting \cup ToSet(reading)) \ bg

-----------------------------------------------------------------------------
(* The passes.                                                             *)

Resumes(p, restore) ==
    /\ running' = p
    /\ restoring' = restore
    /\ saved' = (restore /\ block)
    /\ hearing' = FALSE
    /\ UNCHANGED <<online, input, flags, used>>

(* next_timequeue_event(): a QUEUE node; interp() may refuse, and decides  *)
(* by what queued the program whether it may READ.                         *)
RunQueued(p, allowed, wo) ==
    /\ Idle /\ p \in queued
    /\ queued' = queued \ {p}
    /\ IF allowed
       THEN /\ Resumes(p, FALSE)
            /\ mute' = wo
            /\ bg' = bg \cup {p} /\ been' = been \cup {p}
            /\ writeonly' = IF wo THEN writeonly \cup {p} ELSE writeonly
       ELSE UNCHANGED <<online, input, flags, used, running, modes, caller>>
    /\ UNCHANGED <<delayed, reading, waiting>>

\* next_timequeue_event(): a DELAY node
ResumeDelayed(p) ==
    /\ Idle /\ p \in delayed
    /\ delayed' = delayed \ {p}
    /\ Resumes(p, p \in bg) /\ mute' = (p \in writeonly)
    /\ UNCHANGED <<queued, reading, waiting, modes>>

(* muf_event_process(): an event, whatever it is; dies: the program's      *)
(* stack is full.                                                          *)
Event(p, dies) ==
    /\ Idle /\ p \in waiting
    /\ waiting' = waiting \ {p}
    /\ UNCHANGED <<queued, delayed, reading, modes>>
    /\ IF dies
       THEN /\ UNCHANGED <<online, input, block, readmode, used, running, caller>>
            /\ Meddled(TRUE)
       ELSE Resumes(p, p \in bg) /\ mute' = (p \in writeonly)

-----------------------------------------------------------------------------
(* process_commands(). The line at the head is handled, or stays; for one  *)
(* that stays read_event_notify() sends a READ event (MufProcess).         *)

LineIs(l) == Idle /\ input # << >> /\ Head(input) = l
NextLine == input' = Tail(input)

\* process_input()
Type(l) ==
    /\ Idle /\ online /\ Len(input) < MaxLines
    /\ input' = Append(input, l)
    /\ UNCHANGED <<online, flags, used, places, running, modes, caller>>

Free == LineIs("text") /\ ~ block /\ ~ readmode

\* A command that runs a program, by an exit.
Command(p) ==
    /\ Free /\ Fresh(p)
    /\ NextLine
    /\ used' = used \cup {p}
    /\ running' = p
    /\ UNCHANGED <<online, flags, places, modes, caller>>

\* Any other
Builtin ==
    /\ Free
    /\ NextLine
    /\ UNCHANGED <<online, flags, used, places, running, modes, caller>>

\* handle_read_event(): dies: the program's stack is full.
Line(l, dies) ==
    /\ LineIs(l) /\ ~ block /\ readmode
    /\ reading # << >>
    /\ l = "text" \/ (l = "blank" /\ Head(reading) \in WantsBlanks)
    /\ NextLine
    /\ readmode' = FALSE
    /\ reading' = Tail(reading)
    /\ IF dies
       THEN /\ UNCHANGED <<running, hearing, mute>>
            /\ loose' = (loose \/ reading' # << >>)
       ELSE /\ running' = Head(reading) /\ hearing' = TRUE
            /\ mute' = (Head(reading) \in writeonly)
            /\ UNCHANGED loose
    /\ UNCHANGED <<online, block, used, queued, delayed, waiting, modes, restoring, saved>>

(* A blank line is dropped, unless a foreground program wants it.          *)
Hearers == IF block THEN (delayed \cup waiting \cup ToSet(reading)) \ bg
           ELSE IF readmode THEN {Head(reading)} ELSE {}

DropBlank ==
    /\ LineIs("blank")
    /\ (~ block /\ readmode) => reading # << >>
    /\ Hearers \cap WantsBlanks = {}
    /\ NextLine
    /\ UNCHANGED <<online, flags, used, places, running, modes, caller>>

(* do_command() on @Q: the foreground programs are killed, and the flag is *)
(* cleared whatever they were.                                             *)
Break ==
    /\ LineIs("@Q")
    /\ NextLine
    /\ Removed(Aborted)
    /\ block' = FALSE
    /\ loose' = FALSE
    /\ UNCHANGED <<online, used, running, modes, caller>>

(* announce_disconnect(); last: it was the player's last connection. The   *)
(* lines of the one that is gone are gone.                                 *)
Disconnect(last) ==
    /\ Idle /\ online
    /\ online' = ~ last
    /\ input' = << >>
    /\ IF last
       THEN /\ block' = (block /\ ~ Clears(Aborted))
            /\ Removed(Aborted)
       ELSE UNCHANGED <<block, readmode, places>>
    /\ UNCHANGED <<loose, used, running, modes, caller>>

\* check_connect(): a new connection of the player clears the flag.
Connect ==
    /\ Idle /\ (online => "connect" \in Calls)
    /\ online' = TRUE
    /\ block' = FALSE
    /\ UNCHANGED <<input, readmode, used, places, running, modes, caller>>
    /\ Meddled(TRUE)

-----------------------------------------------------------------------------
\* Whether tables and stacks may be full.
Fulls == {b \in BOOLEAN : b => "full" \in Calls}

Leave(p) == \/ Exit(p)
            \/ \E full \in Fulls : Sleep(p, full) \/ Slice(p, full)
            \/ Read(p) \/ EventWait(p)

Call(p) == \/ "mode" \in Calls /\ (Background(p) \/ Preempt(p))
           \/ "fork" \in Calls /\ \E child \in Pids : Fork(p, child)
           \/ "queue" \in Calls /\ Queue(p)
           \/ "kill" \in Calls /\ Kill(p)

Turn == \E p \in Pids : \/ \E allowed, wo \in BOOLEAN : RunQueued(p, allowed, wo)
                        \/ ResumeDelayed(p)

Events == \E p \in Pids, dies \in Fulls : Event(p, dies)

Handle == \/ \E p \in Pids : Command(p)
          \/ \E l \in Lines, dies \in Fulls : Line(l, dies)
          \/ Builtin \/ DropBlank \/ Break

Net == \/ \E l \in Lines : Type(l)
       \/ Connect
       \/ "connect" \in Calls /\ \E last \in BOOLEAN : Disconnect(last)

Next == Turn \/ Events \/ Handle \/ Net \/ \E p \in Pids : Leave(p) \/ Call(p)

Spec == Init /\ [][Next]_vars

-----------------------------------------------------------------------------
(***************************************************************************)
(* What the player may rely on.                                            *)
(***************************************************************************)

\* Between two steps the player is blocked if a foreground program of his
\* sleeps or waits for an event, and not otherwise, unless a program that has
\* been in the background, a full table or stack, or a second connection set
\* the flag; @Q puts it right again. A wrong flag is a player who can do
\* nothing, or one whose commands run in the middle of his program.
BlockedByForeground == (Idle /\ ~ loose) => FlagIsRight

\* He has one program in the foreground at a time.
InForeground == (delayed \cup waiting \cup ToSet(reading) \cup ({running} \ {NoPid})) \ been
OneForeground == ~ loose => Cardinality(InForeground) <= 1

\* MUF.manual on @Q: when it is handled, no foreground program is left, no line
\* is taken for a READ and commands run again.
BreakFrees == [][Break => InForeground' = {} /\ ~ block' /\ ~ readmode']_vars
=============================================================================
