# A verification project for fbmuck

fbmuck (Fuzzball) is a MUCK server: players connect over telnet, walk through a
shared database of objects, and run programs written in MUF, a Forth that the
server interprets. The server is one process with one thread. What makes it hard
is not parallelism but *suspension*: MUF programs are multitasked by hand, each
can be stopped in the middle in four different lists, killed from there by other
programs, by users, by wizards or by the destruction of an object, and resumed
from a list that is being walked at the time. Moving an object, disconnecting a
player and recycling run such programs in the middle of a C function, too. This
directory models the scheduler, the connections and their text queues, the
contents lists and recycling, and the dumps in TLA+, checks the models with TLC,
and proves part of what they promise with TLAPS.

Contents: [inventory](#1-inventory), [plan](#2-plan), [the modules and the
code](#3-the-modules-and-the-code), [the runs](#4-the-runs),
[bounds and fairness](#5-bounds-and-fairness), [the proofs](#6-the-proofs),
[what the checks found](#7-what-the-checks-found), [what is not
modelled](#8-what-is-not-modelled). Paths are relative to the repository's
`src/` unless they start with `game/` or `docs/`.

## 1. Inventory

One turn of the main loop (`shovechars()`, interface.c:1238-1260) refills the
command quotas, runs what is due in the time queue (`next_muckevent()`), handles
one line of input per connection until no quota or no line is left
(`process_commands()`), delivers MUF events (`muf_event_process()`), writes
output, and waits in `select()`. Everything below is called from one of these.

| component | state | operations | what is hard | what makes it correct |
|---|---|---|---|---|
| **Time queue** timequeue.c | the list at `tqhead` of QUEUE, DELAY, READ, TIMER and MPI nodes; `process_count`; the INTERACTIVE and READMODE flags of players | `add_event`, `next_timequeue_event`, `handle_read_event`, `dequeue_process`, `dequeue_prog`, `dequeue_timers`, `@kill` | a pass runs programs that insert and remove nodes in the list being walked; removing a node cleans a frame, which removes other nodes | order kept; nobody overtaken, nobody starved; the table bounded; no player in READ mode without a reader |
| **MUF events** mufevent.c | the list of processes in EVENT_WAITFOR; the event queue of each frame | `muf_event_register_specific`, `_add`, `_pop_specific`, `_process`, `_dequeue`, `_dequeue_pid`, `_read_notify` | a pass resumes programs that register themselves again behind it; entries are marked and freed later | every event that is waited for is delivered; a pass ends; a frame is freed once |
| **MUF interpreter** interp.c | frames, `free_frames_list`, watchers and waiters, PLAYER_BLOCK | `interp`, `interp_loop`, `prog_clean`, `watchpid_process` | a frame is owned by whoever holds its pointer; five places do | a frame has one owner; nothing holds a freed frame; watchers are told |
| **Process primitives** p_misc.c, p_stack.c (SETMODE) | - | QUEUE, FORK, KILL, TIMER_START, TIMER_STOP, EVENT_SEND, WATCHPID, SETMODE | they act on other processes, found by pid in whatever list they are | a killed process does not come back |
| **Input** interface.c, game.c, edit.c | a connection's input lines, quota; PLAYER_BLOCK | `process_commands`, `do_command`, `read_event_notify`, `update_quotas` | a line is for the editor, a READ, an EVENT_WAITFOR or the game, by flags that programs change | a line is not swallowed; a blocked player has a foreground program |
| **Text queues** interface.c | a text queue with `lines` and `output_size` | `queue_write`, `flush_queue`, `process_output` | the front is dropped while a block is half written | the size is that of the queue, and bounded |
| **Connections** interface.c | descriptors, `booted`, player-to-descriptor tables | connect, create, boot, `announce_disconnect` | a descriptor is freed while a list is walked; a dbref is reused while somebody is connected to it | tables agree |
| **Movement and recycling** move.c, create.c | `location`, `contents` and `next` of every object | `moveto`, `enter_room`, `send_contents`, `recycle` | a list is emptied by operations that refill it | the contents lists partition the objects; no loops of locations |
| **Sanity checker** sanity.c | - | `sanity`, `sanfix` | - | what it checks is Movement's invariant |
| **Properties on disk** props.c, property.c, diskprop.c | per object: unloaded, loaded, priority, changed; rings by use | `fetchprops`, `disposeprops`, `dirtyprops`, `housecleanprops` | disposal of what has changed; dumps between | no change is lost |
| **Dumps** game.c, events.c, signal.c | `epoch`, dump file and delta file, `global_dumper_pid` | `fork_and_dump`, `dump_deltas`, `panic`, `sig_reap` | crash between write and rename; a second dump while the first runs; one signal for the ends of two children | a complete dump exists at every moment; dumps go on |
| **Object database, locks** db.c, boolexp.c, predicates.c, match.c, set.c, look.c, utils.c, player.c, unparse.c | objects | commands | run to the end in one call | - |
| **MUF compiler, debugger, values** compile.c, disassem.c, debugger.c, inst.c, array.c, other p_*.c | programs, values | - | sequential | - |
| **Editor** edit.c | the lines of a program | insert, delete, list | sequential | - |
| **MPI** msgparse.c, mfuns*.c | - | `do_parse_mesg` | a call that runs to its end | - |
| **MCP** mcp.c, mcpgui.c, mcppkgs.c, p_mcp.c | frames, dialogs | message parsing | - | - |
| **Tunables, libraries, resolver, tools** | | | | |

Interactions that matter here: the interpreter puts a frame into the time queue
(SLEEP, READ, the end of a slice) or into the event list (EVENT_WAITFOR) and
forgets it; the two passes take it out and call the interpreter; freeing a node
calls `prog_clean()`, which calls back into the time queue (`dequeue_timers()`)
and, by pid, into both lists (`watchpid_process()`).

## 2. Plan

Done, in this order:

1. `Lists`, `TimeNodes`, `TimeQueue`: the order, the bound and the passes of the
   time queue, and the READ flags, with their proofs (`ListsProofs`,
   `TimeQueueProofs`).
2. `ProcessLife`, `MufProcess`: what the scheduler promises of a process, and
   frames, lists, events, watchers and kills; `MufProcessProofs`, that it keeps
   its frames apart and implements `ProcessLife`.
3. `InputBlock`, `InputBlockProofs`: a player's lines, PLAYER_BLOCK and the READ
   flags, through everything that sets them.
4. `Places`, `Contents`, `ContentsProofs`: where objects are, as a tree; the lists
   with `moveto()`, `enter_room()`, `send_contents()`, `recycle()` and the commands
   built on them; the proofs that, without programs amid a command, lists and
   references stay right, nothing gets lost, it implements `Places`, and stays a tree.
5. `Dumps`, `DumpsProofs`: full dumps, deltas, panic, `sig_reap()` and the restart
   script, with processes that die at every step; the proof that what was saved is found again.
6. `Connections`, `ConnectionsProofs`: descriptors and the tables beside them, with
   programs in the middle of connecting and disconnecting.
7. `TextQueue`, `TextQueueProofs`: `queue_write()`, `flush_queue()`,
   `process_output()` with partial writes; the quota of commands.

Not done, and why, is in section 8. What would be next: what is proved of `Contents`
without programs amid a command, for programs that move things but recycle nothing.

The modules stand alone, each with the actions of its surroundings that matter to
it: `TimeQueue` takes a process for its pid, `MufProcess` a list for a set,
`Connections` a program for what it may do to descriptors. `MufProcess` implements
`ProcessLife`, `Contents` implements `Places`.

## 3. The modules and the code

### Lists

`Without`, what a removal leaves of a linked list: the time queue, the event list,
the READs of a player and the tables of descriptors all shrink by it. It is a
recursive function, not a `RECURSIVE` operator, so that proofs can unfold it.

### TimeNodes

The list of `struct timenode` as a sequence of records, and the operators on it:
`InsertNode` is the walk of `add_event()` (timequeue.c:250-274), `DueRun` the
count `next_timequeue_event()` takes of due nodes (546-552), `Older` a second that
passes. A node carries the seconds it has left rather than an absolute time; a
READ has none left from the start, as its time is "now - 1".

### TimeQueue

All functions of timequeue.c that change the list. A process is only its pid:
`MayRun` says that it is suspended in no node and so may be the caller.

| action | code |
|---|---|
| `AddRead`, `AddEvent` | `add_event()` through `add_muf_read_event()`, `add_muf_delay_event()`, `add_muf_queue_event()`, the MPI variants; a full table cleans the frame and so its timers |
| `TimerStart`, `TimerStop` | the primitives, with the name cut to 32 characters when stored and to 30 when looked up |
| `ProcessExit` | `dequeue_timers()` from `prog_clean()` |
| `DequeueProcess`, `DequeueProg`, `DequeueAll` | KILL and `@kill` by number; `dequeue_prog()` in any mode (which nodes match is arbitrary); `@kill all` |
| `BeginPass`, `RunHead`, `EndPass` | `next_timequeue_event()`: the count and the stop pointer (`left`, `last`) are taken once, the programs run between the steps |
| `HandleRead`, `HandleReadEnds` | `handle_read_event()` before and after the program it resumes |
| `Tick` | the clock |

`loose` is a history variable: the current pass counted a READ as due or a node
was removed under it. `fault` says that the code has read a node after freeing
it; nothing is promised, and nothing happens, after that.

### ProcessLife

The abstract specification: a process is unborn, queued, running, suspended or
dead; one runs at a time; the dead stay dead.

### MufProcess

Frames and everything that holds one. `frames` are the pids whose frame is not in
`free_frames_list`; `queued`, `delayed`, `reading`, `timers` the pids of the four
kinds of node (their order is `TimeQueue`'s subject); `waits` the list at
`mufevent_processes`, with the state of each entry: waiting, condemned (marked
deleted, frame still set), spent (marked deleted, frame taken out by the pass).
`at` and `limit` are the loop variables of `muf_event_process()`, `running` the
process that `interp_loop()` executes.

| actions | code |
|---|---|
| `Start`, `Queue`, `RunQueued`, `Fork` | `interp()`; QUEUE; a QUEUE node coming due; `prim_fork()` |
| `Exit`, `Sleep`, `Read`, `EventWait` | the four ways out of `interp_loop()`; the end of a slice is a `Sleep` of nothing, and a READ that `writeonly` or the background forbids is an `Exit` |
| `ResumeDelayed`, `Line` | a DELAY node coming due; a line for a READ, or @Q |
| `SendEvent`, `TimerStart`, `TimerStop`, `TimerDue`, `ReadNotify`, `Watch` | the primitives, a TIMER node coming due, `read_event_notify()` |
| `Background`, `Preempt` | `prim_setmode()` |
| `Kill`, `KillProgram`, `KillAll` | `dequeue_process()`; `dequeue_prog(x, mode)` for a program or a user; `@kill all` |
| `BeginEvents`, `Deliver`, `EndEvents` | `muf_event_process()`, with the sweep of deleted entries (`Sweep`) before and after |

`Clean` is `prog_clean()` with `watchpid_process()`: a set of frames goes, in some
order, and those who watch one of them *and can be found by pid* get an event.
`Stage` maps a state to `ProcessLife`.

Where the code carries on with a freed frame, the model stops and `fault` says
how it came to that: a condemned frame is cleaned a second time ("recleaned"),
TIMER_START ran into a full table and the program runs on without a frame ("runs
freed"), or `dequeue_prog()` cleaned the frame at the head of the queue ("stray",
with one of the two orders of evaluation C allows for timequeue.c:1052).

### InputBlock

One player, his connection's lines and his programs. `block` is PLAYER_BLOCK,
`readmode` the pair INTERACTIVE and READMODE (without the editor, which sets the
first alone). Which program a flag belongs to is nowhere in the code: every
program that stops overwrites it. `restoring` and `saved` are the local variables
of the pass that resumed a background program, `hearing` says that
`handle_read_event()` is further up the stack, `mute` is `interp_loop()`'s local
copy of `fr->writeonly`.

| actions | code |
|---|---|
| `Exit`, `Sleep`, `Slice`, `Read`, `EventWait` | the ways out of `interp_loop()`, each with the value it gives PLAYER_BLOCK, and what the caller does after (`Leaves`) |
| `RunQueued`, `ResumeDelayed`, `Event` | the two passes, with what they save |
| `Background`, `Preempt`, `Queue`, `Fork`, `Kill` | the primitives |
| `Type`, `Command`, `Builtin`, `Line`, `DropBlank`, `Break` | `process_input()`; `process_commands()` by what it does with the line at the head |
| `Connect`, `Disconnect` | `check_connect()`, `announce_disconnect()` |

`loose` is a history variable: the flag is wrong, and the step that made it so was
one of those that are known to (section 7). It is set only when the flag really
comes out wrong, and @Q, which clears the flag, clears it.

### Places

The abstract specification of the database's contents: every object is in another
one or nowhere, and the steps are to lift some of what is in an object, to put
one down where it does not come to be in itself, to make one and to free an empty
one.

### Contents

`db` holds the fields `location`, `contents`, `next`, home, owner, dropto and type
of every object, and the head of the free list, which is threaded through the same
`next` fields. Flags (STICKY, VEHICLE, ZOMBIE, LISTENER, LINK_OK) are constants. A command is a stack (`task`) of what its C functions have still to
do, innermost first, because `enter_room()` and `maybe_dropto()` run programs
(`propqueue`) and these may move and recycle: a step moves one object.

| actions | code |
|---|---|
| `Moveto`, `EnterRoom`, `Fallback` (operators) | `moveto()` and `enter_room()` with the loop check and where they fall back to |
| `LocationLoopCheck`, `ParentLoopCheck`, `GetParent` (operators) | the checks of move.c over `getparent()` of db.c, which give up after `MAX_PARENT_DEPTH` parents |
| `Send`, `Sending`, `Sent` | `send_contents()`: the list is taken off, its objects are moved, the saved rest walked, what came back reversed |
| `Enter`, `MoveOn`, `SendHome`, `Depart`, `Arrive` | what is still to do after a step: `enter_room()`, `moveto()`, `send_home()` (a puppet's possessions first, then itself once more), `maybe_dropto()` |
| `Recycle`, `Recycling`, `Recycled`, `Unlinked` (`Rehomed`, `Disowned`, `Skipped`) | `recycle()`: references replaced, an owner by GOD, taken out of its list, its contents sent away until none are left, freed |
| `Trigger`, `Summon`, `Leave`, `Get`, `Drop`, `Home`, `Teleport` | the commands |
| `Create`, `Dig`, `Link`, `LinkRoom`, `Unlink`, `DoRecycle`, `Toad`, `Toaded` | @create, @dig, @link, @unlink, @recycle, @toad |
| `ProgramMoves`, `ProgramRecycles` | MOVETO and RECYCLE in a program that runs in the middle of a command |

### Dumps

An object is the number of its last change, a file an image or a list of deltas.
`dump` has the dump of the forked child and the one of the server itself, each at a
step of `dump_database_internal()`; the child has a copy of the database
(`image`). The server has another child, the `resolver` of host names, and learns of
the end of either by the one `sigchld` that can be pending. `Restored` is what `game/restart.in` makes of the files; it is evaluated
in every state, since the machine may stop there.

| actions | code |
|---|---|
| `Change`, `SkipDump`, `Shutdown` | the server: a command; the dump that `fork_and_dump()` skips, which uses up a number; the last `dump_database()` |
| `DeltasStart`, `DeltasPart`, `DeltasWritten` | `dump_deltas()`: to the end of the file, a part of what changed, the rest; the child may empty the file in between |
| `Fork`, `Forked` | `fork_and_dump()`: `fork()`, and the assignment of `global_dumper_pid` |
| `DumpOpen`, `DumpWrite`, `DumpRename`, `DumpTruncate` | `dump_database_internal()`: the predecessor removed and the file opened, `db_write()`, `rename()`, deltas emptied |
| `ReapDumper`, `ReapResolver`, `InitReaps` | `sig_reap()`: one `waitpid()` for one SIGCHLD; the children of a dead server are init's |
| `ChildDies`, `ResolverDies`, `Crash` | a process dies, the server perhaps in the middle of a delta dump (`torn`) |
| `Panic`, `PanicWritten`, `PanicUnlinks` | `panic()` |
| `Restart` | the script and `init_game()` |

`saved` is the state at the last save that was finished. `overtaken` says that of two
dumps that overlap one has undone what the other, or a delta, had saved: an older
one renamed over a later one, deltas emptied that the dump does not have, or
emptied after a rename that failed. The next full dump that ends in its place
repairs that and resets it. `cut` says that a dump died between rename and
truncation, `missed` that the end of the dumper was not noticed: `waitpid()` gave the
resolver, or the signal came before `global_dumper_pid` was set; `files.holed` that the
file of deltas begins with a hole (section 7).

### Connections

`conn` is `struct descriptor_data`, `descr_count_table` and `descrs` the tables by
connection number and by player, `walk` the pass of `shovechars()` or
`process_commands()` with its `d` and `dnext`, `task` the C calls that have not
returned.

| actions | code |
|---|---|
| `Connect`, `Create`, `Return` | `check_connect()`, and its end after `announce_connect()`, where the player is counted |
| `Quit`, `BootOff`, `PCreate`, `Toad`, `Recycle`, `Program`, `Events` | what lines and events do |
| `ProgramBoots`, `ProgramSets` | CONBOOT, DESCRBOOT, DESCR_SETUSER from a program |
| `AnnounceDisconnect`, `Disconnected`, `Close`, `SetUser` | `announce_disconnect()` before and after its programs, the rest of `shutdownsock()`, of `pset_user()` |
| `NoCommand`, `EndCommands`, `Sweep`, `SweepOver`, `EndSweep`, `NewConnection`, `Fails`, `EndSelect` | the passes of the main loop and what `select()` reports |

A recycled player is on the free list, and `NewPlayer`, which `Create` and `PCreate`
share, may take his dbref, as `new_object()` does. `orphaned`, `usurped` and `haunted`
are history variables that say that one of three known steps has happened, `haunted`
for which players (section 7).

### TextQueue

The output queue at the level of its pointers: `block` the allocated blocks, `queue`
head, tail and count. The tail names a link, of the head or of a block, as
`text_block **tail` does. Characters are numbered in the order of writing, 0 is
one of the notice: whether text is lost, doubled or reordered can be read off.
`since` is the time since `last_slice`, `quota` the commands of one connection,
`input` the kinds of its lines, `blocked` the PLAYER_BLOCK of its player (which
`InputBlock` explains; here it is set and cleared at will).

| actions | code |
|---|---|
| `QueueWrite` (with `FlushQueue`, `AddToQueue`) | `queue_write()` |
| `ProcessOutput`, `OutputFails` | `process_output()` with a socket that takes any part, or fails |
| `Type`, `ProcessCommand` (with `Charge`), `EatBlank` | `save_command()`; a line is run, with what it costs: nothing if it begins with `#$#`, and MCP gives one back; of a blocked player only an interface command is, and a blank line eaten |
| `Block` | `PLAYER_BLOCK` is set or cleared |
| `Turn` | `update_quotas()`, after any time, or with the clock set back |

### MCTimeQueue, MCMufProcess, MCInputBlock, MCContents, MCDumps, MCConnections, MCTextQueue

Constants for TLC. In `MCMufProcess`, p1 and p2 run the same program for the same
user, p3 another program for a thing, which a program can recycle. The first database
of `MCContents` has two rooms and two players, the second of whom can become a
thing and garbage and what is created in its place.

## 4. The runs

Passing:

| run | configuration | shows |
|---|---|---|
| `timequeue` | `TimeQueue.cfg` | 280,955 states: `TypeOK`, `QueueOrder`, `CountWithinQueue`, `NoGhostReader`, `NoOvertaking`, `OnTimeUnlessLoose` over every sequence of calls |
| `timequeue_live` | `TimeQueueLive.cfg` | `DueRuns`: a sleeping or queued process that is due is run or removed, though one node is run in a pass and others queue again for ever |
| `muf_lives` | `MufLives.cfg` | 158,626 states: `OnePlace`, `NoFreedFrame`, and `LivesAsPromised`: MufProcess implements ProcessLife |
| `muf_live` | `MufLive.cfg` | 65,501 states: `CleanFrames` (a freed frame is clean and stays so), `ToldIfSuspended` (a suspended watcher is always told), and under fairness `Delivery`, `NoBackgroundRead`, `PassEnds`, `KilledIsFreed` |
| `input` | `InputBlock.cfg` | 148,158 states: `BlockedByForeground`, `OneForeground` and `BreakFrees`, over every sequence of lines, calls, kills, connections and passes |
| `contents` | `Contents.cfg` | 119,512 states: `WayToTop`, `ListsAgree` and `ImplementsPlaces` for all that players do but @dig, with things that move like players, carry, are entered, linked, sent home, recycled and toaded, and no programs amid a command |
| `contents_programs` | `ContentsPrograms.cfg` | 46,894 states: `NoDanglingReference` and `CommandEnds` with creation, recycling and toading, and a program that moves or recycles in the middle of any of it |
| `dumps` | `Dumps.cfg` | 1,391,612 states: `SavedIsKept`, `RestoredIsAState`, `DumperIsForgotten` with three dumps of a server, two children that end when they like, and a death of the child, the server or both at any step |
| `connections` | `Connections.cfg` | 1,087,874 states: `CountTableAgrees`, `PlayerTablesAgree`, `NoDanglingDescriptor`, `CountNotLow`, `BootedIsClosed` |
| `textqueue` | `TextQueue.cfg` | 114,640 states: `QueueAgrees`, `SizeBound`, `NothingLostSilently`, `LastArrives`, `LineIsRun` |

Violated (section 7): `timequeue_kills` (`TimeQueueKills.cfg`), what the manual page of
KILL promises, and `muf_recycle` (`MufRecycle.cfg`), what an assertion of `do_recycle()`
says.

Where a run lists no `TypeOK`, the type invariant is a conjunct of its first structural
property (`OnePlace`, `NoDanglingReference`, `CountTableAgrees`, `QueueAgrees`).

The operators called "slips" in the modules are plausible mistakes, such as a walk
that does not stop at READs. Put in the place of the operator each is named
after, every one breaks the property it is meant for: the properties can fail.

## 5. Bounds and fairness

| bound | value | why it is enough |
|---|---|---|
| addresses of nodes | 3 | a head, one behind it and one to be put between or reused; order, overtaking and "the saved successor" speak of two nodes and a third |
| pids | 3 (2 in `MufLive.cfg` and `MufRecycle.cfg`) | two of a kind and one that differs in program and user; the double clean needs two, the refinement speaks of one running and the rest |
| `RunLimit` (10 in the code) | 2; 1 in `TimeQueueLive.cfg` | so that the limit cuts a pass short |
| `EventLimit` (10) | 2; 1 in `MufLive.cfg` and `MufRecycle.cfg` | likewise |
| `MaxDelay` | 1 second | due now and due later |
| `MaxDrift` | 1 | how far process_count may fall below 0 by kills; only the kills are bounded by it |
| `MaxLines` | 1 | one line decides who gets it |
| `MaxEvents` | 1 | events a process has not read. A second one waits like the first; the properties ask whether there is one |
| `MaxWatch` | 1 | times one process watches another |
| `tp_*` limits | 1 | so that the table is full at once |
| `Calls`, `KillCommands` | per run | what programs and users do; a run leaves calls out to keep the others affordable, and between the runs all are made |
| `Filters` | any event; or READ and USER | a filter that lets READ through is what NoBackgroundRead is about |
| `db_top` | 4 | room 0, another one and two players, of whom one is toaded, recycled and created again as a thing while the other owns it, carries it or has it for a home: a loop needs two objects besides the room. What more rooms bring is in section 7 |
| `MAX_PARENT_DEPTH` (256) | 3; 2 in `ContentsPrograms.cfg` | more than the longest way up of four objects and a loop; and less, so that the limit ends a check |
| `Listener` | {3} in `ContentsPrograms.cfg` | the third way, beside `tp_thing_movement` and ZOMBIE, for a thing to be a puppet |
| `MaxPrograms` | 1 in `ContentsPrograms.cfg`, 0 in `Contents.cfg` | programs in one command; one move or recycling at any point of the walk is what can invalidate it |
| `MaxChanges`, `MaxEpoch`, `MaxCrashes` | 2, 3, 1 | one change before and one after a fork; a delta, a child's dump and one that overtakes it (with two dumps the failed rename cannot do harm); one death, of the child, the server or both (that of the resolver is not counted). The theorems of `DumpsProofs` hold for any values |
| `Descrs`, `Players` | 2, 2 (one a wizard) | a table with an entry that moves when another goes; who boots and who is booted |
| `SetuserDepth` (8) | 1 | a hand-over by a program of a connect or disconnect; hand-overs within hand-overs are covered by the theorems of `ConnectionsProofs` alone, which hold for any depth |
| `Rounds`, `MaxActs` | 3, 2 | @toad, @recycle and a new player come from one pass of lines; a program that does two things |
| `tp_max_output`, `Notice`, `MaxLine`, `MaxText` | 3, 2, 3, 6 | a write that fits, one that drops one block, several, all; the notice smaller and larger than what it replaces |
| `Blocks` | 6 | more than can be in a queue of that size |
| `MaxTurn`, `MaxBack`, `MaxCredit`, `MaxInput` | 2, 1, 1, 1 | turns shorter than a slice, and of a slice; the clock set back once |

`SYMMETRY` is used with safety only: addresses in `TimeQueue.cfg`, the twins p1 and
p2 in `MufLives.cfg` and `InputBlock.cfg`. The check for deadlock is off: after a
fault the models stop on purpose, and when all processes have ended there is
nothing left to do.

Fairness. The main loop never stops: it calls `next_timequeue_event()` and
`muf_event_process()` in every turn, whatever the other steps of the turn do to
enable or disable them in between: strong fairness of `BeginPass` and
`BeginEvents`. Once a walk is under way nothing but a running program comes
between its steps: weak fairness of `RunHead \/ EndPass` and `Deliver \/
EndEvents`. A running program is stopped after a slice of instructions, or
aborted if it is in PREEMPT mode (interp.c:1075-1096): weak fairness of `Leave(p)`
and `HandleReadEnds`. The clock goes on: weak fairness of `Tick`. Nothing is
assumed of players: that a line comes for a READ is never promised.
`Contents`: a step of a command that is under way is taken (weak fairness of
`StepsGoOn`: C code runs on). `Dumps`: the child runs, and a SIGCHLD that is pending is
handled (weak fairness of `Reap`, which is enabled only then: that it finds the
dumper is not assumed, and what follows if it does not is `missed`); of the
server nothing is assumed. `Connections`: calls return, and the passes go on to the next descriptor;
the actions of players and programs are not fair. `TextQueue`: a socket that is
not in error takes something in the end, time passes, and the main loop runs or eats a
line that has quota and may be run. Nothing is assumed of the program that blocks
a player: `LineIsRun` promises nothing to a line that is `HeldUp`.

## 6. The proofs

All for any sets of nodes, players, processes, blocks and names and any limits; the
assumptions are those the modules state (`AddrsAssumption`, `PlayersAssumption`,
`PidsAssumption`, `IdsAssumption`, `BoundsAssumption`, `FiltersAssumption`,
`LimitsAssumption`, `DumpsAssumption`, `QueueAssumption`). They fix the types of the
constants and keep NULL and its like out of the sets; beyond that they say that a
pass may run something (`RunLimit`, `EventLimit`), that `process_commands()` makes a
round (a do-while), that the notice of dropped text is not empty, and that
the blocks are finitely many.

Each component has one inductive invariant, with a lemma per action; its theorems
are consequences. TLC checked each invariant on the small instance before it was
proved.

**TimeQueue** (`TimeQueueProofs`)

- `TypeCorrect`, `OrderKept`: `Spec => []TypeOK`, `Spec => []QueueOrder`. Every
  action changes the list in one of six ways (`QueueStep`): not at all, a second
  passes, a READ appended, nodes removed, a node inserted by time (perhaps after a
  removal), the head taken. The inductive invariant `ListInv` is the type, the
  order, and that no struct is linked twice; it is shown once per way.
- `CountNeverHigh`: `Spec => []CountWithinQueue`. That no struct is linked twice is
  what this needs: a removal counts the nodes it takes.
- `NoGhosts`: `Spec => []NoGhostReader`, by the READs each action leaves.
- `NobodyOvertakes`: `Spec => NoOvertaking`, by the same six ways: all but two leave
  the nodes in their order (`Follows`); of an inserted node the walk says what is
  behind it, and that a READ comes last.
- `OnTimeAlways`: `Spec => OnTimeUnlessLoose`. `last`, the node the pass is to stop at,
  is not needed: in a pass that is not loose the first `left` nodes are due
  and no READs (`PassDue`), since the walk of `add_event()` goes past them. This is
  why a removal, which shifts the nodes, has to be recorded in `loose`.

**MufProcess** (`MufProcessProofs`)

- `NoFreedFrameHeld`, `FreedFramesClean`, `OnePlaceAlways`: `Spec => []` of
  `NoFreedFrame`, `CleanFrames`, `OnePlace`. None is inductive. `FramesInv` adds
  that the thread, the DELAYs, the READs and the entries of the event list share no
  process (`Apart`), that a process has one entry that is
  not spent (`OneEntry`), that entries are of processes that have had a frame, that
  no frame is lost (`Homed`), and, for the walk of the pass, that the program that
  runs in it is the one of the entry the walk is at (`Resumed`): that entry
  still points to the frame and is no second place. The four kinds of
  `dequeue_prog()` are one lemma about the processes it hits (`KillsHit`).
- `SuspendedAreTold`: `Spec => ToldIfSuspended`. Frames are cleaned one after another
  and a watcher may be cleaned in between; the order is arbitrary, and who lives
  through all of it can be found by pid at every point.
- `ImplementsLives`: `Spec => Lives!Spec`, step by step. A step moves
  one process from one stage to another (`Moves`), lets a set of them die at once
  (`DiesIn`: kills, the sweep of condemned entries), or none changes its stage.

**InputBlock** (`InputBlockProofs`)

- `InputTypes`, `BlockedByHisOwn`, `OneInForeground`: `Spec => []` of `TypeOK`,
  `BlockedByForeground`, `OneForeground`, the last two apart from the steps that `loose`
  records. `InputInv` adds to them what the local
  variables of callers hold: the flag that a pass will put back is right as long as
  nobody has changed it (`SavedIsRight`), it is put back only after a program that
  has been in the background, and READMODE is on while somebody reads, except inside
  `handle_read_event()`, which looks again at its end (`LinesAreForReaders`).
- `BreakFreesAlways`: `Spec => BreakFrees`.

**Connections** (`ConnectionsProofs`)

- `CountTableAlways`, `PlayerTablesAlways`, `NoneDangles`, `CountNeverLow`: `Spec => []`
  of `CountTableAgrees`, `PlayerTablesAgree`, `NoDanglingDescriptor`, `CountNotLow`.
  What a C call that has not returned will still do is part of the state, so
  most of `TablesInv` is about the stack: its calls hold open descriptors
  (`AllFit`); `pset_user()` and `shutdownsock()` have `announce_disconnect()` of
  their descriptor above them until it returns (`Stacked`), and find it let go
  then (`HeadFree`); and who will be connected by them counts as connected
  (`Counted`). With that, the walk's saved `dnext` is never the descriptor freed.
  `PlayerTablesAgree` needs both `usurped` and, for one direction, `haunted`: a
  player's array holds no descriptor that is not his, but if he was created in the
  dbref of a toad who was still connected it need not hold all that are.

**TextQueue** (`TextQueueProofs`)

- `QueueAgreesAlways`, `SizeBoundAlways`, `NothingLostAlways`: `Spec => []` of
  `QueueAgrees`, `SizeBound`, `NothingLostSilently`. `QueueInv` says that the blocks
  in the heap are those of a chain, each once, in which head, tail and count are
  right (`Holds`), so that a walk of pointers can be reasoned about as a sequence
  (`ChainIs`); and of the text, with what was sent in front of it and the next
  character behind, that it rises (`Rising`) and is whole or has a notice in its gaps
  (`Gaps`). Dropping blocks replaces some characters by a notice (`Replaced`), a write
  extends the text (`Extended`). `Rising` has to be said beside `Gaps`: a gap is
  measured between neighbours, and when what is between is dropped they have
  new ones. The size bound rests on the lines: with more than two blocks the
  limit holds, whatever has been sent of the first.

**Dumps** (`DumpsProofs`)

- `TypesKept`, `SavedStaysKept`, `RestoredStaysAState`: `Spec => [](TypeOK /\ SavedIsKept)`
  and `Spec => []RestoredIsAState`. That the files have what was saved now is not
  inductive: a dump in progress will empty the deltas, and what counts then is what
  its rename has put there. So the invariant `IInv` says it twice, of now (`Kept`,
  `Exact`) and of the state with the deltas gone (`WillBeKept`, `WillBeExact`), and adds
  what these need: which of two dumps under way is the later (`Epochs`), whose a
  temporary file is (`FilesOK`), that no file is ahead of memory (`Ages`, `NotAhead`),
  that an object without its flag is saved (`FlagsOK`), and that a panic dump is the
  database (`PanicOK`). `FromDelta`, `AppliedAppend` and `AppliedMonotone` say what the
  restart script makes of deltas: the last one that has an object counts. That there
  is a last one (`HasMaximum`) is well-founded induction by `WFMin`.

**Contents** (`ContentsProofs`)

The assumptions on the constants are those of `Contents`: the first database is in
order (`FirstAssumption`: locations, homes and owners are objects of the right
type, garbage is nowhere) and GOD is an object, for any number of objects, any
`MAX_PARENT_DEPTH` and any of the flags. All that is proved of `Contents` is proved
of commands with no program amid them (`Alone`).

- `ListsAgreeAlone`, `NoDanglingAlone`: `Spec => []` of `ListsAgree` and
  `NoDanglingReference` where programs do nothing amid a command (`Alone`), with no
  other premise, for every command of the players. `RecyclingEmpties`: then nothing
  is freed with something in it.
- `EverythingIsSomewhere`: without programs, when a command is done, what is there is
  somewhere, and room 0 alone is nowhere (`Somewhere`): the walk of
  `send_contents()` puts back or elsewhere all that it took off, and `moveto()` finds a
  place for what cannot go where it should.
- `ContentsImplementsPlaces`, `FindsItsWay`: without programs,
  `Spec /\ RoomsInRooms /\ []DigsIntoRooms` implies `ImplementsPlaces`, the refinement,
  and `[]WayToTop`. The premises: every room of the first database is nowhere or in a
  room (`RoomsInRooms`), and no @dig takes a thing for the parent of its room
  (`DigsIntoRooms`). With such a @dig both conclusions fail (section 7); without, rooms stay in
  rooms (`RoomsStayInRooms`). `Contents.cfg`, with no @dig, meets both.
- `PlacesStayATree`: `P!Spec => [](Acyclic /\ GarbageIsOut)`, for the `Places` that
  `Contents` is shown to implement. `Acyclic` says that every non-empty set of objects
  has one that lies in none of them, which needs no induction over paths: lifting,
  making and freeing leave such an object as it is, and for a put the set is cut down
  to what is under the object put.

The argument. A list that is walked along `next` would need an induction for every
operation. The proofs say instead of each object in which list it is (`h`) and
give it a number (`r`) that falls along its list: `Linked` says that the fields
agree with that, and PUSH, `remove_first()`, `reverse()` and the taking off of a
whole list are a few changes of the four functions (`ChainPush`, `ChainWithout`,
`ChainReverse`, `ChainTake`, which are in `ListsProofs`, for any lists that share
their next fields). The model's walk is related to `h` once (`ListMembers`).

`ListsAgree` is not inductive. The invariant `Inv` says (`Whole`) that the lists are
those of the locations but for what is being recycled (`Placed`); that owners, homes
and droptos are of the right type and not being recycled (`Sound`); that the
frames of the stack hold objects that are there (`FramesOK`), where a walk may hold
an object of any list, as programs may have moved it; and that no two frames recycle the
same (`Once`). `Unlinked` needs an induction over the objects looked at (`Partly`):
what is below i refers to the thing no more.

What is left is that `recycle()` frees nothing with contents. Its loop gives up at
`looplimit`, and a walk of `send_contents()` may go on to a place that is
recycled meanwhile. Without programs it does neither, and `Quiet` is why: there is a
set W of what may still be in the thing, which nothing joins, and each round of the
loop takes one object out of it for good, so that the limit, which is as large as
the database, is not met (`Calm`); the rest of a walk (`Walk`) is a set of objects that
are nowhere and lead to each other, since nothing but the walk moves them.

For the last three `Settled` adds: between walks nothing but room 0 is nowhere
(`Away`), and what a walk has in hand is all that comes after its next object
(`InHand`, by `Follows`: a set that has the next one, and with each its successor, is all of
it); nothing is in a program (`Contained`); no frame moves room 0. Each movement is
then a `Put` of `Places`: what `ParentLoopCheck` lets pass is not inside what is moved
(`CheckedFits`), because the way up from the destination, followed as many steps as
there are objects, meets all it can meet (`WayEnds`). The two places it falls back on
unchecked, the home of a player and `tp_player_start`, are rooms, and with rooms in rooms
only there is nothing but rooms above them, so no player or thing is; a room itself
falls back on room 0. `RoomsBack` is why they stay there: a room is put back by a walk
where it was, recycled contents go home, which for a room is room 0, and everything
else that moves is no room. The first database is assumed to be a tree for this
(`FirstTree`: room 0 alone is nowhere, as sanity.c:463 says, and nothing is inside
itself).

**Lists** (`ListsProofs`)

Lemmas for the others: `WithoutProperties`, what a removal leaves is the rest in its
order; `WithoutTwice`, two removals are one; `FlattenConcat`, the text of two chains
is the text of the one and then of the other. The recursions of `Without` and of the
community module's `FlattenSeq` are shown to be well defined by the least
counterexample (`LeastNat`), without an induction theorem. So is a walk along `next`
fields (`WalkExists`, `WalkUnique`, `ChainMembers`).

Only model-checked: `NoDanglingReference` where programs move and recycle amid a
command, with `tp_thing_movement` off (of `ListsAgree`, `ImplementsPlaces` and
`WayToTop` nothing is claimed there; section 7 says how the first two fail); and all
liveness (`DueRuns`, `Delivery`, `NoBackgroundRead`, `PassEnds`, `KilledIsFreed`,
`CommandEnds`, `DumperIsForgotten`, `BootedIsClosed`, `LastArrives`, `LineIsRun`),
which is out of the prover's reach, as it rests on fairness.

## 7. What the checks found

By a run, with the trace TLC gives:

- `timequeue_kills`: `dequeue_process()` saves the successor of the head and frees
  the head; cleaning its frame frees the frame's timers, the saved successor among
  them (timequeue.c:1090). The trace is a KILL by number, of which man.txt:4807
  promises that it kills the one process. `@kill all` and the second loop of
  `dequeue_prog()` go on from a freed node in the same way.
- `muf_recycle`: "getting here is a bug - we already dequeued it", says the assertion in
  `do_recycle()` (move.c:920). A process killed by number in EVENT_WAITFOR keeps its
  frame to the next pass, and `dequeue_prog()` skips it: its program still has an
  instance, and `@recycle` of it in the same turn aborts the server.

In the model, without a run of their own. The scheduler (the model stops with
`fault` at the first two):

- A process killed in EVENT_WAITFOR by program or user is cleaned at once, and again
  by the next pass when its program has another instance (mufevent.c:262); then
  `prog_clean()` aborts the server (interp.c:781), or frees the frame's new owner.
- TIMER_START on a full table frees the frame of the program that is running, which
  goes on (timequeue.c:244).
- Of a player's two READs the second is not heard after the first ends by @Q or a
  full stack: timequeue.c:471 clears the flags and returns before the loop at 522
  that would set them again.
- An @Q typed after another line is not seen while a foreground program waits for
  events or sleeps again and again: `process_commands()` looks at the first line
  only (interface.c:2641). docs/MUF.manual:570 promises that @Q quits it.

- PLAYER_BLOCK comes out wrong, and stays so till @Q, a new connection or the next
  program that stops, after: a background program that kills the player's
  foreground program, and whose caller then restores the flag (timequeue.c:610,
  mufevent.c:838); a SLEEP on a full table (interp.c:1691); an event for a
  program with a full stack (mufevent.c:817-823); a QUEUE node, for which nothing
  is saved (timequeue.c:627), or a program that left the background, when they
  stop while another one sleeps in the foreground; a second connection of the
  player (interface.c:2846). `BlockedByForeground` holds apart from these (`loose`).
- A program that goes BACKGROUND and then PREEMPT can READ until it is stopped for
  the first time: `interp_loop()` looks at its own copy of `writeonly`
  (interp.c:1032, 1661).
- A timer's name is stored with 32 characters and looked up with 30 (timequeue.c:339,
  1131): one with a longer name is not found when it is started again.
- `handle_read_event()` keeps the successor of the READ (timequeue.c:438) while the program
  it resumes runs, and goes on from there; the program may have killed that process, and
  the node is freed.
- A READ counts as due, so a pass that counted one may run a node that a resumed
  program has just put off to a later second, and so may one that removes a node and
  reuses it: `OnTimeUnlessLoose` holds only because of `loose` (timequeue.c:549).
- A process killed in EVENT_WAITFOR, and every `@kill` by number, takes one off
  `process_count` too many (1082, 1231), so the table takes more processes than
  its limit. `CountWithinQueue` bounds the count from above only.
- `count < (count += ...)` at timequeue.c:1052 has no defined order of evaluation.
- A watcher that runs at the time is not told (`ToldIfSuspended` excludes it):
  man.txt:5333 promises it is.
- WATCHPID of a queued process, which has no frame yet, reports that it has
  exited (p_misc.c:1008).
- `dequeue_prog(user, 2)`, for foreground programs, also drops queued ones, which
  would run in the background (timequeue.c:1010).
- `@kill all` leaves the processes in EVENT_WAITFOR: it looks for entries whose
  program or player is NOTHING (timequeue.c:1177-1190, mufevent.c:244).

Dumps:

- `sig_reap()` calls `waitpid()` once for a SIGCHLD (signal.c:268), and two that come
  together are one. If the resolver ends with the dumper, the dumper may stay a zombie
  and `global_dumper_pid` set, and `fork_and_dump()` finds a "Dump already in progress"
  until a later signal. If the child ends before game.c:314 assigns its number,
  the signal is for an "unknown child process", and no dump is begun again for as long
  as the server runs. `DumperIsForgotten` excepts both (`missed`).
- If the child empties the deltas while the server writes to them, the server's stream
  goes on at its old place and leaves a hole, for `db_read()` no header of deltas:
  what is in the file is ignored, though its changes have lost their flag
  (`holed`, part of `overtaken`).
- The child empties the file of deltas at its end (game.c:157), with those that the
  server wrote after the fork: they are lost if the server dies before its next
  dump. restart.in says of the file that "after a successful restart, these deltas
  will be appended to the end of the DBIN file". A shutdown while a child writes is
  undone by the child in the same way: it renames its older dump over the last
  one. `SavedIsKept` excepts both (`overtaken`); every other overlap is checked.
- The deltas are emptied even if the rename failed (game.c:146). It fails when
  the server, shutting down, has removed the child's file as that of its predecessor
  (119): if the server then dies before its own rename, what only the deltas had is
  lost. `overtaken` covers it; it takes three dumps, and the proof found it where a
  run with two had not.
- A process that dies between rename and truncation leaves old deltas on a newer
  dump, and the restart script appends them: `RestoredIsAState` excepts it (`cut`).
- A skipped dump uses up a number (game.c:295), so that "nuke our predecessor" of
  the next one does not find the file of the child.
- `set_property_flags()` does not mark the object as changed (property.c:486), so a
  @bless alone is in no delta dump.

Connections and text:

- A DESCR_SETUSER in the "disconnect" action of the descriptor that is being
  disconnected makes `forget_player_descr()` (interface.c:3555) drop a single entry
  that is another one, or leave one that is not the player's (`usurped`).
- A toad that is recycled is on the free list while the descriptor that @toad booted
  is still connected to it, and the next player that is created gets its dbref
  (db.c:205-208). When the descriptor is closed, `forget_player_descr()` drops the new
  player's only entry without comparing it: he is connected and not awake
  (`haunted`).
- @toad and @recycle of the toad in one turn: `announce_disconnect()` returns at 3307,
  and the freed descriptor stays in `descr_count_table` (`orphaned`) till the table
  is next made.
- An MCP message gets back a command of quota (interface.c:2713) that it has not paid
  (2661); a line that begins with `#$#` and is not taken by MCP is run for nothing.
- A line of a player whose foreground program sleeps stays, and all behind it, though
  there is quota, for as long as the program sleeps on (2642-2659): `LineIsRun`
  excepts it (`HeldUp`).
- An empty `queue_write()` on a queue above its limit drops blocks from it.

Objects:

- "Any item should always be able to 'find' its way to room #0", says the comment
  at move.c:142. A thing that a player has made the room of, by @dig with a vehicle
  for a parent, and a player whose home is in it come to lie in each other: where a
  move would make a loop, `moveto()` falls back on a home or on `tp_player_start`
  (move.c:37, 59, 271) without checking that one. `Contents.cfg` leaves
  @dig out.
- A walk of `send_contents()` keeps its destination. When a program that runs on the
  arrival of one object recycles that room, the next ones are moved into garbage:
  neither `moveto()` nor `enter_room()` nor the loop check looks whether the place
  is there (move.c:102-117, 15-83). `ListsAgree` and `ImplementsPlaces` fail then:
  `contents` checks them, and `ContentsProofs` proves them, of commands without
  programs in the middle.
- With `tp_thing_movement` set, `NoDanglingReference` fails in the same way: a program
  that runs when the possessions of a puppet are sent home recycles the player who
  is their home, or the puppet; the player is put into garbage, and what he creates
  there has garbage for a home. `contents_programs` has it off.
- Programs that put back into a room what `recycle()` takes out of it, oftener than
  `looplimit`, leave it full when it is freed.
- A program that recycles an object while it is being recycled puts it on the free
  list twice (move.c:1135); the model's programs do not.
- With `tp_thing_movement`, MOVETO puts a room that a thing is the home of into a
  player (p_db.c:189).

## 8. What is not modelled

In the components modelled: programs that run inside another (FORCE, MPI, CALL
from the server, `interp()` with a result), matches of `dequeue_prog()` on a
frame's call stack (`TimeQueue` lets it match anything), the MUF debugger,
TQ_MUF_TREAD (no primitive creates one), a negative delay of TIMER_START,
listings, the values of events, PLAYER_CURR_PROG, the editor's
use of INTERACTIVE, and PROGRAM_INSTANCES as a number: it is the number of live frames of the program.
`fr->waitees` is the inverse of `waiters` and is derived.

In `Contents`: exits (which `recycle()` takes out of lists and destinations, too) and programs as objects, locks and who controls what, pennies,
flags that change. In `Dumps`: the macros, which go the same way as the database,
failing opens, a machine that loses what a process has written, a restart while
the child of the dead server still writes, and DISKBASE. In `Connections`:
what a program in the middle of a connect or disconnect does beyond booting and handing
over (TOADPLAYER, NEWPLAYER, RECYCLE of a toad), passwords, `wizonly_mode`, players without a location. In `TextQueue`: goodbyes and
telnet answers, which bypass the queue, and TLS.

The cache of diskprop.c is compiled only with DISKBASE, which `configure` leaves out.
The other components of section 1 run to their end in one call, on data that no
other actor sees half changed: compiler, MPI, values, locks, matching, property
trees. There TLC would only restate the code. The listings, formatting and the
stand-alone tools have no state; the resolver is pure input and output.
