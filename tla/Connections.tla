---------------------------- MODULE Connections ----------------------------
(***************************************************************************)
(* Who is connected, on which descriptors: the list of descriptors and the *)
(* two tables that interface.c keeps beside it, one by connection number   *)
(* (descr_count_table) and one by player (PLAYER_DESCRS), through logging  *)
(* in, QUIT, @boot, @toad, the primitives CONBOOT, DESCRBOOT and           *)
(* DESCR_SETUSER, and the passes of the main loop, shovechars(), which     *)
(* alone opens and frees descriptors.                                      *)
(*                                                                         *)
(* announce_connect() and announce_disconnect() run the programs of        *)
(* "connect" and "disconnect" actions, which may boot anybody and give any *)
(* descriptor to another player, in the middle of logging in, of           *)
(* DESCR_SETUSER and of the pass that closes descriptors. What is still to *)
(* do then is a stack (task).                                              *)
(*                                                                         *)
(* After a descriptor was disconnected twice (usurped) a player's array    *)
(* may hold descriptors that are not his, more each time; the model then   *)
(* opens and hands over no more.                                           *)
(* Left out: text, passwords, wizonly_mode, players without a location,    *)
(* con_number, which is the place in the table, and descr_lookup_table,    *)
(* which holds a descriptor just while it is in the list.                  *)
(***************************************************************************)
EXTENDS Integers, Sequences, FiniteSets, SequencesExt, Lists

CONSTANTS
    Descrs,                 \* file descriptors; the kernel hands them out again
    Players,
    Wizards,                \* players who are wizards
    tp_playermax_limit,
    SetuserDepth,           \* 8 in the code
    Rounds,                 \* bound on rounds of process_commands()
    MaxActs,                \* bound on what programs do in one command
    NOTHING

ASSUME PlayersAssumption == Wizards \subseteq Players /\ NOTHING \notin Players \cup Descrs
ASSUME LimitsAssumption == /\ {tp_playermax_limit, SetuserDepth, Rounds, MaxActs} \subseteq Nat
                           /\ Rounds >= 1   \* a do-while

VARIABLES
    descriptor_list,        \* the descriptors, the newest first
    conn,                   \* struct descriptor_data
    descr_count_table,      \* its first current_descr_count entries
    descrs,                 \* PLAYER_DESCRS
    type,                   \* what the dbref of a player is
    con_players_curr,
    walk,                   \* the pass of the main loop: its d and dnext
    task,                   \* calls that have not returned, the innermost first
    acts,                   \* what programs did in this command
    orphaned,               \* a descriptor was freed while it was connected
    usurped,                \* one was disconnected twice, by its own program
    haunted                 \* players in whose dbref a toad was still connected

tables == <<descr_count_table, descrs>>
ghosts == <<orphaned, usurped, haunted>>
vars == <<descriptor_list, conn, tables, type, con_players_curr, walk, task, acts, ghosts>>

Closed == [connected |-> FALSE, player |-> NOTHING, booted |-> FALSE]

Calls == [does : {"disconnecting"}, d : Descrs, player : Players, runs : BOOLEAN]
    \cup [does : {"closing"}, d : Descrs]
    \cup [does : {"set"}, d : Descrs, who : Players \cup {NOTHING}]
    \cup [does : {"connecting"}, d : Descrs, counts : BOOLEAN]
    \cup [does : {"program"}, d : Descrs]

Open == ToSet(descriptor_list)
Connected == {d \in Open : conn[d].connected}

TypeOK ==
    /\ descriptor_list \in Seq(Descrs) /\ IsInjective(descriptor_list)
    /\ conn \in [Descrs -> [connected : BOOLEAN, player : Players \cup {NOTHING},
                            booted : BOOLEAN]]
    /\ \A d \in Descrs \ Open : conn[d] = Closed
    /\ \A d \in Descrs : conn[d].connected <=> conn[d].player # NOTHING
    /\ descr_count_table \in Seq(Descrs)
    /\ descrs \in [Players -> Seq(Descrs)]
    /\ type \in [Players -> {"none", "player", "thing", "garbage"}]
    /\ con_players_curr \in Nat
    /\ walk \in [pass : {"commands", "boots", "select"}, round : 0 .. Rounds,
                 d : Descrs \cup {NOTHING}, next : Descrs \cup {NOTHING}]
    /\ task \in Seq(Calls)
    /\ acts \in 0 .. MaxActs
    /\ orphaned \in BOOLEAN /\ usurped \in BOOLEAN /\ haunted \subseteq Players

-----------------------------------------------------------------------------
(* The tables. *)

(* update_desc_count_table(), after a change of conn. *)
CountTable(c) == Without(descriptor_list, {d \in Descrs : ~c[d].connected})

\* Slip: the player's other descriptors are forgotten, too.
ForgotAll(player, d) == [descrs EXCEPT ![player] = << >>]

(* forget_player_descr(). A single entry goes without a look at it.        *)
Forgot(player, d) ==
    IF type[player] # "player" THEN descrs
    ELSE [descrs EXCEPT ![player] = IF Len(@) > 1 THEN Without(@, {d}) ELSE << >>]

(* remember_player_descr() *)
Remembered(player, d) ==
    IF type[player] # "player" THEN descrs ELSE [descrs EXCEPT ![player] = Append(@, d)]

Update(c) == conn' = c /\ descr_count_table' = CountTable(c)

(* d->connected = 1; d->player = player; and the tables. *)
LogIn(d, player) ==
    /\ Update([conn EXCEPT ![d].connected = TRUE, ![d].player = player])
    /\ descrs' = Remembered(player, d)

(* d->booted is set *)
Boot(S) == conn' = [d \in Descrs |-> IF d \in S \cap Open THEN [conn[d] EXCEPT !.booted = TRUE]
                                     ELSE conn[d]]

-----------------------------------------------------------------------------
(* Calls. *)

(* announce_disconnect(d), from its caller: it returns at once where the   *)
(* player is garbage, which has no location. The "disconnect" action runs  *)
(* when this is the player's last descriptor; online() of a toad reads     *)
(* what is no count, so it may run for one.                                *)
AnnounceDisconnect(d) ==
    IF type[conn[d].player] = "garbage" THEN << >>
    ELSE LET player == conn[d].player
         IN <<[does |-> "disconnecting", d |-> d, player |-> player,
               runs |-> type[player] # "player" \/ Len(descrs[player]) = 1]>>

\* Slip: the tables are left as they were.
DisconnectedKeepsTable ==
    /\ task # << >> /\ Head(task).does = "disconnecting"
    /\ conn' = [conn EXCEPT ![Head(task).d].connected = FALSE, ![Head(task).d].player = NOTHING]
    /\ descrs' = Forgot(Head(task).player, Head(task).d)
    /\ task' = Tail(task)
    /\ UNCHANGED <<descriptor_list, type, con_players_curr, walk, acts, descr_count_table, ghosts>>

(* The rest of it, after the "disconnect" action. *)
Disconnected ==
    /\ task # << >> /\ Head(task).does = "disconnecting"
    /\ LET d == Head(task).d
           player == Head(task).player
       IN /\ Update([conn EXCEPT ![d].connected = FALSE, ![d].player = NOTHING])
          /\ descrs' = Forgot(player, d)
          /\ usurped' = (usurped \/ conn[d].player # player)
    /\ task' = Tail(task)
    /\ UNCHANGED <<descriptor_list, type, con_players_curr, walk, acts, orphaned, haunted>>

(* The rest of shutdownsock(): the descriptor is closed and freed. *)
Close ==
    /\ task # << >> /\ Head(task).does = "closing"
    /\ LET d == Head(task).d
       IN /\ descriptor_list' = Without(descriptor_list, {d})
          /\ conn' = [conn EXCEPT ![d] = Closed]
          /\ orphaned' = (orphaned \/ conn[d].connected)
    /\ task' = Tail(task)
    /\ UNCHANGED <<tables, type, con_players_curr, walk, acts, usurped, haunted>>

(* The rest of pset_user(). *)
SetUser ==
    /\ task # << >> /\ Head(task).does = "set"
    /\ LET d == Head(task).d
           who == Head(task).who
       IN IF who = NOTHING
          THEN task' = Tail(task) /\ UNCHANGED <<conn, tables>>
          ELSE LogIn(d, who) /\ task' = <<[does |-> "connecting", d |-> d, counts |-> FALSE]>> \o Tail(task)
    /\ UNCHANGED <<descriptor_list, type, con_players_curr, walk, acts, ghosts>>

\* Slip: the player is not counted.
NeverCounts == FALSE

Counts == Head(task).does = "connecting" /\ Head(task).counts

(* The program of a command ends, or announce_connect(); check_connect()   *)
(* counts the player afterwards.                                           *)
Return ==
    /\ task # << >> /\ Head(task).does \in {"connecting", "program"}
    /\ con_players_curr' = con_players_curr + IF Counts THEN 1 ELSE 0
    /\ task' = Tail(task)
    /\ UNCHANGED <<descriptor_list, conn, tables, type, walk, acts, ghosts>>

-----------------------------------------------------------------------------
(* Programs. *)

RunsPrograms ==
    /\ task # << >> /\ acts < MaxActs
    /\ \/ Head(task).does \in {"connecting", "program"}
       \/ Head(task).does = "disconnecting" /\ Head(task).runs

\* Slip: the descriptor is closed at once.
ProgramBootsCloses(d) ==
    /\ RunsPrograms /\ d \in Open
    /\ acts' = acts + 1
    /\ task' = (IF conn[d].connected THEN AnnounceDisconnect(d) ELSE << >>)
               \o <<[does |-> "closing", d |-> d]>> \o task
    /\ UNCHANGED <<descriptor_list, conn, tables, type, con_players_curr, walk, ghosts>>

(* pdescrboot(), pboot() *)
ProgramBoots(d) ==
    /\ RunsPrograms /\ d \in Open
    /\ acts' = acts + 1
    /\ Boot({d})
    /\ UNCHANGED <<descriptor_list, tables, type, con_players_curr, walk, task, ghosts>>

(* pset_user() *)
ProgramSets(d, who) ==
    /\ RunsPrograms /\ d \in Connected /\ ~usurped
    /\ who # NOTHING => type[who] = "player"
    /\ Cardinality({n \in 1 .. Len(task) : task[n].does = "set"}) < SetuserDepth
    /\ acts' = acts + 1
    /\ task' = AnnounceDisconnect(d) \o <<[does |-> "set", d |-> d, who |-> who]>> \o task
    /\ UNCHANGED <<descriptor_list, conn, tables, type, con_players_curr, walk, ghosts>>

-----------------------------------------------------------------------------
(* The main loop. *)

First(list) == IF list = << >> THEN NOTHING ELSE list[1]
After(d) == First(SubSeq(descriptor_list, 1 + CHOOSE n \in 1 .. Len(descriptor_list) :
                                                   descriptor_list[n] = d, Len(descriptor_list)))

Goes(pass) == task = << >> /\ walk.pass = pass /\ walk.next # NOTHING
GoesOn == /\ walk' = [walk EXCEPT !.d = walk.next, !.next = After(walk.next)]
          /\ acts' = 0

Begin(pass, round) ==
    /\ walk' = [pass |-> pass, round |-> round, d |-> NOTHING, next |-> First(descriptor_list)]
    /\ acts' = 0

(* process_commands() looks at a descriptor whose player types nothing. *)
NoCommand ==
    /\ Goes("commands") /\ GoesOn
    /\ UNCHANGED <<descriptor_list, conn, tables, type, con_players_curr, task, ghosts>>

Full == con_players_curr >= tp_playermax_limit

(* check_connect() *)
Connect(player) ==
    /\ Goes("commands") /\ GoesOn
    /\ ~conn[walk.next].connected /\ type[player] = "player"
    /\ IF Full /\ player \notin Wizards
       THEN Boot({walk.next}) /\ UNCHANGED <<tables, task>>
       ELSE /\ LogIn(walk.next, player)
            /\ task' = <<[does |-> "connecting", d |-> walk.next, counts |-> TRUE]>>
    /\ UNCHANGED <<descriptor_list, type, con_players_curr, ghosts>>

ByWizard == /\ Goes("commands") /\ GoesOn
            /\ conn[walk.next].player \in {w \in Wizards : type[w] = "player"}

(* create_player(): new_object() takes what is on the free list first. A   *)
(* toad that was recycled may still be connected on what @toad booted.     *)
NewPlayer(player, itsDescrs) ==
    /\ type[player] \in {"none", "garbage"}
    /\ type' = [type EXCEPT ![player] = "player"]
    /\ descrs' = [descrs EXCEPT ![player] = itsDescrs]
    /\ haunted' = IF \E d \in Connected : conn[d].player = player
                  THEN haunted \cup {player} ELSE haunted \ {player}

(* check_connect(), for a new player, *)
Create(player) ==
    /\ Goes("commands") /\ GoesOn
    /\ ~conn[walk.next].connected
    /\ IF Full
       THEN Boot({walk.next}) /\ UNCHANGED <<tables, task, type, haunted>>
       ELSE /\ Update([conn EXCEPT ![walk.next].connected = TRUE, ![walk.next].player = player])
            /\ NewPlayer(player, <<walk.next>>)
            /\ task' = <<[does |-> "connecting", d |-> walk.next, counts |-> TRUE]>>
    /\ UNCHANGED <<descriptor_list, con_players_curr, orphaned, usurped>>

(* and do_pcreate(). *)
PCreate(player) ==
    /\ ByWizard
    /\ NewPlayer(player, << >>)
    /\ UNCHANGED <<descriptor_list, conn, descr_count_table, con_players_curr, task, orphaned, usurped>>

(* QUIT, typed or from do_command() at the login screen. *)
Quit ==
    /\ Goes("commands") /\ GoesOn
    /\ Boot({walk.next})
    /\ UNCHANGED <<descriptor_list, tables, type, con_players_curr, task, ghosts>>

(* A command runs a program. *)
Program ==
    /\ Goes("commands") /\ GoesOn
    /\ conn[walk.next].connected
    /\ task' = <<[does |-> "program", d |-> walk.next]>>
    /\ UNCHANGED <<descriptor_list, conn, tables, type, con_players_curr, ghosts>>

(* @boot: do_boot(), boot_off() *)
BootOff(victim) ==
    /\ ByWizard
    /\ type[victim] = "player" /\ descrs[victim] # << >>
    /\ Boot({descrs[victim][1]})
    /\ UNCHANGED <<descriptor_list, tables, type, con_players_curr, task, ghosts>>

(* @toad: do_toad(), boot_player_off() *)
Toad(victim) ==
    /\ ByWizard
    /\ type[victim] = "player" /\ victim \notin Wizards
    /\ Boot(ToSet(descrs[victim]))
    /\ descrs' = [descrs EXCEPT ![victim] = << >>]
    /\ type' = [type EXCEPT ![victim] = "thing"]
    /\ UNCHANGED <<descriptor_list, descr_count_table, con_players_curr, task, ghosts>>

(* @recycle of the toad: its dbref is on the free list. *)
Recycle(toad) ==
    /\ ByWizard
    /\ type[toad] = "thing"
    /\ type' = [type EXCEPT ![toad] = "garbage"]
    /\ UNCHANGED <<descriptor_list, conn, tables, con_players_curr, task, ghosts>>

(* The do-while of process_commands(), then the pass over who is booted. *)
EndCommands ==
    /\ task = << >> /\ walk.pass = "commands" /\ walk.next = NOTHING
    /\ \/ walk.round < Rounds /\ walk.d # NOTHING /\ Begin("commands", walk.round + 1)
       \/ Begin("boots", 0)
    /\ UNCHANGED <<descriptor_list, conn, tables, type, con_players_curr, task, ghosts>>

(* muf_event_process(), next_muckevent(): programs of whoever is connected *)
Events ==
    /\ task = << >> /\ walk.pass = "commands" /\ walk.next = NOTHING /\ walk.d # NOTHING
    /\ walk.d \in Connected
    /\ walk' = [walk EXCEPT !.d = NOTHING, !.round = Rounds]
    /\ task' = <<[does |-> "program", d |-> walk.d]>> /\ acts' = 0
    /\ UNCHANGED <<descriptor_list, conn, tables, type, con_players_curr, ghosts>>

\* Slip: the pass ends with the first that is closed, and clears the flag of
\* every connection: those it has not come to are forgotten.
SweepOne ==
    /\ Goes("boots") /\ conn[walk.next].booted
    /\ walk' = [walk EXCEPT !.d = walk.next, !.next = NOTHING]
    /\ acts' = 0
    /\ conn' = [d \in Descrs |-> [conn[d] EXCEPT !.booted = FALSE]]
    /\ task' = (IF conn[walk.next].connected THEN AnnounceDisconnect(walk.next) ELSE << >>)
               \o <<[does |-> "closing", d |-> walk.next]>>
    /\ UNCHANGED <<descriptor_list, tables, type, con_players_curr, ghosts>>

(* The pass over who is booted: shutdownsock() *)
Sweep ==
    /\ Goes("boots") /\ GoesOn
    /\ conn[walk.next].booted
    /\ conn' = [conn EXCEPT ![walk.next].booted = FALSE]
    /\ task' = (IF conn[walk.next].connected THEN AnnounceDisconnect(walk.next) ELSE << >>)
               \o <<[does |-> "closing", d |-> walk.next]>>
    /\ UNCHANGED <<descriptor_list, tables, type, con_players_curr, ghosts>>

SweepOver ==
    /\ Goes("boots") /\ GoesOn
    /\ ~conn[walk.next].booted
    /\ UNCHANGED <<descriptor_list, conn, tables, type, con_players_curr, task, ghosts>>

EndSweep ==
    /\ task = << >> /\ walk.pass = "boots" /\ walk.next = NOTHING
    /\ walk' = [pass |-> "select", round |-> 0, d |-> NOTHING, next |-> NOTHING]
    /\ UNCHANGED <<descriptor_list, conn, tables, type, con_players_curr, task, acts, ghosts>>

(* select(): initializesock() for a new connection, *)
NewConnection(d) ==
    /\ walk.pass = "select" /\ d \notin Open /\ ~usurped
    /\ descriptor_list' = <<d>> \o descriptor_list
    /\ conn' = [conn EXCEPT ![d] = Closed]
    /\ UNCHANGED <<tables, type, con_players_curr, walk, task, acts, ghosts>>

(* a connection that fails, or is idle, *)
Fails(d) ==
    /\ walk.pass = "select" /\ d \in Open
    /\ Boot({d})
    /\ UNCHANGED <<descriptor_list, tables, type, con_players_curr, walk, task, acts, ghosts>>

(* and the count of players. *)
EndSelect ==
    /\ walk.pass = "select"
    /\ con_players_curr' = Cardinality(Connected)
    /\ Begin("commands", 1)
    /\ UNCHANGED <<descriptor_list, conn, tables, type, task, ghosts>>

-----------------------------------------------------------------------------
Init ==
    /\ descriptor_list = << >> /\ conn = [d \in Descrs |-> Closed]
    /\ descr_count_table = << >> /\ descrs = [p \in Players |-> << >>]
    /\ type \in {t \in [Players -> {"none", "player"}] : \A w \in Wizards : t[w] = "player"}
    /\ con_players_curr = 0 /\ task = << >> /\ acts = 0
    /\ walk = [pass |-> "select", round |-> 0, d |-> NOTHING, next |-> NOTHING]
    /\ orphaned = FALSE /\ usurped = FALSE /\ haunted = {}

CallStep == Disconnected \/ Close \/ SetUser \/ Return
ProgramStep == \E d \in Descrs : \/ ProgramBoots(d)
                                 \/ \E who \in Players \cup {NOTHING} : ProgramSets(d, who)
CommandStep == \/ NoCommand \/ Quit \/ Program
               \/ \E p \in Players : \/ Connect(p) \/ Create(p) \/ PCreate(p)
                                        \/ BootOff(p) \/ Toad(p) \/ Recycle(p)
LoopStep == EndCommands \/ Sweep \/ SweepOver \/ EndSweep \/ EndSelect
SelectStep == \E d \in Descrs : NewConnection(d) \/ Fails(d)

Next == CallStep \/ ProgramStep \/ CommandStep \/ LoopStep \/ SelectStep \/ Events

Spec == Init /\ [][Next]_vars

(* The main loop goes on. *)
FairSpec == Spec /\ WF_vars(CallStep) /\ WF_vars(CommandStep) /\ WF_vars(LoopStep)

-----------------------------------------------------------------------------
(* Properties. *)

(* A connection number is a place among those that are connected, in the   *)
(* order of the list, and no entry points to what is freed; except that a  *)
(* toad that is recycled before its descriptor is closed leaves its entry. *)
CountTableAgrees == TypeOK /\
    (orphaned \/ descr_count_table = CountTable(conn))

Of(p) == {d \in Connected : conn[d].player = p}

(* A player's descriptors, by which he is told, booted and found to be     *)
(* awake, are connected to him, each once; except after a "disconnect"     *)
(* program gave the descriptor to somebody else. They are all of those     *)
(* that are, unless his dbref is that of a toad who had not gone yet when  *)
(* it was taken: forget_player_descr() of the toad's descriptor drops a    *)
(* single entry without comparing it.                                      *)
PlayerTablesAgree ==
    usurped \/ \A p \in Players : type[p] = "player" =>
        /\ IsInjective(descrs[p]) /\ ToSet(descrs[p]) \subseteq Of(p)
        /\ p \in haunted \/ Of(p) \subseteq ToSet(descrs[p])

(* No pass and no call that has yet to go on holds a freed descriptor,     *)
(* whatever programs boot meanwhile.                                       *)
NoDanglingDescriptor ==
    /\ walk.next \in Open \cup {NOTHING}
    /\ \A n \in 1 .. Len(task) : task[n].d \in Open

(* When the limit of players is checked, the count that it is compared     *)
(* with is not below the number of those connected, though it is made anew *)
(* only in select(), and players are disconnected and come back meanwhile. *)
CountNotLow == task = << >> => con_players_curr >= Cardinality(Connected)

(* Whoever is booted is gone in the end, whatever programs do while he is  *)
(* disconnected.                                                           *)
BootedIsClosed == \A d \in Descrs : conn[d].booted ~> d \notin Open
=============================================================================
