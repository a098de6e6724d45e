------------------------------ MODULE Contents ------------------------------
(***************************************************************************)
(* Where the objects of the database are, and how they get there and to    *)
(* the free list: src/src/move.c, the loop checks with getparent() of      *)
(* db.c, @tel and @toad of wiz.c, the creation of objects in create.c and  *)
(* MOVETO and RECYCLE of p_db.c. Contents lists and the free list are      *)
(* threaded through the same "next" fields, as in the code.                *)
(*                                                                         *)
(* enter_room() runs programs, and these move and recycle objects while    *)
(* send_contents() walks a list and while recycle() empties one. A command *)
(* is therefore a stack of what is still to do (task): each step moves one *)
(* object, and a program may act where enter_room() runs propqueues.       *)
(*                                                                         *)
(* Left out: exits, pennies, messages, and who may do what to which object *)
(* (controls(), locks): every command is allowed that some player may do.  *)
(***************************************************************************)
EXTENDS Integers, Sequences, FiniteSets, SequencesExt

CONSTANTS
    db_top,             \* the objects are 0 .. db_top - 1
    Sticky,             \* objects with the STICKY flag
    Vehicle,            \* things with the VEHICLE flag
    Zombie,             \* things with the ZOMBIE flag
    Listener,           \* things with the LISTENER flag
    Linkable,           \* objects that a player may link others to
    MAX_PARENT_DEPTH,
    tp_player_start,
    tp_thing_movement,  \* do moving things act like players?
    Commands,           \* what players do
    ProgramsDo,         \* what the programs run by enter_room() do
    MaxPrograms         \* bound on the programs one command runs

Top == 0                \* GLOBAL_ENVIRONMENT
GOD == 1

ASSUME ObjectsAssumption == /\ db_top \in Nat /\ GOD < db_top
                            /\ tp_player_start \in 0 .. db_top - 1
                            /\ \A S \in {Sticky, Vehicle, Zombie, Listener, Linkable} : S \subseteq 0 .. db_top - 1
ASSUME TuneAssumption == /\ tp_thing_movement \in BOOLEAN
                         /\ MAX_PARENT_DEPTH \in Nat \ {0} /\ MaxPrograms \in Nat

Objs == 0 .. db_top - 1
NOTHING == -1
HOME == -3

VARIABLES
    db,                 \* the fields of the objects, and the head "recyclable"
    task,               \* what the command has still to do, the next first
    ran                 \* programs it has run

vars == <<db, task, ran>>

Refs == Objs \cup {NOTHING}
Types == {"room", "thing", "player", "program", "garbage"}

(* What is still to do: the loops of send_contents() and recycle() with    *)
(* their local variables, the calls that follow a loop, and the places of  *)
(* enter_room() where programs run.                                        *)
Frames == [does : {"send"}, loc : Objs, dest : Objs \cup {HOME}]
     \cup [does : {"sending"}, loc : Objs, dest : Objs \cup {HOME}, first : Refs]
     \cup [does : {"enter"}, what : Objs]
     \cup [does : {"moveto"}, what : Objs, where : Objs]
     \cup [does : {"send home"}, thing : Objs, puppethome : BOOLEAN]
     \cup [does : {"depart"}, old : Objs]
     \cup [does : {"arrive"}]
     \cup [does : {"toad"}, what : Objs, by : Objs, recipient : Objs]
     \cup [does : {"recycling"}, thing : Objs, last : Refs, looplimit : 0 .. db_top]

Db == [type : [Objs -> Types], location : [Objs -> Refs],
       contents : [Objs -> Refs], next : [Objs -> Refs],
       home : [Objs -> Refs], owner : [Objs -> Objs],
       dropto : [Objs -> Refs \cup {HOME}], recyclable : Refs]

TypeOK ==
    /\ db \in Db
    /\ task \in Seq(Frames)
    /\ ran \in 0 .. MaxPrograms

-----------------------------------------------------------------------------
(* Lists. *)

(* The list that starts with first, ended by NOTHING. *)
List(d, first) ==
    LET at[n \in 0 .. db_top] ==
          IF n = 0 THEN first
          ELSE LET prev == at[n - 1]
               IN IF prev = NOTHING THEN NOTHING ELSE d.next[prev]
    IN at

Ends(d, first) == List(d, first)[db_top] = NOTHING
Members(d, first) == {List(d, first)[n] : n \in 0 .. db_top} \ {NOTHING}

(* PUSH(what, DBFETCH(where)->contents) *)
Push(d, what, where) == [d EXCEPT !.next[what] = d.contents[where],
                                  !.contents[where] = what]

(* DBSTORE(loc, contents, remove_first(DBFETCH(loc)->contents, what)) *)
RemoveContent(d, loc, what) ==
    LET list == List(d, d.contents[loc])
        prevs == {n \in 1 .. db_top : list[n - 1] # NOTHING /\ list[n] = what}
    IN CASE list[0] = what -> [d EXCEPT !.contents[loc] = d.next[what]]
         [] list[0] # what /\ prevs # {} ->
              [d EXCEPT !.next[list[Min(prevs) - 1]] = d.next[what]]
         [] OTHER -> d

(* DBSTORE(loc, contents, reverse(DBFETCH(loc)->contents)) *)
ReverseContents(d, loc) ==
    LET first == d.contents[loc]
        members == Members(d, first)
        Before(o) == IF o = first THEN NOTHING
                     ELSE CHOOSE x \in members : d.next[x] = o
    IN IF first = NOTHING THEN d
       ELSE [d EXCEPT !.contents[loc] = CHOOSE o \in members : d.next[o] = NOTHING,
                      !.next = [o \in Objs |-> IF o \in members THEN Before(o) ELSE @[o]]]

-----------------------------------------------------------------------------
(* Slips: what a plausible mistake would make of the operators named after *)
(* them. They show that the properties can fail; nothing uses them.        *)

\* Only an object and its container are compared.
ParentCheckShallow(d, source, dest) == source = dest

-----------------------------------------------------------------------------
(* Parents and loops. *)

(* Where an object goes when it is sent HOME, without a check. *)
HomeOf(d, o) == CASE d.type[o] \in {"player", "thing"} -> d.home[o]
                  [] d.type[o] = "room" -> Top
                  [] OTHER -> d.owner[o]

(* The parent of a vehicle is its home, or the home of the player that is  *)
(* its home; of another object its location.                               *)
GetParentLogic(d, o) ==
    CASE o = NOTHING -> NOTHING
      [] o # NOTHING /\ d.type[o] = "thing" /\ o \in Vehicle ->
           LET home == d.home[o]
           IN IF home # NOTHING /\ d.type[home] = "player" THEN d.home[home] ELSE home
      [] OTHER -> d.location[o]

(* The first parent that is not a thing. A second pointer goes up twice as *)
(* fast: where the two meet there is a loop, and the parent is room 0.     *)
GetParent(d, o) ==
    LET up[n \in 1 .. 2 * db_top + 1] ==
          IF n = 1 THEN <<GetParentLogic(d, o)>>
          ELSE LET below == up[n - 1] IN Append(below, GetParentLogic(d, below[n - 1]))
        parents == up[2 * db_top + 1]
        Meets(n) == parents[n] \in {parents[2 * n], parents[2 * n + 1]}
        Stops(n) == parents[n] = NOTHING \/ d.type[parents[n]] # "thing" \/ Meets(n)
        stop == Min({n \in 1 .. db_top : Stops(n)})
    IN CASE tp_thing_movement -> d.location[o]
         [] ~tp_thing_movement /\ parents[stop] # NOTHING /\ Meets(stop) -> Top
         [] OTHER -> parents[stop]

(* Up the parents from dest, one comes to source, or not to the top in     *)
(* MAX_PARENT_DEPTH steps: because there is a loop, or many parents.       *)
Loops(parent, source, dest) ==
    LET up[n \in 0 .. MAX_PARENT_DEPTH] ==
          IF n = 0 THEN dest
          ELSE LET last == up[n - 1]
               IN IF last \in {NOTHING, Top} THEN last ELSE parent[last]
    IN \/ \E n \in 0 .. MAX_PARENT_DEPTH : up[n] = source
       \/ up[MAX_PARENT_DEPTH] \notin {NOTHING, Top}

LocationLoopCheck(d, source, dest) == Loops(d.location, source, dest)

ParentLoopCheck(d, source, dest) ==
    LET to == IF dest = HOME THEN HomeOf(d, source) ELSE dest
    IN \/ LocationLoopCheck(d, source, to)
       \/ Loops([o \in Objs |-> GetParent(d, o)], source, to)

(* Where an object goes that cannot go where it should. *)
Fallback(d, what) ==
    LET theirs == d.home[d.owner[what]]
    IN IF d.type[what] # "thing" \/ ~ParentLoopCheck(d, what, d.home[what])
         THEN HomeOf(d, what)
       ELSE IF ~ParentLoopCheck(d, what, theirs) THEN theirs
       ELSE tp_player_start

-----------------------------------------------------------------------------
(* Moves. *)

Moveto(d, what, where) ==
    LET out == IF d.location[what] = NOTHING THEN d
               ELSE RemoveContent(d, d.location[what], what)
        to == IF where = HOME \/ ParentLoopCheck(out, what, where)
                THEN Fallback(out, what) ELSE where
    IN CASE d.type[what] = "garbage" -> d
         [] d.type[what] # "garbage" /\ where = NOTHING ->
              [out EXCEPT !.location[what] = NOTHING]
         [] OTHER -> [Push(out, what, to) EXCEPT !.location[what] = to]

(* Where enter_room() takes an object. *)
Entered(d, what, where) ==
    LET loc == IF where = HOME THEN d.home[what] ELSE where
    IN IF ParentLoopCheck(d, what, loc) THEN Fallback(d, what) ELSE loc

EnterRoom(d, what, where) ==
    IF Entered(d, what, where) = d.location[what] THEN d
    ELSE Moveto(d, what, Entered(d, what, where))

(* Then programs run for the departure; after the dropto, for the arrival. *)
Afterwards(d, what, where) ==
    LET old == d.location[what]
    IN IF Entered(d, what, where) = old \/ old = NOTHING
         THEN <<[does |-> "arrive"]>>
       ELSE <<[does |-> "depart", old |-> old], [does |-> "arrive"]>>

(* A movement by enter_room() or by moveto(), and what is to do after it. *)
Enters(d, what, where) == [db |-> EnterRoom(d, what, where),
                           then |-> Afterwards(d, what, where)]
Moves(d, what, where) == [db |-> Moveto(d, what, where), then |-> << >>]
ThingMoves(d, what, where) ==
    IF tp_thing_movement /\ d.type[what] = "thing"
      THEN Enters(d, what, where) ELSE Moves(d, what, where)

-----------------------------------------------------------------------------
(* The steps of a command. *)

(* A step of the frame at the top: move.then takes its place. *)
Doing(does) == task # << >> /\ Head(task).does = does
Continue(move) == /\ db' = move.db
                  /\ task' = move.then \o Tail(task)
                  /\ UNCHANGED ran

(* send_contents(): takes the list off loc, *)
Send ==
    /\ Doing("send")
    /\ LET loc == Head(task).loc
           first == db.contents[loc]
       IN Continue([db |-> [db EXCEPT !.contents[loc] = NOTHING,
                                      !.location = [o \in Objs |->
                                          IF o \in Members(db, first) THEN NOTHING ELSE @[o]]],
                    then |-> <<[does |-> "sending", loc |-> loc,
                                dest |-> Head(task).dest, first |-> first]>>])

\* Slip: the next object is read after the move.
SendingReadsLate ==
    /\ Doing("sending") /\ Head(task).first # NOTHING
    /\ LET walk == Head(task)
           moved == Moveto(db, walk.first, IF ParentLoopCheck(db, walk.first, walk.dest)
                                             THEN walk.loc ELSE walk.dest)
       IN Continue([db |-> moved, then |-> <<[walk EXCEPT !.first = moved.next[walk.first]]>>])
(* puts back what is neither a thing nor a program and sends the others to *)
(* dest, where they fit, *)
Sending ==
    /\ Doing("sending") /\ Head(task).first # NOTHING
    /\ LET walk == Head(task)
           first == walk.first
           where == IF first \in Sticky THEN HOME ELSE walk.dest
           fits == IF ParentLoopCheck(db, first, where) THEN walk.loc ELSE where
           move == IF db.type[first] \notin {"thing", "program"}
                     THEN Moves(db, first, walk.loc)
                     ELSE ThingMoves(db, first, fits)
       IN Continue([move EXCEPT !.then = @ \o <<[walk EXCEPT !.first = db.next[first]]>>])

(* and reverses what came back. *)
Sent ==
    /\ Doing("sending") /\ Head(task).first = NOTHING
    /\ Continue([db |-> ReverseContents(db, Head(task).loc), then |-> << >>])

Enter == /\ Doing("enter")
         /\ Continue(Enters(db, Head(task).what, HOME))

MoveOn == /\ Doing("moveto")
          /\ Continue(Moves(db, Head(task).what, Head(task).where))

(* Players send their possessions home before them; so do things that do   *)
(* what players do (puppethome), of which programs may make garbage then.  *)
SendHome ==
    /\ Doing("send home")
    /\ LET thing == Head(task).thing
           puppet == Head(task).puppethome
           type == db.type[thing]
           sends == <<[does |-> "send", loc |-> thing, dest |-> HOME]>>
           goes == <<[does |-> "enter", what |-> thing]>>
       IN Continue(
            CASE type = "player" -> [db |-> db, then |-> sends \o goes]
              [] type = "thing" /\ puppet ->
                   [db |-> db, then |->
                     sends \o <<[does |-> "send home", thing |-> thing, puppethome |-> FALSE]>>]
              [] /\ type = "thing" /\ ~puppet
                 /\ tp_thing_movement \/ thing \in Zombie \cup Listener ->
                   [db |-> db, then |-> goes]
              [] OTHER -> Moves(db, thing, HOME))

(* After the departure: maybe_dropto(), if the room has a STICKY dropto    *)
(* and no player and no puppet is left.                                    *)
Depart ==
    /\ Doing("depart")
    /\ LET old == Head(task).old
           dropto == db.dropto[old]
           sends == /\ db.type[old] = "room" /\ old \in Sticky
                    /\ dropto \notin {NOTHING, old}
                    /\ \A o \in Members(db, db.contents[old]) :
                          db.type[o] # "player" /\ o \notin Zombie
       IN Continue([db |-> db,
                    then |-> IF sends THEN <<[does |-> "send", loc |-> old, dest |-> dropto]>>
                             ELSE << >>])

Arrive ==
    /\ Doing("arrive")
    /\ Continue([db |-> db, then |-> << >>])

Here(loc) == {o \in Objs : db.location[o] = loc}

(* The loop of recycle() over what is in the thing. *)
Recycling ==
    /\ Doing("recycling")
    /\ LET r == Head(task)
           first == db.contents[r.thing]
           again == [r EXCEPT !.last = first, !.looplimit = @ - 1]
           dragged == r.last \in Here(r.thing)
           walks == \/ db.type[first] = "player"
                    \/ db.type[first] = "thing"
                       /\ (tp_thing_movement \/ first \in Zombie \cup Vehicle)
           move == IF walks THEN Enters(db, first, HOME) ELSE Moves(db, first, HOME)
       IN \/ /\ dragged
             /\ Continue([db |-> Moveto(db, r.last, HOME), then |-> <<[r EXCEPT !.last = NOTHING]>>])
          \/ /\ ~dragged /\ first # NOTHING /\ r.looplimit > 0
             /\ Continue([move EXCEPT !.then = @ \o
                             <<IF walks THEN again ELSE [again EXCEPT !.last = NOTHING]>>])

Recycled ==
    /\ Doing("recycling")
    /\ LET thing == Head(task).thing
           last == Head(task).last
           moved == Moveto(db, thing, NOTHING)
       IN /\ last \notin Here(thing)
          /\ db.contents[thing] = NOTHING \/ Head(task).looplimit = 0
          /\ Continue([db |-> [moved EXCEPT !.type[thing] = "garbage",
                                            !.location[thing] = NOTHING,
                                            !.contents[thing] = NOTHING,
                                            !.home[thing] = NOTHING,
                                            !.dropto[thing] = NOTHING,
                                            !.owner[thing] = 0,
                                            !.next[thing] = db.recyclable,
                                            !.recyclable = thing],
                       then |-> << >>])

\* What leads to the thing leads to what is after it.
Skipped(d, thing, o) ==
    LET skip(x) == IF x = thing THEN d.next[thing] ELSE x
    IN [d EXCEPT !.contents[o] = skip(@), !.next[o] = skip(@)]

\* A thing whose home is recycled lives with its owner, or with him, or at #0.
Homeless(d, thing, o) ==
    LET owner == d.owner[o]
        e == IF d.home[owner] = thing
               THEN [d EXCEPT !.home[owner] = tp_player_start] ELSE d
    IN [e EXCEPT !.home[o] =
           CASE ~ParentLoopCheck(e, o, e.home[owner]) -> e.home[owner]
             [] ParentLoopCheck(e, o, e.home[owner]) /\ ~ParentLoopCheck(e, o, owner) -> owner
             [] OTHER -> Top]

Rehomed(d, thing, o) ==
    CASE d.type[o] = "room" /\ d.dropto[o] = thing -> [d EXCEPT !.dropto[o] = NOTHING]
      [] d.type[o] = "thing" /\ d.home[o] = thing -> Homeless(d, thing, o)
      [] d.type[o] = "player" /\ d.home[o] = thing -> [d EXCEPT !.home[o] = tp_player_start]
      [] OTHER -> d

\* What it owned is GOD's. (It is no destination of an exit any more, either.)
Disowned(d, thing, o) ==
    IF d.owner[o] = thing /\ d.type[o] \in {"room", "thing", "program"}
      THEN [d EXCEPT !.owner[o] = GOD] ELSE d

\* Slips: the thing is left in its list, or references to it are left.
UnlinkedNot(d, thing) == d
UnlinkedKeepsHomes(d, thing) ==
    LET done[n \in 0 .. db_top] ==
            IF n = 0 THEN d ELSE Skipped(done[n - 1], thing, n - 1)
    IN done[db_top]

(* What recycle() does first: every reference to the thing is replaced, in *)
(* the order of the objects, and it is taken out of its list.              *)
Unlinked(d, thing) ==
    LET done[n \in 0 .. db_top] ==
            IF n = 0 THEN d
            ELSE Skipped(Disowned(Rehomed(done[n - 1], thing, n - 1), thing, n - 1), thing, n - 1)
    IN done[db_top]

Recycle(d, thing) ==
    [db |-> Unlinked(d, thing),
     then |-> <<[does |-> "recycling", thing |-> thing, last |-> NOTHING,
                 looplimit |-> db_top]>>]
-----------------------------------------------------------------------------
(* The commands of the players. *)

Is(types, o) == o \in Objs /\ db.type[o] \in types
Enterable(o) == Is({"room"}, o) \/ (Is({"thing"}, o) /\ o \in Vehicle)
Command(name) == task = << >> /\ name \in Commands
CanGo(what, where) == ~ParentLoopCheck(db, what, where)

Then(frames) == [db |-> db, then |-> frames]
Does(name, move) == /\ Command(name)
                    /\ db' = move.db /\ task' = move.then /\ ran' = 0

(* An exit to a room, to the vehicle it is attached to, to a player. *)
Trigger(player, dest) ==
    /\ Is({"player"}, player) /\ CanGo(player, dest)
    /\ \/ /\ Is({"room"}, dest) \/ (Is({"thing"}, dest) /\ dest \in Vehicle)
          /\ Does("go", Enters(db, player, dest))
       \/ /\ Is({"player"}, dest) /\ db.location[dest] # NOTHING
          /\ Does("go", Enters(db, player, db.location[dest]))

(* An exit to a thing, attached to "at": the thing comes to where at is,   *)
(* if that is a thing, which may be sent home, or else to it.              *)
Summon(dest, at, sobjact) ==
    LET to == IF Is({"thing"}, at) THEN db.location[at] ELSE at
        move == ThingMoves(db, dest, to)
        home == IF Is({"thing"}, at) /\ sobjact
                  THEN <<[does |-> "send home", thing |-> at, puppethome |-> FALSE]>> ELSE << >>
    IN /\ Is({"thing"}, dest) /\ Is({"room", "thing", "player"}, at)
       /\ ~(dest = at /\ at \in Vehicle) /\ to # NOTHING /\ CanGo(dest, to)
       /\ Does("summon", [move EXCEPT !.then = @ \o home])

Leave(player) ==
    LET loc == db.location[player]
        dest == db.location[loc]
    IN /\ Is({"player"}, player) /\ Is({"thing"}, loc) /\ loc \in Vehicle
       /\ Is({"room", "thing"}, dest) /\ CanGo(player, dest)
       /\ Does("go", Enters(db, player, dest))

Get(player, thing) ==
    /\ Is({"player"}, player) /\ Is({"thing", "program"}, thing)
    /\ db.location[thing] # player /\ CanGo(thing, player)
    /\ Does("get", ThingMoves(db, thing, player))

Drop(player, thing, cont) ==
    LET dropto == db.dropto[cont]
        to == IF Is({"room"}, cont) /\ dropto # NOTHING /\ cont \notin Sticky
                THEN dropto ELSE cont
    IN /\ Is({"player"}, player) /\ Is({"thing", "program"}, thing)
       /\ db.location[thing] = player
       /\ Is({"room", "player", "thing"}, cont) /\ CanGo(thing, cont)
       /\ Does("drop", IF Is({"room"}, cont) /\ Is({"thing"}, thing) /\ thing \in Sticky
                         THEN Then(<<[does |-> "send home", thing |-> thing, puppethome |-> FALSE]>>)
                         ELSE ThingMoves(db, thing, to))

(* "home", which things may be forced to say, too.                         *)
Home(player) ==
    /\ Is({"player", "thing"}, player)
    /\ Does("home", Then(<<[does |-> "send home", thing |-> player, puppethome |-> TRUE]>>))

(* @tel, which knows droptos, *)
Teleport(victim, dest) ==
    LET dropto == db.dropto[dest]
        to == IF Is({"room"}, dest) /\ dropto # NOTHING /\ dest \notin Sticky
                THEN dropto ELSE dest
    IN \/ /\ Is({"player"}, victim) /\ Is({"room", "thing"}, dest) /\ CanGo(victim, dest)
          /\ Does("tel", Enters(db, victim, dest))
       \/ /\ Is({"thing", "program"}, victim) /\ Is({"room", "player", "thing"}, dest)
          /\ (Is({"program"}, victim) \/ CanGo(victim, dest))
          /\ Does("tel", ThingMoves(db, victim, to))
       \/ /\ Is({"room"}, victim) /\ Is({"room"}, dest) /\ victim # Top /\ CanGo(victim, dest)
          /\ Does("tel", Moves(db, victim, dest))

(* and the movements of MOVETO, which does not. *)
Moved(victim, dest) ==
    CASE Is({"player"}, victim) -> Enters(db, victim, dest)
      [] Is({"thing"}, victim) /\ (tp_thing_movement \/ victim \in Zombie) ->
           Enters(db, victim, dest)
      [] OTHER -> Moves(db, victim, dest)

MayMove(victim, dest) ==
    \/ /\ Is({"player"}, victim) /\ CanGo(victim, dest)
       /\ Enterable(dest)
    \/ /\ Is({"thing"}, victim) /\ Is({"room", "player", "thing"}, dest) /\ CanGo(victim, dest)
    \/ Is({"program"}, victim) /\ Is({"room", "player", "thing"}, dest)
    \/ /\ Is({"room"}, victim) /\ victim # Top /\ CanGo(victim, dest)
       /\ Is(IF tp_thing_movement THEN Types \ {"garbage"} ELSE {"room"}, dest)

\* Slip: the object stays on the free list.
NewStaysFree(type, location, home, owner) ==
    LET new == db.recyclable
    IN Push([db EXCEPT !.type[new] = type, !.location[new] = location,
                       !.contents[new] = NOTHING, !.home[new] = home,
                       !.owner[new] = owner, !.dropto[new] = NOTHING], new, location)

(* The next object of the free list, without what it was before. *)
New(type, location, home, owner) ==
    LET new == db.recyclable
    IN Push([db EXCEPT !.recyclable = db.next[new],
                       !.type[new] = type, !.location[new] = location,
                       !.contents[new] = NOTHING, !.home[new] = home,
                       !.owner[new] = owner, !.dropto[new] = NOTHING], new, location)

(* @create and @clone; a program that is made by @prog has no home. *)
Create(player, type, home) ==
    /\ Is({"player"}, player) /\ db.recyclable # NOTHING
    /\ \/ type = "program" /\ home = NOTHING
       \/ type = "thing" /\ home = db.location[player] /\ home # NOTHING
       \/ type = "thing" /\ home = player
       \/ type = "thing" /\ \E thing \in Objs : Is({"thing"}, thing) /\ home = db.home[thing]
    /\ Does("create", [db |-> New(type, player, home, player), then |-> << >>])

(* @dig, in a room that is ABODE above the player or the default one, and  *)
(* then with a parent that rooms can be linked to.                         *)
Dig(player, parent) ==
    /\ Is({"player"}, player) /\ db.recyclable # NOTHING
    /\ parent \in Linkable /\ Is({"room", "thing"}, parent)
    /\ Does("dig", [db |-> New("room", Top, NOTHING, player),
                    then |-> <<[does |-> "moveto", what |-> db.recyclable, where |-> parent]>>])

Link(thing, dest) ==
    /\ dest \in Linkable /\ CanGo(thing, dest)
    /\ \/ Is({"thing"}, thing) /\ Is({"room", "player", "thing"}, dest)
       \/ Is({"player"}, thing) /\ Is({"room"}, dest)
    /\ Does("link", [db |-> [db EXCEPT !.home[thing] = dest], then |-> << >>])

LinkRoom(room, dest) ==
    /\ Is({"room"}, room) /\ dest # room
    /\ dest = HOME \/ (dest \in Linkable /\ Is({"room", "thing"}, dest))
    /\ Does("dropto", [db |-> [db EXCEPT !.dropto[room] = dest], then |-> << >>])

Unlink(thing) ==
    /\ Is({"thing", "player", "room"}, thing)
    /\ Does("unlink",
            [db |-> CASE db.type[thing] = "thing" -> [db EXCEPT !.home[thing] = db.owner[thing]]
                      [] db.type[thing] = "player" -> [db EXCEPT !.home[thing] = tp_player_start]
                      [] OTHER -> [db EXCEPT !.dropto[thing] = NOTHING],
             then |-> << >>])

(* @recycle and RECYCLE: not a player, not room 0, not where players start. *)
MayRecycle(thing) == /\ Is({"room", "thing", "program"}, thing)
                     /\ thing \notin {Top, tp_player_start}

DoRecycle(thing) == MayRecycle(thing) /\ Does("recycle", Recycle(db, thing))

(* @toad: sends the player's possessions home, then makes him a thing.     *)
Toad(player, victim, recipient) ==
    /\ Is({"player"}, player) /\ Is({"player"}, recipient)
    /\ Is({"player"}, victim) /\ victim \notin {player, recipient}
    /\ Does("toad", [db |-> db,
            then |-> <<[does |-> "send", loc |-> victim, dest |-> HOME],
                       [does |-> "toad", what |-> victim, by |-> player,
                        recipient |-> recipient]>>])

Toaded ==
    /\ Doing("toad")
    /\ LET t == Head(task)
       IN Continue([db |-> [db EXCEPT
              !.owner = [o \in Objs |-> IF o = t.what THEN t.by
                                        ELSE IF @[o] = t.what THEN t.recipient ELSE @[o]],
              !.home = [o \in Objs |-> IF o = t.what THEN db.home[t.by]
                                       ELSE IF db.type[o] = "thing" /\ @[o] = t.what
                                              THEN tp_player_start ELSE @[o]],
              !.type[t.what] = "thing"], then |-> << >>])

-----------------------------------------------------------------------------
(* A program that enter_room() runs moves an object with MOVETO or         *)
(* recycles one. Where "recycle again" is not in ProgramsDo, it does not   *)
(* recycle what is being recycled.                                         *)
Runs(move) == /\ (Doing("depart") \/ Doing("arrive"))
              /\ ran < MaxPrograms
              /\ db' = move.db /\ task' = move.then \o task /\ ran' = ran + 1

BeingRecycled(thing) ==
    \E i \in 1 .. Len(task) : task[i].does = "recycling" /\ task[i].thing = thing

ProgramMoves(victim, dest) ==
    /\ "moveto" \in ProgramsDo /\ MayMove(victim, dest)
    /\ Runs(Moved(victim, dest))

ProgramRecycles(thing) ==
    /\ "recycle" \in ProgramsDo /\ MayRecycle(thing)
    /\ BeingRecycled(thing) => "recycle again" \in ProgramsDo
    /\ Runs(Recycle(db, thing))

PlayerActs ==
    \/ \E a, b \in Objs : \/ Trigger(a, b) \/ Get(a, b) \/ Teleport(a, b)
                          \/ Dig(a, b) \/ Link(a, b)
                          \/ \E c \in Objs : Drop(a, b, c) \/ Toad(a, b, c)
                          \/ \E sobjact \in BOOLEAN : Summon(a, b, sobjact)
    \/ \E a \in Objs : \/ Leave(a) \/ Home(a) \/ DoRecycle(a) \/ Unlink(a)
                       \/ \E b \in Objs \cup {HOME} : LinkRoom(a, b)
                       \/ \E type \in {"thing", "program"}, home \in Refs : Create(a, type, home)

Step == \/ Send \/ Sending \/ Sent \/ Enter \/ MoveOn \/ SendHome \/ Depart \/ Arrive
        \/ Recycling \/ Recycled \/ Toaded

ProgramActs == \/ \E a, b \in Objs : ProgramMoves(a, b)
               \/ \E a \in Objs : ProgramRecycles(a)

Next == PlayerActs \/ Step \/ ProgramActs

-----------------------------------------------------------------------------
(* Init: a database where room 0 holds the rooms, and a player his things. *)
Initial(types, location, home, owner) ==
    LET here(o) == {x \in Objs : types[x] # "garbage" /\ location[x] = o}
        least(S) == IF S = {} THEN NOTHING ELSE CHOOSE x \in S : \A y \in S : x <= y
        garbage == {x \in Objs : types[x] = "garbage"}
        kin(x) == IF x \in garbage THEN garbage
                  ELSE IF location[x] = NOTHING THEN {} ELSE here(location[x])
    IN [type |-> types, location |-> location,
        contents |-> [o \in Objs |-> least(here(o))],
        next |-> [o \in Objs |-> least({x \in kin(o) : x > o})],
        home |-> home, owner |-> owner,
        dropto |-> [o \in Objs |-> NOTHING], recyclable |-> least(garbage)]

CONSTANTS Type0, Location0, Home0, Owner0       \* the first database

Containers == {"room", "thing", "player"}

ASSUME FirstAssumption ==
    /\ Type0 \in [Objs -> Types] /\ Location0 \in [Objs -> Refs]
    /\ Home0 \in [Objs -> Refs] /\ Owner0 \in [Objs -> Objs]
    /\ Type0[Top] = "room" /\ Type0[tp_player_start] = "room"
    /\ \A o \in Objs :
        IF Type0[o] = "garbage" THEN Location0[o] = NOTHING
        ELSE /\ Location0[o] # NOTHING => Type0[Location0[o]] \in Containers
             /\ Type0[Owner0[o]] = "player"
             /\ Type0[o] = "thing" => Home0[o] # NOTHING /\ Type0[Home0[o]] \in Containers
             /\ Type0[o] = "player" => Home0[o] # NOTHING /\ Type0[Home0[o]] = "room"

(* Room 0 is the only one that is nowhere (sanity.c:463), and nothing is   *)
(* inside itself.                                                          *)
ASSUME FirstTree ==
    /\ Location0[Top] = NOTHING
    /\ \A o \in Objs \ {Top} : Type0[o] # "garbage" => Location0[o] # NOTHING
    /\ \A S \in (SUBSET Objs) \ {{}} : \E o \in S : Location0[o] \notin S

Init == /\ db = Initial(Type0, Location0, Home0, Owner0)
        /\ task = << >> /\ ran = 0

Spec == Init /\ [][Next]_vars

(* The server does nothing else before a command is done: weak fairness of *)
(* Step, which is enabled while there is something to do.                  *)
StepsGoOn == []<>(task = << >>) \/ []<><<Step>>_vars
FairSpec == Spec /\ StepsGoOn

-----------------------------------------------------------------------------
(* Properties. *)

Garbage == {o \in Objs : db.type[o] = "garbage"}
Doomed == {o \in Objs : BeingRecycled(o)}

(* Every list of contents ends, and holds the objects that say that they   *)
(* are there, but for one whose recycling has begun, which is taken out. In *)
(* the middle of a command too: send_contents() has taken the list off.    *)
(* The free list, threaded through the same fields, holds what is garbage. *)
(* Where programs recycle what a walk of send_contents() puts back into,   *)
(* this fails; it is a property of what the commands do by themselves.     *)
ListsAgree ==
    /\ \A o \in Objs \ Garbage :
        /\ Ends(db, db.contents[o])
        /\ Members(db, db.contents[o]) \subseteq Here(o)
        /\ Here(o) \ Members(db, db.contents[o]) \subseteq Doomed
    /\ Ends(db, db.recyclable) /\ Members(db, db.recyclable) = Garbage

(* Nothing refers to garbage: homes, owners and droptos are objects that   *)
(* are there, owners are players, and players live in rooms.               *)
NoDanglingReference == TypeOK /\
    \A o \in Objs \ Garbage :
        /\ db.type[db.owner[o]] = "player"
        /\ Is({"thing"}, o) => Is({"room", "player", "thing"}, db.home[o])
        /\ Is({"player"}, o) => Is({"room"}, db.home[o])
        /\ db.dropto[o] \in Objs => Is({"room", "thing"}, db.dropto[o])

\* o, what it is in, and so on up to room 0.
Up(o) ==
    LET up[n \in 0 .. db_top] ==
          IF n = 0 THEN o
          ELSE LET o1 == up[n - 1]
               IN IF o1 \in {NOTHING, Top} THEN o1 ELSE db.location[o1]
    IN up

(* Between two commands everything is somewhere, and finds its way to #0.  *)
WayToTop == task = << >> => \A o \in Objs \ Garbage : Up(o)[db_top] = Top

(* The database is one whose objects are lifted and put: none ever gets    *)
(* inside itself, and what is recycled is empty. What is being recycled    *)
(* counts as lifted: it is in no list. For commands alone, like ListsAgree. *)
P == INSTANCE Places WITH
       place <- [o \in Objs |-> IF o \in Doomed THEN NOTHING ELSE db.location[o]],
       live <- Objs \ Garbage

ImplementsPlaces == P!Spec

(* A command comes to its end: no list is walked for ever, though programs *)
(* put back into a room what recycle() takes out.                          *)
CommandEnds == task # << >> ~> task = << >>
=============================================================================
