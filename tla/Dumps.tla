------------------------------- MODULE Dumps --------------------------------
(***************************************************************************)
(* How the database gets to disk and back: src/src/game.c and the writers  *)
(* of db.c in the default build (DELTADUMPS, no DISKBASE), where a forked  *)
(* child writes the whole database to a temporary file, renames it and     *)
(* empties the file of deltas, while the server goes on and appends the    *)
(* objects that change to the deltas; panic() with its file of its own;    *)
(* and game/restart.in, which makes of all these files what the next       *)
(* server reads. Processes die at any step.                                *)
(*                                                                         *)
(* The server learns of the end of a child by SIGCHLD, and has two kinds   *)
(* of children: the dumper, and the resolver of host names.                *)
(*                                                                         *)
(* The files hold versions: an object is the number of its last change.    *)
(* Left out: macros, the time stamp that each dump writes to object 0,     *)
(* failing opens, a machine that loses what was written before a rename,   *)
(* a number that the system gives to two children, and a restart while the *)
(* child of the dead server still writes.                                  *)
(***************************************************************************)
EXTENDS Integers, Sequences, FiniteSets

CONSTANTS
    Objs,           \* the objects of the database
    MaxChanges,     \* bound on changes of the database
    MaxEpoch,       \* bound on the dumps of one server
    MaxCrashes      \* bound on processes that die

ASSUME DumpsAssumption == {MaxChanges, MaxEpoch, MaxCrashes} \subseteq Nat

VARIABLES
    db,             \* the database in memory: the last change of each object
    now,            \* the last change
    changed,        \* objects with the OBJECT_CHANGED flag
    epoch,
    server,         \* what the server does
    dump,           \* the dumps of the child and of the server itself
    dumper_pid,     \* global_dumper_pid is not 0
    resolver,       \* the other child of the server
    sigchld,        \* a SIGCHLD is pending: there is never more than one
    missed,         \* a SIGCHLD for the dumper found another child, or came too early
    files,          \* the files of the game directory
    past,           \* the states of the database since this server started
    saved,          \* the state at the last save that was finished
    overtaken,      \* of two dumps that overlap, one has undone what the other or a delta saved
    cut,            \* a dump died between its rename and its truncation
    crashes

mem == <<db, now, changed>>
children == <<dumper_pid, resolver, sigchld, missed>>
ghosts == <<past, saved, overtaken, cut, crashes>>
vars == <<mem, epoch, server, dump, children, files, ghosts>>

Images == [Objs -> 0 .. MaxChanges]
ObjectLists == UNION {[S -> 0 .. MaxChanges] : S \in SUBSET Objs}
Dumpers == {"child", "server"}

Absent == [is |-> "absent"]
Part == [is |-> "part"]     \* without END OF DUMP at its end
Whole(image) == [is |-> "whole", image |-> image]
Files == {Absent, Part} \cup {Whole(image) : image \in Images}
Idle == [at |-> "idle", epoch |-> 0, image |-> [o \in Objs |-> 0]]

TypeOK ==
    /\ db \in Images /\ now \in 0 .. MaxChanges /\ changed \in SUBSET Objs
    /\ epoch \in 0 .. MaxEpoch
    /\ server \in {"up", "forking", "writing", "shutdown", "panicking", "panicked", "dead"}
    /\ dump \in [Dumpers -> [at : {"idle", "forked", "writing", "closed", "renamed", "done"},
                             epoch : 0 .. MaxEpoch, image : Images]]
    /\ {dumper_pid, sigchld, missed} \subseteq BOOLEAN
    /\ resolver \in {"up", "done"}
    /\ files \in [tmp : [0 .. MaxEpoch -> Files], dbin : Files, dbout : Files, panic : Files,
                  deltas : Seq(ObjectLists), torn : BOOLEAN, holed : BOOLEAN]
    /\ saved \in Images /\ past \subseteq Images
    /\ overtaken \in BOOLEAN /\ cut \in BOOLEAN /\ crashes \in 0 .. MaxCrashes
    \* global_dumper_pid is set while there is a child, and afterwards only if
    \* its end was missed; the server's own dump is the one of the shutdown
    /\ server \in {"up", "writing"} /\ dump["child"].at # "idle" => dumper_pid
    /\ dumper_pid => server \notin {"forking", "dead"}
    /\ (dumper_pid \/ server = "forking") /\ dump["child"].at = "idle" => missed
    /\ dump["server"].at # "idle" => server = "shutdown"

-----------------------------------------------------------------------------
(* game/restart.in *)

(* The objects of a dump, where the deltas do not have later ones. *)
Applied(image, deltas) ==
    [o \in Objs |-> LET of == {i \in 1 .. Len(deltas) : o \in DOMAIN deltas[i]}
                    IN IF of = {} THEN image[o]
                       ELSE deltas[CHOOSE i \in of : \A j \in of : j <= i][o]]

(* The delta dumps that are complete: the server may have died in the last. *)
(* A hole at their beginning is no header of deltas, and db_read() ends.   *)
Deltas == IF files.holed THEN << >>
          ELSE IF files.torn THEN SubSeq(files.deltas, 1, Len(files.deltas) - 1) ELSE files.deltas

(* The last dump; else the one the server had read. *)
Base == IF files.dbout.is = "absent" THEN files.dbin.image ELSE files.dbout.image

\* Slip: the deltas are left out where there is a new dump.
RestoredFromDump ==
    IF files.panic.is = "whole" THEN files.panic.image
    ELSE IF files.dbout.is = "absent" THEN Applied(Base, Deltas) ELSE Base

(* A panic dump that is complete comes first, without the deltas, which go *)
(* on top of any other.                                                    *)
Restored == IF files.panic.is = "whole" THEN files.panic.image ELSE Applied(Base, Deltas)

-----------------------------------------------------------------------------
(* The server. *)

Saving == dump["child"].at \in {"forked", "writing", "closed", "renamed"}
Running == server \in {"up", "forking", "writing"}
Childless == dumper_pid' = FALSE /\ resolver' = "up" /\ sigchld' = FALSE /\ missed' = FALSE
MaySave == server = "up" /\ epoch < MaxEpoch

(* A command changes some objects. *)
Change(S) ==
    /\ server = "up" /\ now < MaxChanges
    /\ now' = now + 1
    /\ db' = [o \in Objs |-> IF o \in S THEN now + 1 ELSE db[o]]
    /\ changed' = changed \cup S
    /\ past' = past \cup {db'}
    /\ UNCHANGED <<epoch, server, dump, children, files, saved, overtaken, cut, crashes>>

Delta == [o \in changed |-> db[o]]

(* dump_deltas(), when it is not time for a monolithic dump: the server    *)
(* goes to the end of the file,                                            *)
DeltasStart ==
    /\ MaySave
    /\ server' = "writing" /\ epoch' = epoch + 1
    /\ UNCHANGED <<mem, dump, children, files, ghosts>>

WithDelta == IF files.torn THEN files.deltas ELSE Append(files.deltas, Delta)

(* writes a part of what changed,                                          *)
DeltasPart ==
    /\ server = "writing" /\ ~files.torn /\ changed # {}
    /\ files' = [files EXCEPT !.deltas = WithDelta, !.torn = TRUE]
    /\ UNCHANGED <<mem, epoch, server, dump, children, ghosts>>

\* Slip: only the first object is written.
DeltasWrittenOne ==
    /\ server = "writing" /\ server' = "up"
    /\ files' = [files EXCEPT !.deltas = Append(@, [o \in {x \in changed : \A y \in changed : db[x] <= db[y]} |-> db[o]]),
                              !.torn = FALSE]
    /\ changed' = {} /\ saved' = db /\ overtaken' = (overtaken \/ files.holed)
    /\ UNCHANGED <<db, now, epoch, dump, children, past, cut, crashes>>

(* and all of it. The changes are forgotten, whether or not what was       *)
(* written can be read.                                                    *)
DeltasWritten ==
    /\ server = "writing" /\ server' = "up"
    /\ files' = [files EXCEPT !.deltas = WithDelta, !.torn = FALSE]
    /\ changed' = {} /\ saved' = db /\ overtaken' = (overtaken \/ files.holed)
    /\ UNCHANGED <<db, now, epoch, dump, children, past, cut, crashes>>

(* fork_and_dump(), by the clock, by @dump or by @delta: there is a child, *)
Fork ==
    /\ MaySave /\ ~dumper_pid
    /\ server' = "forking" /\ epoch' = epoch + 1
    /\ dump' = [dump EXCEPT !["child"] = [at |-> "forked", epoch |-> epoch + 1, image |-> db]]
    /\ UNCHANGED <<mem, children, files, ghosts>>

(* and then global_dumper_pid is assigned what fork() has returned.        *)
Forked ==
    /\ server = "forking" /\ server' = "up" /\ dumper_pid' = TRUE
    /\ UNCHANGED <<mem, epoch, dump, resolver, sigchld, missed, files, ghosts>>

(* Dump already in progress, or no process to be had: the number is used   *)
(* up.                                                                     *)
SkipDump ==
    /\ MaySave
    /\ epoch' = epoch + 1
    /\ UNCHANGED <<mem, server, dump, children, files, ghosts>>

(* The server's last dump is its own: dump_database(). *)
Shutdown ==
    /\ MaySave
    /\ server' = "shutdown" /\ epoch' = epoch + 1
    /\ dump' = [dump EXCEPT !["server"] = [at |-> "forked", epoch |-> epoch + 1, image |-> db]]
    /\ UNCHANGED <<mem, children, files, ghosts>>

-----------------------------------------------------------------------------
(* dump_database_internal(), in the child or in the server. *)

Goes(d, from, to) == /\ dump[d].at = from
                     /\ dump' = [dump EXCEPT ![d] = IF to \in {"done", "idle"} THEN [Idle EXCEPT !.at = to]
                                                    ELSE [@ EXCEPT !.at = to]]

(* "nuke our predecessor", and open the file. *)
DumpOpen(d) ==
    /\ Goes(d, "forked", "writing")
    /\ files' = [files EXCEPT !.tmp[dump[d].epoch - 1] = Absent, !.tmp[dump[d].epoch] = Part]
    /\ UNCHANGED <<mem, epoch, server, children, ghosts>>

(* db_write() and fclose(): where the file is still there it is complete.  *)
(* The flags are cleared, which only the server itself can see.            *)
DumpWrite(d) ==
    /\ Goes(d, "writing", "closed")
    /\ files' = [files EXCEPT !.tmp[dump[d].epoch] = IF @.is = "part" THEN Whole(dump[d].image) ELSE @]
    /\ changed' = IF d = "server" THEN {} ELSE changed
    /\ UNCHANGED <<db, now, epoch, server, children, ghosts>>

NoOlder(image, than) == \A o \in Objs : image[o] >= than[o]

(* rename(), which fails if a later dump has removed the file: then the    *)
(* deltas will be emptied for nothing.                                     *)
DumpRename(d) ==
    /\ Goes(d, "closed", "renamed")
    /\ LET file == files.tmp[dump[d].epoch]
       IN IF file.is = "absent"
          THEN overtaken' = TRUE /\ UNCHANGED files
          ELSE /\ overtaken' = (overtaken \/ (files.dbout.is # "absent"
                                               /\ ~ NoOlder(file.image, files.dbout.image)))
               /\ files' = [files EXCEPT !.dbout = file, !.tmp[dump[d].epoch] = Absent]
    /\ UNCHANGED <<mem, epoch, server, children, past, saved, cut, crashes>>

(* The deltas start from nothing; a server that is writing to them goes on *)
(* where it was. The save is finished, unless something later was saved    *)
(* meanwhile. This was the server's last act, too.                         *)
DumpTruncate(d) ==
    /\ Goes(d, "renamed", IF d = "child" THEN "done" ELSE "idle")
    /\ files' = [files EXCEPT !.deltas = << >>, !.torn = FALSE,
                              !.holed = server = "writing" /\ (@ \/ files.deltas # << >>)]
    /\ LET image == dump[d].image
       IN IF NoOlder(image, saved) /\ files.dbout = Whole(image)
          THEN saved' = image /\ overtaken' = FALSE
          ELSE saved' = saved /\ overtaken' = (overtaken \/ ~ NoOlder(image, saved))
    /\ IF d = "server"
       THEN server' = "dead" /\ Childless
       ELSE sigchld' = (server # "dead") /\ UNCHANGED <<server, dumper_pid, resolver, missed>>
    /\ UNCHANGED <<mem, epoch, past, cut, crashes>>

DumpStep(d) == DumpOpen(d) \/ DumpWrite(d) \/ DumpRename(d) \/ DumpTruncate(d)

-----------------------------------------------------------------------------
(* sig_reap(): one waitpid() for one SIGCHLD.                              *)

\* Slip: the dumper is reaped and remembered.
ReapKeepsPid ==
    /\ server # "dead" /\ sigchld /\ sigchld' = FALSE
    /\ Goes("child", "done", "idle")
    /\ missed' = ~dumper_pid
    /\ UNCHANGED <<mem, epoch, server, dumper_pid, resolver, files, ghosts>>

(* It finds the dumper,                                                    *)
ReapDumper ==
    /\ server # "dead" /\ sigchld /\ sigchld' = FALSE
    /\ Goes("child", "done", "idle")
    /\ dumper_pid' = FALSE
    /\ missed' = ~dumper_pid    \* an "unknown child process"
    /\ UNCHANGED <<mem, epoch, server, resolver, files, ghosts>>

(* or the resolver, who is started again if it has failed (one that is not *)
(* is here one that does not die again). One of them there is, since every *)
(* SIGCHLD reaps no more than one.                                         *)
ReapResolver ==
    /\ server # "dead" /\ sigchld /\ sigchld' = FALSE
    /\ resolver = "done" /\ resolver' = "up"
    /\ missed' = (missed \/ dump["child"].at = "done")
    /\ UNCHANGED <<mem, epoch, server, dump, dumper_pid, files, ghosts>>

Reap == ReapDumper \/ ReapResolver

(* Where there is no server any more it is init that reaps.                *)
InitReaps ==
    /\ server = "dead" /\ Goes("child", "done", "idle")
    /\ UNCHANGED <<mem, epoch, server, children, files, ghosts>>

-----------------------------------------------------------------------------
(* Processes die. *)

Dies == crashes < MaxCrashes /\ crashes' = crashes + 1
Cut(dead) == cut' = (cut \/ \E d \in dead : dump[d].at = "renamed")

ChildDies == /\ Dies /\ Saving /\ sigchld' = (server # "dead")
             /\ dump' = [dump EXCEPT !["child"] = [Idle EXCEPT !.at = "done"]]
             /\ Cut({"child"})
             /\ UNCHANGED <<mem, epoch, server, dumper_pid, resolver, missed, files, past, saved, overtaken>>

ResolverDies ==
    /\ server # "dead" /\ resolver = "up"
    /\ resolver' = "done" /\ sigchld' = TRUE
    /\ UNCHANGED <<mem, epoch, server, dump, dumper_pid, missed, files, ghosts>>

(* The server dies, alone or with its child, perhaps in the middle of a    *)
(* delta dump.                                                             *)
Crash(dead) ==
    /\ Dies /\ server # "dead"
    /\ server' = "dead" /\ Childless
    /\ dump' = [d \in Dumpers |-> IF d \in dead THEN Idle ELSE dump[d]]
    /\ Cut(dead)
    /\ UNCHANGED <<mem, epoch, files, past, saved, overtaken>>

(* panic(): the database goes to a file of its own, *)
Panic ==
    /\ Dies /\ (Running \/ server = "shutdown")
    /\ server' = "panicking"
    /\ files' = [files EXCEPT !.panic = Part]
    /\ dump' = [dump EXCEPT !["server"] = Idle]
    /\ Cut({"server"})
    /\ UNCHANGED <<mem, epoch, children, past, saved, overtaken>>

PanicWritten ==
    /\ server = "panicking"
    /\ server' = "panicked"
    /\ files' = [files EXCEPT !.panic = Whole(db)]
    /\ saved' = db
    /\ UNCHANGED <<mem, epoch, dump, children, past, overtaken, cut, crashes>>

(* and the deltas are removed. *)
PanicUnlinks ==
    /\ server = "panicked"
    /\ server' = "dead" /\ Childless
    /\ files' = [files EXCEPT !.deltas = << >>, !.torn = FALSE, !.holed = FALSE]
    /\ UNCHANGED <<mem, epoch, dump, ghosts>>

(* The restart script and init_game(). *)
Restart ==
    /\ server = "dead" /\ dump["child"].at = "idle"
    /\ server' = "up" /\ epoch' = 0
    /\ db' = Restored /\ changed' = {}
    /\ files' = [files EXCEPT !.dbin = Whole(Restored), !.dbout = Absent,
                              !.panic = IF @.is = "whole" THEN Absent ELSE @,
                              !.deltas = << >>, !.torn = FALSE, !.holed = FALSE]
    /\ past' = {Restored} /\ saved' = Restored /\ overtaken' = FALSE /\ cut' = FALSE
    /\ UNCHANGED <<now, dump, children, crashes>>

-----------------------------------------------------------------------------
Init ==
    /\ db = [o \in Objs |-> 0] /\ now = 0 /\ changed = {} /\ epoch = 0
    /\ server = "up" /\ dump = [d \in Dumpers |-> Idle]
    /\ dumper_pid = FALSE /\ resolver = "up" /\ sigchld = FALSE /\ missed = FALSE
    /\ files = [tmp |-> [e \in 0 .. MaxEpoch |-> Absent], dbin |-> Whole(db),
                dbout |-> Absent, panic |-> Absent, deltas |-> << >>, torn |-> FALSE, holed |-> FALSE]
    /\ past = {db} /\ saved = db /\ overtaken = FALSE /\ cut = FALSE /\ crashes = 0

Next == \/ \E S \in SUBSET Objs \ {{}} : Change(S)
        \/ DeltasStart \/ DeltasPart \/ DeltasWritten
        \/ Fork \/ Forked \/ SkipDump \/ Shutdown
        \/ \E d \in Dumpers : DumpStep(d)
        \/ Reap \/ InitReaps \/ ChildDies \/ ResolverDies
        \/ \E dead \in {{"server"}, Dumpers} : Crash(dead)
        \/ Panic \/ PanicWritten \/ PanicUnlinks \/ Restart

Spec == Init /\ [][Next]_vars

(* The child is a process of its own, and a signal that is pending is      *)
(* handled.                                                                *)
FairSpec == Spec /\ WF_vars(DumpStep("child")) /\ WF_vars(Reap)

-----------------------------------------------------------------------------
(* Properties. *)

(* Whenever the processes die, the next server finds every object at least *)
(* as it was when the last save was finished, unless a child that was      *)
(* forked before has put an older dump in its place or emptied its deltas, *)
(* or its own file had been removed by a later dump when it did.           *)
SavedIsKept == overtaken \/ \A o \in Objs : Restored[o] >= saved[o]

(* It finds a state the database was in, and no mixture of an older and a  *)
(* newer one, unless the deltas are still those of before the dump.        *)
RestoredIsAState ==
    overtaken \/ cut \/ (\E d \in Dumpers : dump[d].at = "renamed") \/ Restored \in past

(* No dump is refused for ever because of a child that is gone, unless the *)
(* one SIGCHLD for its end and for that of the resolver has found the      *)
(* resolver, or came before the server knew the number of its child.       *)
DumperIsForgotten == dumper_pid ~> (~dumper_pid \/ missed)
=============================================================================
