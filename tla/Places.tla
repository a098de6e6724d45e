------------------------------- MODULE Places -------------------------------
(***************************************************************************)
(* What the contents lists of the database promise: where every object is. *)
(* The objects form a tree below room 0 (Top), except for those that a     *)
(* command holds in its hand between two moves and that are nowhere.       *)
(*                                                                         *)
(* Contents implements this specification: its lists, its homes and the    *)
(* order of its moves are details of how an object is lifted and put.      *)
(***************************************************************************)
CONSTANTS Objs,      \* the database references
          NOTHING,   \* no object
          Top        \* GLOBAL_ENVIRONMENT, room #0

(* What the proofs need of them. *)
NothingIsNoObject == NOTHING \notin Objs

VARIABLES place,     \* the object an object is in
          live       \* the objects that are not garbage

vars == <<place, live>>

TypeOK == /\ place \in [Objs -> Objs \cup {NOTHING}]
          /\ live \in SUBSET Objs

----------------------------------------------------------------------------
(* U holds, with an object, everything that is in it. *)
ClosedBelow(U, in) == \A x \in Objs : in[x] \in U => x \in U

(* An object and everything that is in it, at any depth. *)
Under(o) == LET in == place
            IN {x \in Objs : \A U \in SUBSET Objs :
                   (o \in U /\ ClosedBelow(U, in)) => x \in U}

(* No object is inside itself: every set of objects has one that is in     *)
(* none of them.                                                           *)
Acyclic == \A S \in (SUBSET Objs) \ {{}} : \E o \in S : place[o] \notin S

(* Nothing is in a garbage object, and garbage is nowhere. *)
GarbageIsOut == \A o \in Objs : /\ place[o] \in live \cup {NOTHING}
                                /\ o \notin live => place[o] = NOTHING

----------------------------------------------------------------------------
Init == TypeOK /\ Acyclic /\ GarbageIsOut /\ Top \in live

(* Take some of what is in c in hand: they are nowhere. *)
Lift(c, S) == /\ \A o \in S : place[o] = c
              /\ place' = [o \in Objs |-> IF o \in S THEN NOTHING ELSE place[o]]
              /\ UNCHANGED live

(* Put o into w, which is not o nor inside o. *)
Put(o, w) == /\ o \in live \ {Top} /\ w \in live
             /\ place' = [place EXCEPT ![o] = w]
             /\ UNCHANGED live
             /\ w \notin Under(o)

(* Make a new object in w. *)
Make(o, w) == /\ o \notin live /\ w \in live
              /\ live' = live \cup {o}
              /\ place' = [place EXCEPT ![o] = w]

(* Recycle an object that is empty. *)
Free(o) == /\ o \in live \ {Top} /\ \A x \in Objs : place[x] # o
           /\ live' = live \ {o}
           /\ place' = [place EXCEPT ![o] = NOTHING]

Next == \/ \E c \in Objs :
               \E S \in (SUBSET {o \in Objs : place[o] = c}) \ {{}} : Lift(c, S)
        \/ \E o, w \in Objs : Make(o, w) \/ Put(o, w)
        \/ \E o \in Objs : Free(o)

Spec == Init /\ [][Next]_vars
=============================================================================
