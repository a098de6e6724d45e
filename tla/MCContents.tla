----------------------------- MODULE MCContents -----------------------------
(***************************************************************************)
(* Constants of Contents for TLC.                                          *)
(***************************************************************************)
EXTENDS Contents

(* Two rooms and two players. *)
PairType == [o \in Objs |-> IF o \in {0, 2} THEN "room" ELSE "player"]
PairLocation == [o \in Objs |-> IF o = 0 THEN NOTHING ELSE 0]
PairHome == [o \in Objs |-> CASE o \in {0, 2} -> NOTHING [] o = 1 -> 0 [] OTHER -> 2]
PairOwner == [o \in Objs |-> IF o = 3 THEN 3 ELSE 1]
=============================================================================
