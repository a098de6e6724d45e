----------------------------- MODULE MCTimeQueue -----------------------------
(***************************************************************************)
(* Constants of TimeQueue for TLC: an ordinary player with two processes   *)
(* and a wizard with one; names of 30 and of 31 characters.                *)
(***************************************************************************)
EXTENDS TimeQueue, TLC

CONSTANTS ann, wiz, p1, p2, p3, a1, a2, a3, n30, n31

MCUidOf == (p1 :> ann) @@ (p2 :> ann) @@ (p3 :> wiz)
MCUidOf2 == (p1 :> ann) @@ (p2 :> ann)

\* Two names that agree in their first 30 characters.
MCTrunc32 == [i \in Ids |-> i]
MCTrunc30 == [i \in Ids |-> n30]

AddrSymmetry == Permutations(Addrs)
=============================================================================
