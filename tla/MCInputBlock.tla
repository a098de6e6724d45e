----------------------------- MODULE MCInputBlock -----------------------------
(***************************************************************************)
(* Constants of InputBlock for TLC: three processes, of which one takes    *)
(* blank lines.                                                            *)
(***************************************************************************)
EXTENDS InputBlock, TLC

CONSTANTS p1, p2, p3

PlainSymmetry == Permutations({p1, p2})
=============================================================================
