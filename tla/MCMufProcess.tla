---------------------------- MODULE MCMufProcess ----------------------------
(***************************************************************************)
(* Constants of MufProcess for TLC: two processes of one program, a third  *)
(* of another that runs as a thing.                                        *)
(***************************************************************************)
EXTENDS MufProcess, TLC

CONSTANTS p1, p2, p3, editor, clock, ann, robot

MCProgOf == [p \in Pids |-> IF p = p3 THEN clock ELSE editor]
MCUserOf == [p \in Pids |-> IF p = p3 THEN robot ELSE ann]

\* p1 and p2 differ in nothing.
TwinSymmetry == Permutations({p1, p2})

\* Programs wait for any event, or for a line or a message as well.
AnyEvent == {{}}
MixedFilters == {{}, {"READ", "USER"}}
=============================================================================
