------------------------------- MODULE MCDumps ------------------------------
(***************************************************************************)
(* Constants of Dumps for TLC.                                             *)
(***************************************************************************)
EXTENDS Dumps

MCObjs == {1, 2}
=============================================================================
