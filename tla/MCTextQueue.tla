----------------------------- MODULE MCTextQueue ----------------------------
(***************************************************************************)
(* Constants of TextQueue for TLC.                                         *)
(***************************************************************************)
EXTENDS TextQueue

=============================================================================
