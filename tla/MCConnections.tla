---------------------------- MODULE MCConnections ---------------------------
(***************************************************************************)
(* Constants of Connections for TLC.                                       *)
(***************************************************************************)
EXTENDS Connections

CONSTANTS ann, wiz
=============================================================================
