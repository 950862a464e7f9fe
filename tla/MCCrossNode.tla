---------------------------- MODULE MCCrossNode ----------------------------
(* CrossNode for TLC. *)
EXTENDS CrossNode
=============================================================================
