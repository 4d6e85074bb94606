---------------------------- MODULE MC_ServerLoop ----------------------------
(* Instances of ServerLoop for TLC.                                         *)
EXTENDS ServerLoop
=============================================================================
