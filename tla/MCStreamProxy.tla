---------------------------- MODULE MCStreamProxy ----------------------------
(* Instances of StreamProxy for TLC. *)
EXTENDS StreamProxy
==============================================================================
