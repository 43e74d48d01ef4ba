---------------------------- MODULE MCFederation ----------------------------
(* Small instances of Federation for TLC. *)
EXTENDS Federation, TLC

CONSTANTS web, long
=============================================================================
