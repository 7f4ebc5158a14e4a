--------------------------- MODULE MCEventEmitter ---------------------------
(***************************************************************************)
(* Instances of EventEmitter for TLC.                                      *)
(***************************************************************************)
EXTENDS EventEmitter
=============================================================================
