------------------------- MODULE MCSignalSessions --------------------------
(***************************************************************************)
(* The instance of SignalSessions for TLC: two parties, one of which also   *)
(* takes bundles without a pre-key; one closed session too many is trimmed, *)
(* one key may be skipped, so that both limits are met.                     *)
(***************************************************************************)
EXTENDS SignalSessions

CONSTANTS alice, bob
=============================================================================
