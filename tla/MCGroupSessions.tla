-------------------------- MODULE MCGroupSessions --------------------------
(***************************************************************************)
(* An instance of GroupSessions small enough for TLC: two devices, each of  *)
(* which may be installed anew, as may the sender.                          *)
(***************************************************************************)
EXTENDS GroupSessions, TLC
CONSTANTS d1, d2
Symmetry == Permutations(Devices)
=============================================================================
