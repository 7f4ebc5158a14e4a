--------------------------- MODULE MCParitySuite ---------------------------
(***************************************************************************)
(* An instance of ParitySuite small enough for TLC: the five modules of the *)
(* suite, and two calls of the bridge between them.                         *)
(***************************************************************************)
EXTENDS ParitySuite

AvailableCounts == [events |-> 2, globals |-> 1]
=============================================================================
