--------------------------- MODULE MCMemoryStore ---------------------------
(***************************************************************************)
(* Instances of MemoryStore for TLC: two ids of one session under one      *)
(* transaction key, and one id that belongs to no key.  A plain set is of  *)
(* both: callers set rows of a session outside its transactions.           *)
(***************************************************************************)
EXTENDS MemoryStore, TLC

CONSTANTS a, b, p, k1, k2, v

MCIds == {a, b, p}
MCGuardKey == a :> k1 @@ b :> k1 @@ p :> None
MCReadSets == {{a, b}}
MCPlainSets == {p :> v @@ a :> Missing}

ClientSymmetry == Permutations(Clients)
=============================================================================
