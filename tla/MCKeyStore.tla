----------------------------- MODULE MCKeyStore -----------------------------
(***************************************************************************)
(* Instances of KeyStore for TLC: one session key guarded by one           *)
(* transaction key, one pre-key that any transaction may touch.  The plain *)
(* sets are those of the repository: a pre-key is removed, a session is    *)
(* deleted (delete_sessions) or written (migrate_sessions) under whoever   *)
(* is in a transaction on it.                                              *)
(***************************************************************************)
EXTENDS KeyStore, TLC

CONSTANTS a, p, k1, v

MCIds == {a, p}
MCGuardKey == a :> k1 @@ p :> None
MCGuardKeyA == a :> k1
MCReadSets == {{a, p}}
MCPlainSets == {p :> Missing, a :> Missing, a :> v}

ClientSymmetry == Permutations(Clients)
=============================================================================
