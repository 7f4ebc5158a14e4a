----------------------------- MODULE MCPreKeys -----------------------------
(***************************************************************************)
(* Instances of PreKeys small enough for TLC: batches of one or two keys,   *)
(* one retry, two uploads and a retry receipt, one close or crash.          *)
(***************************************************************************)
EXTENDS PreKeys, TLC
Symmetry == Permutations(Tasks)

(* Bounds of what is explored once uploads overlap or updates are lost: two  *)
(* ids, two messages on their way, one pair that is with a peer, and one of  *)
(* a receipt, a close, a crash, a retry and a digest check.                 *)
Further ==
  (MaxReceipts - receipt.left) + crashes + closes
    + Cardinality({t \in Tasks : task[t].tries > 0})
    + Cardinality({t \in Tasks : task[t].stage = "second"})
OneHardship ==
  disturbed =>
    /\ \A i \in Ids : i > 2 => minted[i] = 0
    /\ Len(mailbox) + Len(emitted) + Len(tapped) <= 2
    /\ Cardinality(taken \cup used) <= 1
    /\ Further <= 1
=============================================================================
