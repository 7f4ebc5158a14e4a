----------------------------- MODULE MCAppState -----------------------------
(***************************************************************************)
(* An instance of AppState for TLC.  The rows of the MACs are such that     *)
(* different sets of values have different hashes, and that lanes wrap.     *)
(***************************************************************************)
EXTENDS AppState, TLC
CONSTANTS c1, c2, k1, k2, i1, i2
MCMacs == 1..3
MCExpand(m) == [l \in MCMacs |-> IF l = m THEN 3 ELSE 2]
Symmetry == Permutations(Collections) \union Permutations(Keys) \union Permutations(Indexes)

\* Bounds: no history has two of a broken mutation, mutations of two keys and
\* a removal of its own; with the last one it has one key.
Broken == \E p \in Accepted : p.broken # "no"
TwoKeys == \E p, q \in Accepted : p.key # q.key
OwnRemoval ==
    \/ "own" \in DOMAIN task /\ task.own # None /\ task.own.op = "remove"
    \/ \E p \in Accepted : p.own /\ p.op = "remove"

OneHardship ==
    /\ Broken => ~TwoKeys
    /\ OwnRemoval => /\ ~Broken
                     /\ Cardinality(keys.held) = 1
                     /\ \A p \in Accepted : p.key \in keys.held
=============================================================================
