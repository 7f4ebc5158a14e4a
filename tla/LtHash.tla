------------------------------- MODULE LtHash -------------------------------
(***************************************************************************)
(* util/lt_hash.ex: a hash is a row of unsigned integers that wrap (64 of   *)
(* 16 bits); the MAC of a value is spread over the row, and added to it or  *)
(* subtracted from it lane by lane.                                         *)
(***************************************************************************)
EXTENDS Integers, Sequences, SequencesExt

CONSTANTS
    Lanes,          \* 64 lanes
    Modulus,        \* 2^16
    Macs,           \* the MACs of values
    Expand(_)       \* expand/1, external: the digests of a MAC, as a row

ASSUME LtHashAssumption ==
    /\ Modulus \in Nat \ {0}
    /\ \A m \in Macs : Expand(m) \in [Lanes -> 0..(Modulus - 1)]

Hashes == [Lanes -> 0..(Modulus - 1)]

\* new/0
ZeroHash == [l \in Lanes |-> 0]

\* x &&& 0xFFFF, for the sum or the difference of two lanes.
Wrap(x) == IF x < 0 THEN x + Modulus ELSE IF x >= Modulus THEN x - Modulus ELSE x

AddLanes(a, b) == [l \in Lanes |-> Wrap(a[l] + b[l])]

SubtractLanes(a, b) == [l \in Lanes |-> Wrap(a[l] - b[l])]

AddMac(hash, mac) == AddLanes(hash, Expand(mac))

SubtractMac(hash, mac) == SubtractLanes(hash, Expand(mac))

\* subtract_then_add/3
SubtractThenAdd(hash, sub, add) ==
    FoldLeft(AddMac, FoldLeft(SubtractMac, hash, sub), add)
=============================================================================
