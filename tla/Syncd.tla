------------------------------- MODULE Syncd -------------------------------
(***************************************************************************)
(* syncd/codec.ex without its cryptography: the state of a collection, and  *)
(* what snapshots, patches and an own patch make of it.  A value is its     *)
(* MAC; a mutation can be read by who has its key, unless it is broken: its *)
(* record ("record", which the code skips) or the index inside ("index").   *)
(***************************************************************************)
EXTENDS LtHash, FiniteSets

CONSTANT None

\* new_lt_hash_state/0; map is the index_value_map.
NewState == [version |-> 0, hash |-> ZeroHash, map |-> <<>>]

Put(map, index, mac) ==
    [i \in DOMAIN map \union {index} |-> IF i = index THEN mac ELSE map[i]]

Without(map, index) == [i \in DOMAIN map \ {index} |-> map[i]]

-----------------------------------------------------------------------------
(* The generator of hashes. *)

\* init_lt_hash_generator/1
Generator(state) == [hash |-> state.hash, map |-> state.map, sub |-> <<>>, add |-> <<>>]

MixKeeping(gen, m) ==
    [gen EXCEPT !.map = IF m.op = "set" THEN Put(@, m.index, m.mac) ELSE Without(@, m.index),
                !.add = IF m.op = "set" THEN Append(@, m.mac) ELSE @]

MixForgetful(gen, m) ==
    [gen EXCEPT !.map = IF m.op = "set" THEN Put(@, m.index, m.mac) ELSE @,
                !.add = IF m.op = "set" THEN Append(@, m.mac) ELSE @,
                !.sub = IF m.index \in DOMAIN gen.map /\ m.op = "set"
                        THEN Append(@, gen.map[m.index]) ELSE @]

\* mix_mutation/2
Mix(gen, m) ==
    [gen EXCEPT !.map = IF m.op = "set" THEN Put(@, m.index, m.mac) ELSE Without(@, m.index),
                !.add = IF m.op = "set" THEN Append(@, m.mac) ELSE @,
                !.sub = IF m.index \in DOMAIN gen.map THEN Append(@, gen.map[m.index]) ELSE @]

\* finish_lt_hash_generator/1, into a state.
Finished(state, gen) ==
    [state EXCEPT !.hash = SubtractThenAdd(gen.hash, gen.sub, gen.add), !.map = gen.map]

-----------------------------------------------------------------------------
(* Reading.  A result has a status ("ok", "missing" for a key, "broken"),   *)
(* the key that is missing, the state and the mutations read.               *)

\* decode_single_mutation/5: a mutation ends the reading, is skipped or mixed.
DecodeMutation(acc, m, keys) ==
    CASE acc.status # "ok" -> acc
      [] acc.status = "ok" /\ m.key \notin keys -> [acc EXCEPT !.status = "missing", !.key = m.key]
      [] acc.status = "ok" /\ m.key \in keys /\ m.broken = "index" -> [acc EXCEPT !.status = "broken"]
      [] acc.status = "ok" /\ m.key \in keys /\ m.broken = "record" -> acc
      [] acc.status = "ok" /\ m.key \in keys /\ m.broken = "no" ->
            [acc EXCEPT !.gen = Mix(@, m), !.events = Append(@, m)]

\* decode_syncd_mutations_reduce/6
DecodeMutations(mutations, state, keys) ==
    LET read == FoldLeft(LAMBDA acc, m : DecodeMutation(acc, m, keys),
                         [status |-> "ok", key |-> None, gen |-> Generator(state), events |-> <<>>],
                         mutations)
        ok == read.status = "ok"
    IN  [status |-> read.status, key |-> read.key,
         events |-> IF ok THEN read.events ELSE <<>>,
         state  |-> IF ok THEN Finished(state, read.gen) ELSE state]

\* are_mutations_required, should_mutate
Newer(version, minimum) == minimum = None \/ version > minimum

WithEvents(result, wanted) == IF wanted THEN result ELSE [result EXCEPT !.events = <<>>]

\* decode_syncd_snapshot/5; a MAC that does not fit changes nothing.
DecodeSnapshot(snapshot, minimum, keys) ==
    WithEvents(DecodeMutations(snapshot.records, [NewState EXCEPT !.version = snapshot.version], keys),
               Newer(snapshot.version, minimum))

\* decode_patch_result/8, one patch of decode_patches/7: the version is taken
\* over even if the patch is skipped; a snapshot MAC that does not fit stops.
DecodePatch(result, patch, minimum, keys, validate) ==
    LET state   == [result.state EXCEPT !.version = patch.version]
        decoded == WithEvents(DecodeMutations(patch.mutations, state, keys),
                              Newer(patch.version, minimum))
    IN  CASE decoded.status = "missing" -> [decoded EXCEPT !.events = result.events]
          [] decoded.status = "broken"  -> [result EXCEPT !.state = state]
          [] decoded.status = "ok"      ->
                [decoded EXCEPT
                    !.events = result.events \o @,
                    !.status = IF validate /\ patch.claim # decoded.state.hash THEN "stop" ELSE "ok"]

\* decode_patches/7
DecodePatches(patches, initial, minimum, keys, validate) ==
    FoldLeft(LAMBDA result, patch :
                 IF result.status = "ok" THEN DecodePatch(result, patch, minimum, keys, validate)
                 ELSE result,
             [status |-> "ok", key |-> None, state |-> initial, events |-> <<>>], patches)

-----------------------------------------------------------------------------
(* Writing. *)

EncodedStale(state, m) ==
    [state EXCEPT !.version = @ + 1, !.map = Put(@, m.index, m.mac)]

\* encode_syncd_patch/5: the state after the patch, whose hash is the one
\* that the patch claims, and whose map always gets the value in the end.
Encoded(state, m) ==
    LET mixed == Finished(state, Mix(Generator(state), m))
    IN  [mixed EXCEPT !.version = @ + 1, !.map = Put(@, m.index, m.mac)]
=============================================================================
