----------------------------- MODULE SenderKeys -----------------------------
(***************************************************************************)
(* Sender keys (lib/baileys_ex/signal/group), with symbolic keys: an id     *)
(* stands for the chain key a sender began with and its signing key, and    *)
(* the message key of an iteration is that chain's.  A record is a sequence *)
(* of states, the current one last.                                         *)
(***************************************************************************)
EXTENDS Integers, Sequences, FiniteSets

CONSTANTS
    MaxStates,      \* @max_states
    MaxKept,        \* @max_message_keys
    MaxFuture       \* @max_future_messages

ASSUME SenderKeysAssumption ==
    MaxStates \in Nat \ {0} /\ MaxKept \in Nat /\ MaxFuture \in Nat \ {0}

\* SenderKeyState.new/4: the next iteration, and the skipped ones whose
\* message keys are kept.
NewState(id, iteration) == [id |-> id, iteration |-> iteration, kept |-> {}]

Current(r) == r[Len(r)]

\* The states of an id, and the one state_for_key_id/2 finds.
Positions(r, id) == {i \in DOMAIN r : r[i].id = id}

LastPosition(r, id) == CHOOSE i \in Positions(r, id) : \A j \in Positions(r, id) : j <= i

FirstPosition(r, id) == CHOOSE i \in Positions(r, id) : \A j \in Positions(r, id) : i <= j

StateFor(r, id) == r[FirstPosition(r, id)]

\* append_bounded_state/2
AppendBounded(r, s) ==
    Append(IF Len(r) < MaxStates THEN r ELSE SubSeq(r, Len(r) - MaxStates + 2, Len(r)), s)

\* Enum.reject: the states of other ids, in their order.
Others(r, id) ==
    LET others == DOMAIN r \ Positions(r, id)
    IN  [k \in 1..Cardinality(others) |->
            r[CHOOSE i \in others : Cardinality({j \in others : j <= i}) = k]]

\* put_state/2
PutState(r, s) == AppendBounded(Others(r, s.id), s)

-----------------------------------------------------------------------------
\* add_sender_message_key/2: keys are kept in rising order, the oldest go.
KeepLast(keys) == {n \in keys : Cardinality({k \in keys : k > n}) < MaxKept}

HasKey(s, n) == n \in s.kept \/ (s.iteration <= n /\ n - s.iteration <= MaxFuture)

TakenUncached(s, n) ==
    IF n < s.iteration THEN [s EXCEPT !.kept = @ \ {n}] ELSE [s EXCEPT !.iteration = n + 1]

\* sender_key_for_iteration/2, where there is a key.
Taken(s, n) ==
    IF n < s.iteration THEN [s EXCEPT !.kept = @ \ {n}]
    ELSE [s EXCEPT !.kept = KeepLast(@ \union s.iteration..(n - 1)), !.iteration = n + 1]

\* sender_key_for_encrypt/1: the first message has number 0, the next ones
\* leave out a number each.
EncryptIteration(s) == IF s.iteration = 0 THEN 0 ELSE s.iteration + 1

\* What encrypt/2 makes of the record.
EncryptedStill(r) == r

Encrypted(r) == PutState(r, Taken(Current(r), EncryptIteration(Current(r))))

\* What decrypt/2 needs: the signature is the id's own.
Opens(r, m) == Positions(r, m.id) # {} /\ HasKey(StateFor(r, m.id), m.iteration)

Decrypted(r, m) == PutState(r, Taken(StateFor(r, m.id), m.iteration))

-----------------------------------------------------------------------------
\* create/2 of SessionBuilder: the record, with a first state if it has none,
\* and what is distributed of the current state.
Created(r, id) == IF r = <<>> THEN <<NewState(id, 0)>> ELSE r

DistributionFromStart(r) == [id |-> Current(r).id, iteration |-> 0]

Distribution(r) == [id |-> Current(r).id, iteration |-> Current(r).iteration]

ProcessedReplacing(r, d) == PutState(r, NewState(d.id, d.iteration))

\* process/2: one more state, though there may be one with this id.
Processed(r, d) == AppendBounded(r, NewState(d.id, d.iteration))
=============================================================================
