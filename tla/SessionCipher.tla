--------------------------- MODULE SessionCipher ---------------------------
(***************************************************************************)
(* Sessions and their chains (lib/baileys_ex/signal/session_builder.ex and  *)
(* session_cipher.ex), with symbolic keys.  A shared secret is the set of   *)
(* the two keys it is computed from; a root key is the X3DH secret and the  *)
(* sequence of the secrets mixed into it since; a chain key is the root key *)
(* it was derived with; the message key of number n is that    *)
(* chain's.  Two parties hold the same key exactly when they have mixed in  *)
(* the same secrets, and a MAC verifies exactly under the same key.         *)
(***************************************************************************)
EXTENDS Integers, Sequences, SessionRecord

CONSTANT MaxSkipped     \* @max_skipped_keys

ASSUME MaxSkippedAssumption == MaxSkipped \in Nat

\* A key that is derived twice is the same key.
Agreed(k, l) == {k, l}

\* What X3DH mixes in: the initiator's base key, the responder's signed
\* pre-key and identity, and the one-time pre-key, if there is one.
X3DH(base, signedPreKey, preKey) ==
    [base |-> base, signedPreKey |-> signedPreKey, preKey |-> preKey]

RootKey(x3dh) == [x3dh |-> x3dh, mixed |-> <<>>]

Mixed(key, secret) == [key EXCEPT !.mixed = Append(@, secret)]

NewChain(type, key) ==
    [type |-> type, key |-> key, counter |-> 0, live |-> TRUE, kept |-> {}]

\* session_builder.ex, init_outgoing/3: the initiator sends at once.
Outgoing(base, signedPreKey, preKey, fresh) ==
    LET x3dh == X3DH(base, signedPreKey, preKey)
        key == Mixed(RootKey(x3dh), Agreed(fresh, signedPreKey))
    IN  [root |-> key, ephemeral |-> fresh, remote |-> signedPreKey, previous |-> 0,
         closed |-> 0, chains |-> [e \in {fresh} |-> NewChain("sending", key)],
         pending |-> {x3dh}]

\* session_builder.ex, init_incoming/4: the signed pre-key serves as the
\* first ephemeral key, and the first message ratchets.
Incoming(base, signedPreKey, preKey) ==
    [root |-> RootKey(X3DH(base, signedPreKey, preKey)), ephemeral |-> signedPreKey,
     remote |-> base, previous |-> 0, closed |-> 0, chains |-> EmptyRecord, pending |-> {}]

-----------------------------------------------------------------------------
CanSend(s) ==
    s.ephemeral \in DOMAIN s.chains /\ s.chains[s.ephemeral].type = "sending"

AdvancedNot(s) == s

Advanced(s) == [s EXCEPT !.chains[s.ephemeral].counter = @ + 1]

PreviousCounterNext(s) ==
    IF s.ephemeral \in DOMAIN s.chains THEN s.chains[s.ephemeral].counter ELSE 0

\* The number of the last message of the sending chain; 0 if there is none.
PreviousCounter(s) ==
    IF s.ephemeral \in DOMAIN s.chains /\ s.chains[s.ephemeral].counter > 0
    THEN s.chains[s.ephemeral].counter - 1 ELSE 0

ClosedChainShort(c, previous) ==
    [c EXCEPT !.kept = @ \union {n \in c.counter..(previous - 1) : c.live},
              !.counter = IF c.live /\ @ < previous THEN previous ELSE @,
              !.live = FALSE]

\* The peer's old chain ends: what it still owes us is kept, the chain key goes.
ClosedChain(c, previous) ==
    [c EXCEPT !.kept = @ \union {n \in c.counter..previous : c.live},
              !.counter = IF c.live /\ @ <= previous THEN previous + 1 ELSE @,
              !.live = FALSE]

KeptChains(s, previous) ==
    [e \in DOMAIN s.chains \ {s.ephemeral} |->
        IF e = s.remote /\ s.chains[e].type = "receiving"
        THEN ClosedChain(s.chains[e], previous) ELSE s.chains[e]]

\* perform_ratchet_step/4
Ratcheted(s, theirs, previous, fresh) ==
    LET receiving == Mixed(s.root, Agreed(s.ephemeral, theirs))
        sending == Mixed(receiving, Agreed(fresh, theirs))
        chains == KeptChains(s, previous)
    IN  [s EXCEPT !.root = sending, !.ephemeral = fresh, !.remote = theirs,
                  !.previous = PreviousCounter(s),
                  !.chains = [e \in DOMAIN chains \union {theirs, fresh} |->
                      IF e = fresh THEN NewChain("sending", sending)
                      ELSE IF e = theirs THEN NewChain("receiving", receiving)
                      ELSE chains[e]]]

\* The session in which m is tried.
ForMessage(s, m, fresh) ==
    IF m.ephemeral \in DOMAIN s.chains THEN s
    ELSE Ratcheted(s, m.ephemeral, m.previous, fresh)

HasKey(c, n) ==
    n \in c.kept \/ (c.live /\ c.counter <= n /\ n - c.counter <= MaxSkipped)

TakenKept(c, n) ==
    IF n \in c.kept THEN c
    ELSE [c EXCEPT !.kept = @ \union c.counter..(n - 1), !.counter = n + 1]

Taken(c, n) ==
    IF n \in c.kept THEN [c EXCEPT !.kept = @ \ {n}]
    ELSE [c EXCEPT !.kept = @ \union c.counter..(n - 1), !.counter = n + 1]

\* The key is there, and it is the one m was encrypted with.
Opens(s, m, fresh) ==
    LET c == ForMessage(s, m, fresh).chains[m.ephemeral]
    IN  HasKey(c, m.counter) /\ c.key = m.key

Received(s, m, fresh) ==
    [ForMessage(s, m, fresh) EXCEPT !.chains[m.ephemeral] = Taken(@, m.counter),
                                    !.pending = {}]

-----------------------------------------------------------------------------
\* The open session first, then the closed ones.
Tried(r) == OpenSession(r) \union ClosedSessions(r)

\* The sessions that open m: at most one, for their root keys differ.
Openers(r, m, fresh) == {b \in Tried(r) : Opens(r[b], m, fresh)}

Decrypted(r, m, fresh) ==
    LET b == CHOOSE b \in Openers(r, m, fresh) : TRUE
    IN  PutSession(r, b, Received(r[b], m, fresh))

WithIncomingBeside(r, hello, signedPreKey, preKey, now) ==
    IF hello.base \in DOMAIN r THEN r
    ELSE PutSession(r, hello.base, Incoming(hello.base, signedPreKey, preKey))

\* init_or_reuse_incoming_session/4
WithIncoming(r, hello, signedPreKey, preKey, now) ==
    IF hello.base \in DOMAIN r THEN r
    ELSE PutSession(CloseOpenSession(r, now), hello.base,
                    Incoming(hello.base, signedPreKey, preKey))
=============================================================================
