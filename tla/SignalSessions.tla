--------------------------- MODULE SignalSessions --------------------------
(***************************************************************************)
(* Two parties, each with the record of its sessions with the other        *)
(* (lib/baileys_ex/signal/adapter/signal.ex, the one-to-one callbacks).     *)
(* Each but delete_sessions/2 is one transaction on the peer's session key, *)
(* so it is one action here (KeyStore and MemoryStore say why).  The        *)
(* network loses, repeats and reorders: messages stay in a set and any of   *)
(* them may arrive any number of times, or never.  A party may be installed *)
(* anew: it then has another identity, another signed pre-key and no        *)
(* sessions.                                                               *)
(***************************************************************************)
EXTENDS SessionCipher

CONSTANTS
    Parties,
    Lenient,            \* those that also accept a bundle without pre-key
    PreKeyIds,          \* the one-time pre-keys of one installation
    MaxSessions,        \* bound: sessions established, both parties together
    MaxMessages,        \* bound: messages sent, both parties together
    MaxDeletions,       \* bound: delete_sessions and new installations
    MaxKeyPairs         \* bound: key pairs one party generates for received messages

ASSUME PartiesAssumption ==
    (\E p, q \in Parties : p # q /\ Parties = {p, q}) /\ Lenient \subseteq Parties

ASSUME BoundsAssumption ==
    {MaxSessions, MaxMessages, MaxDeletions, MaxKeyPairs} \subseteq Nat

VARIABLES
    record,             \* record[p]: p's sessions with its peer
    identity,           \* identity[p]: the peer's installation p trusts, if any
    preKeys,            \* preKeys[p]: ids whose key p still has
    offered,            \* offered[p]: ids the server may still hand out
    installation,       \* installation[p]: which installation p is
    generated,          \* generated[p]: how many key pairs p has generated
    network,            \* messages sent
    read,               \* messages decrypted
    forgotten,          \* forgotten[p]: sessions p had and has no longer
    established,        \* sessions established
    deletions           \* deletions and new installations

vars == <<record, identity, preKeys, offered, installation, generated, network, read,
          forgotten, established, deletions>>

Peer(p) == CHOOSE q \in Parties : q # p

SignedPreKey(p) == <<p, "signed", installation[p]>>

\* The n-th key pair p generates next.
Fresh(p, n) == <<p, "ephemeral", generated[p] + n>>

\* p's clock when it closes a session: it then begins another, which
\* generates keys, so no two closings have the same time.
Now(p) == generated[p] + 1

Init ==
    /\ record = [p \in Parties |-> EmptyRecord]
    /\ identity = [p \in Parties |-> {}]
    /\ preKeys = [p \in Parties |-> PreKeyIds]
    /\ offered = [p \in Parties |-> PreKeyIds]
    /\ installation = [p \in Parties |-> 0]
    /\ generated = [p \in Parties |-> 0]
    /\ network = {}
    /\ read = {}
    /\ forgotten = [p \in Parties |-> {}]
    /\ established = 0
    /\ deletions = 0

\* p's record becomes r, made from the sessions in kept: what p held before
\* and is not in both is forgotten.
SaveFrom(p, kept, r) ==
    /\ record' = [record EXCEPT ![p] = r]
    /\ forgotten' = [forgotten EXCEPT ![p] =
                        @ \union (DOMAIN record[p] \ (DOMAIN kept \intersect DOMAIN r))]

Save(p, r) == SaveFrom(p, record[p], r)

-----------------------------------------------------------------------------
(* Sending *)

\* Pre-keys the server puts into a bundle of the peer's: one at most, and
\* each to one asker only.
Bundled(p) ==
    {{k} : k \in offered[Peer(p)]} \union
    (IF offered[Peer(p)] = {} /\ p \in Lenient THEN {{}} ELSE {})

\* inject_e2e_session/3.  The identity is saved, whatever it was before.
Establish(p) ==
    LET q == Peer(p)
        base == Fresh(p, 1)
    IN  /\ established < MaxSessions
        /\ \E k \in Bundled(p) :
              /\ Save(p, PutSession(CloseOpenSession(record[p], Now(p)), base,
                                    Outgoing(base, SignedPreKey(q), k, Fresh(p, 2))))
              /\ offered' = [offered EXCEPT ![q] = @ \ k]
        /\ identity' = [identity EXCEPT ![p] = {installation[q]}]
        /\ generated' = [generated EXCEPT ![p] = @ + 2]
        /\ established' = established + 1
        /\ UNCHANGED <<preKeys, installation, network, read, deletions>>

\* What goes out: n tells equal messages apart, key is the chain key whose
\* message key encrypts, hello makes it a pre-key message.
Message(p, s) ==
    [from |-> p, n |-> Cardinality(network), ephemeral |-> s.ephemeral,
     counter |-> s.chains[s.ephemeral].counter, previous |-> s.previous,
     key |-> s.chains[s.ephemeral].key, hello |-> s.pending, by |-> installation[p]]

\* encrypt_message/3
Encrypt(p) ==
    \E b \in OpenSession(record[p]) :
        /\ CanSend(record[p][b])
        /\ Cardinality(network) < MaxMessages
        /\ network' = network \union {Message(p, record[p][b])}
        /\ Save(p, PutSession(record[p], b, Advanced(record[p][b])))
        /\ UNCHANGED <<identity, preKeys, offered, installation, generated, read,
                       established, deletions>>

-----------------------------------------------------------------------------
(* Receiving *)

\* prepare_pkmsg_record/5: another identity than the one trusted so far.
IdentityChanged(p, m) == m.hello # {} /\ identity[p] \notin {{}, {m.by}}

Prepared(p, m) == IF IdentityChanged(p, m) THEN EmptyRecord ELSE record[p]

\* load_pre_key/2: nothing if the key is gone.
Loaded(p, hello) == hello.preKey \intersect preKeys[p]

\* The record m is decrypted with.
WithSession(p, m) ==
    IF m.hello = {} THEN record[p]
    ELSE LET hello == CHOOSE h \in m.hello : TRUE
         IN  WithIncoming(Prepared(p, m), hello, SignedPreKey(p), Loaded(p, hello), Now(p))

Readable(p, m) == Openers(WithSession(p, m), m, Fresh(p, 1)) # {}

\* The pre-keys a new session has used up.
UsedPreKeys(p, m) ==
    UNION {h.preKey : h \in {g \in m.hello : g.base \notin DOMAIN Prepared(p, m)}}

Trusted(p, m) == IF m.hello = {} THEN identity[p] ELSE {m.by}

\* do_decrypt/6: the record is saved and the pre-key removed only when the
\* message decrypts; the identity, and a record dropped for it, stay so.
Decrypt(p, m) ==
    LET r == Decrypted(WithSession(p, m), m, Fresh(p, 1))
        ratcheted == \E b \in DOMAIN r : r[b].ephemeral = Fresh(p, 1)
    IN  /\ Readable(p, m)
        /\ generated[p] < MaxKeyPairs
        /\ SaveFrom(p, Prepared(p, m), r)
        /\ preKeys' = [preKeys EXCEPT ![p] = @ \ UsedPreKeys(p, m)]
        /\ generated' = [generated EXCEPT ![p] = IF ratcheted THEN @ + 1 ELSE @]
        /\ read' = read \union {m}

Refuse(p, m) ==
    /\ ~Readable(p, m)
    /\ Save(p, Prepared(p, m))
    /\ UNCHANGED <<preKeys, generated, read>>

\* decrypt_message/4
Receive(p, m) ==
    /\ m.from # p
    /\ Decrypt(p, m) \/ Refuse(p, m)
    /\ identity' = [identity EXCEPT ![p] = Trusted(p, m)]
    /\ UNCHANGED <<offered, installation, network, established, deletions>>

-----------------------------------------------------------------------------
(* Forgetting *)

\* delete_sessions/2: a set outside transactions.  A transaction that has
\* read the record by then commits over it, and nothing was deleted.
Delete(p) ==
    /\ deletions < MaxDeletions
    /\ \E r \in {EmptyRecord, record[p]} : Save(p, r)
    /\ deletions' = deletions + 1
    /\ UNCHANGED <<identity, preKeys, offered, installation, generated, network, read,
                   established>>

\* The device is set up anew: nothing of the old installation is left.
Reinstall(p) ==
    /\ deletions < MaxDeletions
    /\ Save(p, EmptyRecord)
    /\ identity' = [identity EXCEPT ![p] = {}]
    /\ preKeys' = [preKeys EXCEPT ![p] = PreKeyIds]
    /\ offered' = [offered EXCEPT ![p] = PreKeyIds]
    /\ installation' = [installation EXCEPT ![p] = @ + 1]
    /\ deletions' = deletions + 1
    /\ UNCHANGED <<generated, network, read, established>>

Next ==
    \E p \in Parties :
        \/ Establish(p)
        \/ Encrypt(p)
        \/ \E m \in network : Receive(p, m)
        \/ Delete(p)
        \/ Reinstall(p)

Spec == Init /\ [][Next]_vars

-----------------------------------------------------------------------------
(* Properties *)

KeyPairs == Parties \X {"signed", "ephemeral"} \X Nat

ChainTypeOK(c) ==
    /\ c.type \in {"sending", "receiving"}
    /\ c.counter \in Nat
    /\ c.live \in BOOLEAN
    /\ c.kept \subseteq Nat

SessionTypeOK(s) ==
    /\ {s.ephemeral, s.remote} \subseteq KeyPairs
    /\ s.previous \in Nat
    /\ s.closed \in Nat
    /\ \A e \in DOMAIN s.chains : e \in KeyPairs /\ ChainTypeOK(s.chains[e])
    /\ Cardinality(s.pending) <= 1

\* Every record holds sessions of the form session_record.ex declares; no
\* counter is negative, and a session waits for one answer at most.
TypeOK ==
    /\ \A p \in Parties : \A b \in DOMAIN record[p] : b \in KeyPairs /\ SessionTypeOK(record[p][b])
    /\ \A p \in Parties : Cardinality(identity[p]) <= 1 /\ identity[p] \subseteq Nat
    /\ preKeys \in [Parties -> SUBSET PreKeyIds]
    /\ offered \in [Parties -> SUBSET PreKeyIds]
    /\ installation \in [Parties -> Nat]
    /\ generated \in [Parties -> Nat]
    /\ read \subseteq network
    /\ \A p \in Parties : forgotten[p] \subseteq KeyPairs
    /\ established \in 0..MaxSessions /\ deletions \in 0..MaxDeletions

\* Whenever there is a record, exactly one of its sessions is open, and it
\* can send.  get_open_session/1 takes whichever open one it meets first
\* and encrypt/3 gives up without a sending chain: every way to open a
\* session must close the one before, and trimming must spare the open one.
OneOpen ==
    \A p \in Parties : DOMAIN record[p] # {} =>
        \E b \in DOMAIN record[p] :
            OpenSessions(record[p]) = {b} /\ CanSend(record[p][b])

\* No message key encrypts twice.
KeysUsedOnce ==
    \A m, l \in network : m.key = l.key /\ m.counter = l.counter => m = l

Held(p, m) == m.key.x3dh.base \in DOMAIN record[p]

\* A pre-key message for the keys p still has, that comes first.
Welcome(p, m) ==
    \E h \in m.hello : h.signedPreKey = SignedPreKey(p) /\ h.preKey \subseteq preKeys[p]

Familiar(p, m) == m.hello = {} \/ ~IdentityChanged(p, m)

\* m's session may exist a second time at p, with other keys.
Recreated(p, m) == m.key.x3dh.preKey = {} /\ m.key.x3dh.base \in forgotten[p]

\* A message is decrypted once: its key is gone afterwards, in whichever
\* session and chain it was, and a pre-key message does not set its session
\* up again.  Where no one-time pre-key went into the session that holds
\* only as long as p has the session.
ReadOnce ==
    \A p \in Parties : \A m \in read :
        /\ m.from # p
        /\ m.key.x3dh.preKey = {} => m.key.x3dh.base \notin forgotten[p] /\ Familiar(p, m)
        => ~Readable(p, m)

\* The message is not further ahead in its chain than keys may be skipped.
WithinReach(p, m) ==
    LET held == {b \in DOMAIN record[p] : m.ephemeral \in DOMAIN record[p][b].chains}
        from == {record[p][b].chains[m.ephemeral].counter : b \in held}
    IN  m.counter <= MaxSkipped \/ \E n \in from : m.counter - n <= MaxSkipped

\* A message that has not been decrypted can be, in whatever order messages
\* come, while its session is there (open or closed) or can still be set up
\* by it: no ratchet step, no closing of a session and no other message
\* takes its key away.
UnreadReadable ==
    \A p \in Parties : \A m \in network \ read :
        /\ m.from # p
        /\ m.key.x3dh.base \notin forgotten[p] /\ ~Recreated(m.from, m)
        /\ Held(p, m) \/ Welcome(p, m)
        /\ Familiar(p, m)
        /\ WithinReach(p, m)
        => Readable(p, m)

\* Keys are kept for messages that were sent and not yet decrypted, and for
\* nothing else: previous_counter names the last message of the chain that
\* ended, not the one after it.
KeptForUnread ==
    \A p \in Parties : \A b \in DOMAIN record[p] \ forgotten[p] :
        \A e \in DOMAIN record[p][b].chains : \A n \in record[p][b].chains[e].kept :
            \E m \in network \ read : m.key = record[p][b].chains[e].key /\ m.counter = n
=============================================================================
