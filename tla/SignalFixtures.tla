--------------------------- MODULE SignalFixtures --------------------------
(***************************************************************************)
(* dev/tools/generate_signal_fixtures.mts: the fixtures that the reference  *)
(* makes of addresses, of the mapping of identities, of sender keys and of  *)
(* a conversation of two, and test/baileys_ex/signal/                       *)
(* cross_validation_test.exs, which makes them again with the program.      *)
(* libsignal and the reference lie outside this repository; they are the    *)
(* sessions and sender keys of the modules below, with the key pairs the    *)
(* script queues for them.                                                  *)
(***************************************************************************)
EXTENDS SignalAddresses

DirectOps == INSTANCE SessionCipher WITH MaxClosed <- 40, MaxSkipped <- 2000
GroupOps  == INSTANCE SenderKeys WITH MaxStates <- 5, MaxKept <- 2000, MaxFuture <- 2000

VARIABLE work       \* what the script has made and still has to do

-----------------------------------------------------------------------------
(* Addresses and mappings. *)

FixtureJids == <<
    User("alice", SWhatsappNet), Jid("alice", 0, 2, SWhatsappNet),
    Jid("bob", 128, 0, SWhatsappNet), Jid("bob", 128, 3, "c.us"),
    User("carol", "lid"), Jid("user", 0, 99, "hosted"), Jid("user", 0, 99, "hosted.lid"),
    Jid("user", 0, 99, SWhatsappNet)>>

\* jidToSignalProtocolAddress of the reference, which throws for device 99.
RefSignalAddress(t) ==
    IF RefDecode(t).device = <<99>> /\ t[4] \notin {"hosted", "hosted.lid"} THEN NoAddress
    ELSE <<RefDecode(t).user, RefDecode(t).domain,
           IF RefDecode(t).device = NoPart THEN 0 ELSE RefDecode(t).device[1]>>

BuildAddressFixtures ==
    [i \in DOMAIN FixtureJids |-> [jid |-> FixtureJids[i], address |-> RefSignalAddress(FixtureJids[i])]]

StoredPair == [lid |-> User("carol", "lid"), pn |-> User("alice", SWhatsappNet)]

ForwardPns == {User("alice", SWhatsappNet), Jid("alice", 0, 2, SWhatsappNet), Jid("alice", 0, 99, "hosted")}

ReverseLids == {User("carol", "lid"), Jid("carol", 0, 2, "lid"), Jid("carol", 0, 99, "lid"),
                Jid("carol", 0, 99, "hosted.lid")}

\* The lookups of the reference over the one pair that is stored: a hosted
\* linked identity is found for a number, but not looked up itself.
RefLid(pn) == Jid("carol", 0, pn[3], IF pn[4] = "hosted" THEN "hosted.lid" ELSE "lid")
RefPn(lid) == IF lid[4] = "lid" THEN Jid("alice", 0, lid[3], SWhatsappNet) ELSE EmptyText

BuildLidMappingFixtures ==
    [stored  |-> StoredPair,
     forward |-> {<<pn, RefLid(pn)>> : pn \in ForwardPns},
     reverse |-> {<<lid, RefPn(lid)>> : lid \in ReverseLids}]

-----------------------------------------------------------------------------
(* Sender keys: three messages, the second of which is read first. *)

KeyId == 1729
DecryptOrder == <<2, 1, 3>>

SenderMessage(r) ==
    [id |-> GroupOps!Current(r).id, iteration |-> GroupOps!EncryptIteration(GroupOps!Current(r))]

\* The records of a sender that encrypts three times.
SenderRecord(first) ==
    LET r[n \in 0..3] == IF n = 0 THEN first ELSE GroupOps!Encrypted(r[n - 1])
    IN  r

BuildSenderKeyFixtures ==
    LET first == <<GroupOps!NewState(KeyId, 0)>>
    IN  [state        |-> GroupOps!NewState(KeyId, 0),
         distribution |-> GroupOps!Distribution(first),
         messages     |-> [i \in 1..3 |-> SenderMessage(SenderRecord(first)[i - 1])],
         order        |-> DecryptOrder]

\* The records of a reader, as long as it can read.
ReaderReads(first, messages, order) ==
    LET r[n \in 0..Len(order)] ==
            IF n = 0 THEN first
            ELSE IF r[n - 1] = <<>> \/ ~GroupOps!Opens(r[n - 1], messages[order[n]]) THEN <<>>
            ELSE GroupOps!Decrypted(r[n - 1], messages[order[n]])
    IN  r[Len(order)] # <<>>

SenderKeysThrow(f) ==
    ~ReaderReads(GroupOps!Processed(<<>>, f.distribution), f.messages, f.order)

-----------------------------------------------------------------------------
(* The conversation.  Key pairs are named by their seeds.                   *)

AliceKeys == [base |-> 1002, ratchet |-> 1003, next |-> 1004]
BobKeys   == [identity |-> 2001, signed |-> 2002, preKey |-> {2003}, reply |-> 2004]

\* withQueuedSignalKeyPairs: the key pairs one call takes, and what the queue
\* has left when the generator is put back, of which nobody is told.
Taken(queue, n) == SubSeq(queue, 1, n)
Left(queue, n) == SubSeq(queue, n + 1, Len(queue))

InitQueueSwapped(k) == <<k.ratchet, k.base>>

InitQueue(k) == <<k.base, k.ratchet>>

\* A message of the open session of r.
MessageOf(r) ==
    LET s == r[CHOOSE b \in DirectOps!OpenSession(r) : TRUE]
    IN  [ephemeral |-> s.ephemeral, counter |-> s.chains[s.ephemeral].counter,
         previous |-> s.previous, key |-> s.chains[s.ephemeral].key, hello |-> s.pending]

AfterSent(r) ==
    LET b == CHOOSE b \in DirectOps!OpenSession(r) : TRUE
    IN  DirectOps!PutSession(r, b, DirectOps!Advanced(r[b]))

\* initOutgoing with what bob publishes: two key pairs.
InitOutgoing(base, ratchet) ==
    DirectOps!PutSession(DirectOps!EmptyRecord, base,
                      DirectOps!Outgoing(base, BobKeys.signed, BobKeys.preKey, ratchet))

\* decryptPreKeyWhisperMessage: the session it begins.
WithHello(m) ==
    LET hello == CHOOSE h \in m.hello : TRUE
    IN  DirectOps!WithIncoming(DirectOps!EmptyRecord, hello, BobKeys.signed, BobKeys.preKey, 1)

NewWork ==
    [step |-> "addresses", alice |-> DirectOps!EmptyRecord, bob |-> DirectOps!EmptyRecord,
     left |-> <<>>, sent |-> <<>>, fixture |-> <<>>]

Add(name, value) == work' = [work EXCEPT !.fixture = (name :> value) @@ @, !.step = name]

AddressFixtures == work.step = "addresses" /\ Add("addressed", BuildAddressFixtures)

LidMapping == work.step = "addressed" /\ Add("mapped", BuildLidMappingFixtures)

SenderKeyFixture ==
    /\ work.step = "mapped"
    /\ ~SenderKeysThrow(BuildSenderKeyFixtures)
    /\ Add("keyed", BuildSenderKeyFixtures)

\* Alice begins, from a queue of two key pairs, and encrypts.
AliceSends ==
    /\ work.step = "keyed"
    /\ LET queue == InitQueue(AliceKeys)
           keys == Taken(queue, 2)
           r == InitOutgoing(keys[1], keys[2])
       IN  work' = [work EXCEPT !.alice = AfterSent(r), !.sent = Append(@, MessageOf(r)),
                                !.left = @ \o Left(queue, 2), !.step = "alice sent"]

\* The party decrypts message i from a queue of the key pair "fresh", which a
\* ratchet step takes.
Reads(r, i, fresh) == DirectOps!Openers(r, work.sent[i], fresh) # {}

Ratchets(r, i) ==
    \A b \in DOMAIN r : work.sent[i].ephemeral \notin DOMAIN r[b].chains

QueueLeft(r, i, fresh) == IF Ratchets(r, i) THEN <<>> ELSE <<fresh>>

BobReplies ==
    LET r == WithHello(work.sent[1])
        bob == DirectOps!Decrypted(r, work.sent[1], BobKeys.reply)
    IN  /\ work.step = "alice sent"
        /\ Reads(r, 1, BobKeys.reply)
        /\ work' = [work EXCEPT !.bob = AfterSent(bob), !.sent = Append(@, MessageOf(bob)),
                                !.left = @ \o QueueLeft(r, 1, BobKeys.reply),
                                !.step = "bob sent"]

AliceReads ==
    /\ work.step = "bob sent"
    /\ Reads(work.alice, 2, AliceKeys.next)
    /\ work' = [work EXCEPT
           !.alice = DirectOps!Decrypted(@, work.sent[2], AliceKeys.next),
           !.left = @ \o QueueLeft(work.alice, 2, AliceKeys.next),
           !.fixture = ("direct" :> [alice |-> AliceKeys, bob |-> BobKeys,
                                     messages |-> work.sent]) @@ @,
           !.step = "built"]

\* One step of main before it writes; a sanity check that fails stops it.
BuildStep ==
    \/ AddressFixtures
    \/ LidMapping
    \/ SenderKeyFixture
    \/ AliceSends
    \/ BobReplies
    \/ AliceReads

Built == work.step = "built"

-----------------------------------------------------------------------------
(* cross_validation_test.exs *)

AddressesReplay(f) == \A i \in DOMAIN f : FromJid(f[i].jid) = f[i].address

MappingsReplay(f) ==
    LET s == StoreMapping(NoMappings, f.stored)
    IN  /\ \A p \in f.forward : LidForPn(s, p[1]) = p[2]
        /\ \A p \in f.reverse : PnForLid(s, p[1]) = p[2]

SenderKeysReplay(f) ==
    /\ GroupOps!Distribution(<<f.state>>) = f.distribution
    /\ \A i \in 1..3 : SenderMessage(SenderRecord(<<f.state>>)[i - 1]) = f.messages[i]
    /\ ReaderReads(GroupOps!Processed(<<>>, f.distribution), f.messages, f.order)

\* Each party of the program, with the key pairs the fixture names for it.
DirectReplay(f) ==
    LET alice == InitOutgoing(f.alice.base, f.alice.ratchet)
        bob == DirectOps!Decrypted(WithHello(f.messages[1]), f.messages[1], f.bob.reply)
    IN  /\ MessageOf(alice) = f.messages[1]
        /\ MessageOf(bob) = f.messages[2]
        /\ DirectOps!Openers(AfterSent(alice), f.messages[2], f.alice.next) # {}

Replays(f) ==
    /\ AddressesReplay(f.addressed)
    /\ MappingsReplay(f.mapped)
    /\ SenderKeysReplay(f.keyed)
    /\ DirectReplay(f.direct)
=============================================================================
