------------------------ MODULE SignalSessionsProofs -----------------------
(***************************************************************************)
(* Theorems about SignalSessions, for any bounds, any one-time pre-keys and *)
(* any limits on closed sessions and skipped keys.  In order: types; one    *)
(* open session in every record; no message key used twice to send          *)
(* (KeysUsedOnce); no message read twice (ReadOnce); keys kept only for     *)
(* messages sent and not yet read (KeptForUnread); a message sent while the *)
(* sessions agree stays readable until it is read (UnreadReadable).  Each   *)
(* rests on invariants defined where its proof begins:                      *)
(*   SessionInv  a session that a pre-key message begins is the one that    *)
(*               reads it, ratchets, and can send;                          *)
(*   KeysInv     every key a party sends with, in a message or in a session *)
(*               it may still send in, is its own and later than the last;  *)
(*   ReadingInv  the key of a message read is gone from the session that    *)
(*               read it, or that session is not begun again;               *)
(*   OwedInv     the messages of a chain are sent in turn, and a receiving  *)
(*               chain is advanced only past messages that were sent;       *)
(*   OriginInv   who began a session, with which secret, and that every     *)
(*               ratchet key a party knows of was made and used;            *)
(*   LineInv     the ratchet keys of a session on its two sides are one     *)
(*               line, on which one side follows the other;                 *)
(*   HeldInv     what a side has not read of the line it is on it can still *)
(*               reach: by a key it kept, in its chain, or by its next turn.*)
(***************************************************************************)
EXTENDS SignalSessions, FiniteSetTheorems, SequenceTheorems, TLAPS

X3DHs == [base : KeyPairs, signedPreKey : KeyPairs, preKey : SUBSET PreKeyIds]

\* What goes with the messages of a session that waits for an answer.
Pending == {{}} \union {{h} : h \in X3DHs}

RootKeys == [x3dh : X3DHs, mixed : Seq(SUBSET KeyPairs)]

Chains == [type : {"sending", "receiving"}, key : RootKeys, counter : Nat,
           live : BOOLEAN, kept : SUBSET Nat]

ChainMaps == UNION {[E -> Chains] : E \in SUBSET KeyPairs}

Sessions == [root : RootKeys, ephemeral : KeyPairs, remote : KeyPairs, previous : Nat,
             closed : Nat, chains : ChainMaps, pending : Pending]

Records == UNION {[B -> Sessions] : B \in SUBSET KeyPairs}

Messages == [from : Parties, n : Nat, ephemeral : KeyPairs, counter : Nat, previous : Nat,
             key : RootKeys, hello : Pending, by : Nat]

\* Every key of the session under base key b was derived from b.
Linked(b, s) ==
    /\ s.root.x3dh.base = b
    /\ \A e \in DOMAIN s.chains : s.chains[e].key.x3dh.base = b
    /\ \A h \in s.pending : h.base = b

Proper(b, s) == s \in Sessions /\ Linked(b, s)

AtMostOneOpen(r) == \A b, c \in OpenSessions(r) : b = c

-----------------------------------------------------------------------------
\* What membership in ChainMaps, a union over all domains, gives and takes.
LEMMA ChainMapsType ==
    /\ \A f \in ChainMaps : DOMAIN f \subseteq KeyPairs /\ \A e \in DOMAIN f : f[e] \in Chains
    /\ \A E \in SUBSET KeyPairs : \A f \in [E -> Chains] : f \in ChainMaps
BY DEF ChainMaps

\* The same for Records.
LEMMA RecordsType ==
    /\ \A r \in Records : DOMAIN r \subseteq KeyPairs /\ \A b \in DOMAIN r : r[b] \in Sessions
    /\ \A B \in SUBSET KeyPairs : \A r \in [B -> Sessions] : r \in Records
BY DEF Records

\* No session and no chain yet.
LEMMA EmptyRecordType == EmptyRecord \in Records /\ EmptyRecord \in ChainMaps /\ DOMAIN EmptyRecord = {}
BY DEF Records, ChainMaps, EmptyRecord

\* Mixing a secret in keeps the X3DH secret a key began with.
LEMMA MixedType ==
    ASSUME NEW k \in RootKeys, NEW x \in SUBSET KeyPairs
    PROVE  Mixed(k, x) \in RootKeys /\ Mixed(k, x).x3dh = k.x3dh
BY DEF Mixed, RootKeys

\* A chain has the type and key it is made with.
LEMMA NewChainType ==
    ASSUME NEW k \in RootKeys, NEW t \in {"sending", "receiving"}
    PROVE  /\ NewChain(t, k) \in Chains
           /\ NewChain(t, k).type = t
           /\ NewChain(t, k).key = k
BY DEF NewChain, Chains

-----------------------------------------------------------------------------
\* put_session/3 changes one session.
LEMMA Put ==
    ASSUME NEW r \in Records, NEW b \in KeyPairs, NEW s \in Sessions
    PROVE  /\ PutSession(r, b, s) \in Records
           /\ DOMAIN PutSession(r, b, s) = DOMAIN r \union {b}
           /\ PutSession(r, b, s)[b] = s
           /\ \A k \in DOMAIN r \ {b} : PutSession(r, b, s)[k] = r[k]
<1> DEFINE q == PutSession(r, b, s)
<1>1. q \in [DOMAIN r \union {b} -> Sessions]
  BY RecordsType DEF PutSession
<1>2. DOMAIN r \union {b} \in SUBSET KeyPairs
  BY RecordsType
<1> QED
  BY <1>1, <1>2, RecordsType DEF PutSession

\* Putting a session back where one was adds none.
LEMMA PutBack ==
    ASSUME NEW r \in Records, NEW b \in DOMAIN r, NEW s \in Sessions
    PROVE  /\ DOMAIN PutSession(r, b, s) = DOMAIN r
           /\ PutSession(r, b, s)[b] = s
           /\ \A k \in DOMAIN r \ {b} : PutSession(r, b, s)[k] = r[k]
BY DEF PutSession

\* Trimming removes sessions and changes none.
LEMMA TrimmedPart ==
    ASSUME NEW r \in Records
    PROVE  /\ Trimmed(r) \in Records
           /\ DOMAIN Trimmed(r) \subseteq DOMAIN r
           /\ \A b \in DOMAIN Trimmed(r) : Trimmed(r)[b] = r[b]
<1> DEFINE S == OpenSessions(r) \union
             {b \in ClosedSessions(r) : Cardinality(ClosedLater(r, b)) < MaxClosed}
<1>1. S \subseteq DOMAIN r
  BY DEF OpenSessions, ClosedSessions
<1>2. Restrict(r, S) \in [S -> Sessions]
  BY <1>1, RecordsType DEF Restrict
<1>3. S \in SUBSET KeyPairs
  BY <1>1, RecordsType
<1>4. Restrict(r, S) \in Records
  BY <1>2, <1>3, RecordsType
<1> QED
  BY <1>1, <1>4 DEF Trimmed, Restrict

\* Afterwards no session is open; no session has changed but for "closed".
LEMMA Closing ==
    ASSUME NEW r \in Records, AtMostOneOpen(r), NEW now \in Nat \ {0}
    PROVE  LET q == CloseOpenSession(r, now)
           IN  /\ q \in Records
               /\ DOMAIN q \subseteq DOMAIN r
               /\ OpenSessions(q) = {}
               /\ \A b \in DOMAIN q : q[b] = r[b] \/ q[b] = [r[b] EXCEPT !.closed = now]
<1> DEFINE f == [b \in DOMAIN r |-> IF b \in OpenSession(r)
                                    THEN [r[b] EXCEPT !.closed = now] ELSE r[b]]
<1>1. CASE OpenSession(r) = {}
  BY <1>1 DEF CloseOpenSession, OpenSession
<1>2. CASE OpenSession(r) # {}
  <2>1. OpenSession(r) = OpenSessions(r)
    BY <1>2 DEF OpenSession, AtMostOneOpen
  <2>2. \A b \in DOMAIN r : [r[b] EXCEPT !.closed = now] \in Sessions
    BY RecordsType DEF Sessions
  <2>3. f \in [DOMAIN r -> Sessions]
    BY <2>2, RecordsType
  <2>4. f \in Records
    BY <2>3, RecordsType
  <2>5. \A b \in DOMAIN r : [r[b] EXCEPT !.closed = now].closed = now
    BY RecordsType DEF Sessions
  <2>6. \A b \in DOMAIN r : f[b].closed # 0
    BY <2>1, <2>5 DEF OpenSessions
  <2>7. CloseOpenSession(r, now) = Trimmed(f)
    BY <1>2 DEF CloseOpenSession
  <2>8. DOMAIN f = DOMAIN r
    OBVIOUS
  <2>9. \A b \in DOMAIN f : f[b] = r[b] \/ f[b] = [r[b] EXCEPT !.closed = now]
    OBVIOUS
  <2> HIDE DEF f
  <2>10. /\ Trimmed(f) \in Records
         /\ DOMAIN Trimmed(f) \subseteq DOMAIN f
         /\ \A b \in DOMAIN Trimmed(f) : Trimmed(f)[b] = f[b]
    BY <2>4, TrimmedPart
  <2>11. OpenSessions(Trimmed(f)) = {}
    BY <2>6, <2>8, <2>10 DEF OpenSessions
  <2> QED
    BY <2>7, <2>8, <2>9, <2>10, <2>11
<1> QED
  BY <1>1, <1>2

-----------------------------------------------------------------------------
\* A session begun by us can send at once.
LEMMA OutgoingProper ==
    ASSUME NEW base \in KeyPairs, NEW spk \in KeyPairs, NEW k \in SUBSET PreKeyIds,
           NEW fresh \in KeyPairs
    PROVE  LET s == Outgoing(base, spk, k, fresh)
           IN  Proper(base, s) /\ CanSend(s) /\ s.closed = 0
<1> DEFINE x == X3DH(base, spk, k)
           key == Mixed(RootKey(x), Agreed(fresh, spk))
           chains == [e \in {fresh} |-> NewChain("sending", key)]
<1>1. x \in X3DHs /\ x.base = base
  BY DEF X3DH, X3DHs
<1>2. RootKey(x) \in RootKeys /\ RootKey(x).x3dh = x
  BY <1>1 DEF RootKey, RootKeys
<1>3. key \in RootKeys /\ key.x3dh = x
  BY <1>2, MixedType DEF Agreed
<1>4. /\ NewChain("sending", key) \in Chains
      /\ NewChain("sending", key).type = "sending"
      /\ NewChain("sending", key).key = key
  BY <1>3, NewChainType
<1>5. chains \in [{fresh} -> Chains]
  BY <1>4
<1>6. chains \in ChainMaps
  BY <1>5, ChainMapsType
<1>7. Outgoing(base, spk, k, fresh) =
        [root |-> key, ephemeral |-> fresh, remote |-> spk, previous |-> 0,
         closed |-> 0, chains |-> chains, pending |-> {x}]
  BY DEF Outgoing
<1>8. chains[fresh] = NewChain("sending", key) /\ DOMAIN chains = {fresh}
  OBVIOUS
<1> HIDE DEF x, key, chains
<1>9. Outgoing(base, spk, k, fresh) \in Sessions
  BY <1>1, <1>3, <1>6, <1>7 DEF Sessions, Pending
<1>10. Linked(base, Outgoing(base, spk, k, fresh))
  BY <1>1, <1>3, <1>4, <1>7, <1>8 DEF Linked
<1> QED
  BY <1>4, <1>7, <1>8, <1>9, <1>10 DEF Proper, CanSend

\* A session begun by the peer has no chain yet.
LEMMA IncomingProper ==
    ASSUME NEW base \in KeyPairs, NEW spk \in KeyPairs, NEW k \in SUBSET PreKeyIds
    PROVE  LET s == Incoming(base, spk, k)
           IN  Proper(base, s) /\ s.closed = 0 /\ DOMAIN s.chains = {}
<1> DEFINE x == X3DH(base, spk, k)
<1>1. x \in X3DHs /\ x.base = base
  BY DEF X3DH, X3DHs
<1>2. RootKey(x) \in RootKeys /\ RootKey(x).x3dh = x
  BY <1>1 DEF RootKey, RootKeys
<1>3. Incoming(base, spk, k) =
        [root |-> RootKey(x), ephemeral |-> spk, remote |-> base, previous |-> 0,
         closed |-> 0, chains |-> EmptyRecord, pending |-> {}]
  BY DEF Incoming
<1> HIDE DEF x
<1>4. Incoming(base, spk, k) \in Sessions
  BY <1>2, <1>3, EmptyRecordType DEF Sessions, Pending
<1>5. Linked(base, Incoming(base, spk, k))
  BY <1>1, <1>2, <1>3, EmptyRecordType DEF Linked
<1> QED
  BY <1>3, <1>4, <1>5, EmptyRecordType DEF Proper

\* The previous counter is never negative.
LEMMA PreviousCounterType ==
    ASSUME NEW s \in Sessions
    PROVE  PreviousCounter(s) \in Nat
<1>1. \A e \in DOMAIN s.chains : s.chains[e].counter \in Nat
  BY ChainMapsType DEF Sessions, Chains
<1> QED
  BY <1>1 DEF PreviousCounter

\* Ending a chain keeps its key.
LEMMA ClosedChainType ==
    ASSUME NEW c \in Chains, NEW previous \in Nat
    PROVE  /\ ClosedChain(c, previous) \in Chains
           /\ ClosedChain(c, previous).key = c.key
<1> DEFINE kept == c.kept \union {n \in c.counter..previous : c.live}
           counter == IF c.live /\ c.counter <= previous THEN previous + 1 ELSE c.counter
<1>1. kept \in SUBSET Nat
  BY DEF Chains
<1>2. counter \in Nat
  BY DEF Chains
<1>3. ClosedChain(c, previous) = [c EXCEPT !.kept = kept, !.counter = counter, !.live = FALSE]
  BY DEF ClosedChain
<1> HIDE DEF kept, counter
<1> QED
  BY <1>1, <1>2, <1>3 DEF Chains

\* A ratchet step keeps the chains but our old sending chain, under the same keys.
LEMMA KeptChainsType ==
    ASSUME NEW s \in Sessions, NEW previous \in Nat
    PROVE  /\ KeptChains(s, previous) \in ChainMaps
           /\ DOMAIN KeptChains(s, previous) = DOMAIN s.chains \ {s.ephemeral}
           /\ \A e \in DOMAIN KeptChains(s, previous) :
                 KeptChains(s, previous)[e].key = s.chains[e].key
<1>1. DOMAIN s.chains \subseteq KeyPairs /\ \A e \in DOMAIN s.chains : s.chains[e] \in Chains
  BY ChainMapsType DEF Sessions
<1>2. \A e \in DOMAIN s.chains :
        /\ ClosedChain(s.chains[e], previous) \in Chains
        /\ ClosedChain(s.chains[e], previous).key = s.chains[e].key
  BY <1>1, ClosedChainType
<1>3. KeptChains(s, previous) \in [DOMAIN s.chains \ {s.ephemeral} -> Chains]
  BY <1>1, <1>2 DEF KeptChains
<1>4. KeptChains(s, previous) \in ChainMaps
  BY <1>1, <1>3, ChainMapsType
<1> QED
  BY <1>2, <1>4 DEF KeptChains

\* A ratchet step keeps a session's keys its own and leaves it able to send.
LEMMA RatchetedProper ==
    ASSUME NEW b \in KeyPairs, NEW s, Proper(b, s), NEW theirs \in KeyPairs,
           NEW previous \in Nat, NEW fresh \in KeyPairs
    PROVE  LET t == Ratcheted(s, theirs, previous, fresh)
           IN  /\ Proper(b, t) /\ CanSend(t) /\ t.closed = s.closed
               /\ theirs \in DOMAIN t.chains
<1> DEFINE receiving == Mixed(s.root, Agreed(s.ephemeral, theirs))
           sending == Mixed(receiving, Agreed(fresh, theirs))
           kept == KeptChains(s, previous)
           chains == [e \in DOMAIN kept \union {theirs, fresh} |->
                        IF e = fresh THEN NewChain("sending", sending)
                        ELSE IF e = theirs THEN NewChain("receiving", receiving)
                        ELSE kept[e]]
<1>1. s \in Sessions /\ s.root \in RootKeys /\ s.root.x3dh.base = b /\ s.ephemeral \in KeyPairs
  BY DEF Proper, Linked, Sessions
<1>2. receiving \in RootKeys /\ receiving.x3dh = s.root.x3dh
  BY <1>1, MixedType DEF Agreed
<1> HIDE DEF receiving
<1>3. sending \in RootKeys /\ sending.x3dh = s.root.x3dh
  BY <1>2, MixedType DEF Agreed
<1>4. /\ kept \in ChainMaps
      /\ DOMAIN kept \subseteq DOMAIN s.chains
      /\ \A e \in DOMAIN kept : kept[e].key = s.chains[e].key
  BY <1>1, KeptChainsType
<1> HIDE DEF sending
<1>5. /\ NewChain("sending", sending) \in Chains
      /\ NewChain("sending", sending).type = "sending"
      /\ NewChain("sending", sending).key = sending
  BY <1>3, NewChainType
<1>6. /\ NewChain("receiving", receiving) \in Chains
      /\ NewChain("receiving", receiving).key = receiving
  BY <1>2, NewChainType
<1>7. Ratcheted(s, theirs, previous, fresh) =
        [s EXCEPT !.root = sending, !.ephemeral = fresh, !.remote = theirs,
                  !.previous = PreviousCounter(s), !.chains = chains]
  BY DEF Ratcheted, receiving, sending
<1> HIDE DEF kept
<1>8. chains \in [DOMAIN kept \union {theirs, fresh} -> Chains]
  BY <1>4, <1>5, <1>6, ChainMapsType
<1>9. chains \in ChainMaps
  BY <1>4, <1>8, ChainMapsType
<1>10. /\ DOMAIN chains = DOMAIN kept \union {theirs, fresh}
       /\ chains[fresh] = NewChain("sending", sending)
  OBVIOUS
<1>11. \A e \in DOMAIN chains : chains[e].key.x3dh.base = b
  <2>1. \A e \in DOMAIN kept : kept[e].key.x3dh.base = b
    BY <1>4 DEF Proper, Linked
  <2> QED
    BY <1>1, <1>2, <1>3, <1>5, <1>6, <2>1
<1> HIDE DEF chains
<1>12. PreviousCounter(s) \in Nat
  BY <1>1, PreviousCounterType
<1>13. Ratcheted(s, theirs, previous, fresh) \in Sessions
  BY <1>1, <1>3, <1>7, <1>9, <1>12 DEF Sessions
<1>14. LET t == Ratcheted(s, theirs, previous, fresh)
       IN  /\ t.root = sending /\ t.ephemeral = fresh /\ t.chains = chains
           /\ t.pending = s.pending /\ t.closed = s.closed
  BY <1>1, <1>7 DEF Sessions
<1>15. Linked(b, Ratcheted(s, theirs, previous, fresh))
  BY <1>1, <1>3, <1>11, <1>14 DEF Linked, Proper
<1> QED
  BY <1>5, <1>10, <1>13, <1>14, <1>15 DEF Proper, CanSend

\* The session a message is tried in has a chain for it.
LEMMA ForMessageProper ==
    ASSUME NEW b \in KeyPairs, NEW s, Proper(b, s), NEW m \in Messages,
           NEW fresh \in KeyPairs
    PROVE  LET t == ForMessage(s, m, fresh)
           IN  /\ Proper(b, t)
               /\ t.closed = s.closed
               /\ m.ephemeral \in DOMAIN t.chains
               /\ CanSend(s) \/ DOMAIN s.chains = {} => CanSend(t)
<1> DEFINE t == ForMessage(s, m, fresh)
           Fine == /\ Proper(b, t)
                   /\ t.closed = s.closed
                   /\ m.ephemeral \in DOMAIN t.chains
                   /\ CanSend(s) \/ DOMAIN s.chains = {} => CanSend(t)
<1>1. m.ephemeral \in KeyPairs /\ m.previous \in Nat
  BY DEF Messages
<1>2. CASE m.ephemeral \in DOMAIN s.chains
  <2>1. t = s
    BY <1>2 DEF ForMessage
  <2> HIDE DEF t
  <2>2. Fine
    BY <1>2, <2>1
  <2> QED
    BY <2>2 DEF t
<1>3. CASE m.ephemeral \notin DOMAIN s.chains
  <2> DEFINE u == Ratcheted(s, m.ephemeral, m.previous, fresh)
  <2>1. t = u
    BY <1>3 DEF ForMessage
  <2>2. Proper(b, u) /\ CanSend(u) /\ u.closed = s.closed /\ m.ephemeral \in DOMAIN u.chains
    BY <1>1, RatchetedProper
  <2> HIDE DEF t, u
  <2>3. Fine
    BY <2>1, <2>2
  <2> QED
    BY <2>3 DEF t
<1> QED
  BY ONLY <1>2, <1>3

\* Taking a message key changes neither key nor type of a chain.
LEMMA TakenType ==
    ASSUME NEW c \in Chains, NEW n \in Nat
    PROVE  /\ Taken(c, n) \in Chains
           /\ Taken(c, n).key = c.key
           /\ Taken(c, n).type = c.type
<1>1. CASE n \in c.kept
  BY <1>1 DEF Taken, Chains
<1>2. CASE n \notin c.kept
  <2> DEFINE kept == c.kept \union c.counter..(n - 1)
  <2>1. kept \in SUBSET Nat
    BY DEF Chains
  <2>2. Taken(c, n) = [c EXCEPT !.kept = kept, !.counter = n + 1]
    BY <1>2 DEF Taken
  <2> HIDE DEF kept
  <2>3. n + 1 \in Nat
    OBVIOUS
  <2>4. [c EXCEPT !.kept = kept, !.counter = n + 1] \in Chains
    BY <2>1, <2>3 DEF Chains
  <2>5. [c EXCEPT !.kept = kept, !.counter = n + 1].key = c.key
    BY DEF Chains
  <2>6. [c EXCEPT !.kept = kept, !.counter = n + 1].type = c.type
    BY DEF Chains
  <2> QED
    BY <2>2, <2>4, <2>5, <2>6
<1> QED
  BY <1>1, <1>2

\* Decrypting changes one chain's keys, no chain's type, and opens nothing.
LEMMA ReceivedProper ==
    ASSUME NEW b \in KeyPairs, NEW s, Proper(b, s), NEW m \in Messages,
           NEW fresh \in KeyPairs,
           CanSend(s) \/ DOMAIN s.chains = {}
    PROVE  LET t == Received(s, m, fresh)
           IN  Proper(b, t) /\ CanSend(t) /\ t.closed = s.closed
<1> DEFINE f == ForMessage(s, m, fresh)
           c == Taken(f.chains[m.ephemeral], m.counter)
           chains == [f.chains EXCEPT ![m.ephemeral] = c]
<1>1. /\ Proper(b, f) /\ CanSend(f) /\ f.closed = s.closed
      /\ m.ephemeral \in DOMAIN f.chains
  BY ForMessageProper
<1>2. Received(s, m, fresh) = [f EXCEPT !.chains = chains, !.pending = {}]
  BY DEF Received
<1> HIDE DEF f
<1>3. f \in Sessions
  BY <1>1 DEF Proper
<1>4. DOMAIN f.chains \subseteq KeyPairs /\ \A e \in DOMAIN f.chains : f.chains[e] \in Chains
  BY <1>3, ChainMapsType DEF Sessions
<1>5. m.counter \in Nat
  BY DEF Messages
<1>6. c \in Chains /\ c.key = f.chains[m.ephemeral].key /\ c.type = f.chains[m.ephemeral].type
  BY <1>1, <1>4, <1>5, TakenType
<1> HIDE DEF c
<1>7. f.chains \in [DOMAIN f.chains -> Chains]
  BY <1>3, <1>4 DEF Sessions, ChainMaps
<1>8. chains \in [DOMAIN f.chains -> Chains]
  BY <1>6, <1>7
<1>9. /\ DOMAIN chains = DOMAIN f.chains
      /\ \A e \in DOMAIN chains : chains[e].key = f.chains[e].key /\ chains[e].type = f.chains[e].type
  BY <1>1, <1>6, <1>7
<1> HIDE DEF chains
<1>10. chains \in ChainMaps
  BY <1>4, <1>8, ChainMapsType
<1>11. LET t == Received(s, m, fresh)
       IN  /\ t \in Sessions /\ t.chains = chains /\ t.closed = f.closed /\ t.pending = {}
           /\ t.root = f.root /\ t.ephemeral = f.ephemeral
  BY <1>2, <1>3, <1>10 DEF Sessions, Pending
<1>12. Linked(b, Received(s, m, fresh))
  BY <1>1, <1>9, <1>11 DEF Linked, Proper
<1>13. CanSend(Received(s, m, fresh))
  BY <1>1, <1>9, <1>11 DEF CanSend
<1> QED
  BY <1>1, <1>11, <1>12, <1>13 DEF Proper

\* Only the session a message belongs to opens it.
LEMMA OpensOwn ==
    ASSUME NEW b \in KeyPairs, NEW s, Proper(b, s), NEW m \in Messages,
           NEW fresh \in KeyPairs, Opens(s, m, fresh)
    PROVE  m.key.x3dh.base = b
<1>1. /\ Proper(b, ForMessage(s, m, fresh))
      /\ m.ephemeral \in DOMAIN ForMessage(s, m, fresh).chains
  BY ForMessageProper
<1> QED
  BY <1>1 DEF Opens, Proper, Linked

\* Encrypting moves the sending chain on and changes nothing else.
LEMMA AdvancedProper ==
    ASSUME NEW b \in KeyPairs, NEW s, Proper(b, s), CanSend(s)
    PROVE  Proper(b, Advanced(s)) /\ CanSend(Advanced(s)) /\ Advanced(s).closed = s.closed
<1> DEFINE e == s.ephemeral
           c == [s.chains[e] EXCEPT !.counter = @ + 1]
           chains == [s.chains EXCEPT ![e] = c]
<1>1. s \in Sessions /\ e \in DOMAIN s.chains
  BY DEF Proper, CanSend
<1>2. DOMAIN s.chains \subseteq KeyPairs /\ \A k \in DOMAIN s.chains : s.chains[k] \in Chains
  BY <1>1, ChainMapsType DEF Sessions
<1>3. c \in Chains /\ c.key = s.chains[e].key /\ c.type = s.chains[e].type
  BY <1>1, <1>2 DEF Chains
<1>4. Advanced(s) = [s EXCEPT !.chains = chains]
  BY DEF Advanced
<1>5. s.chains \in [DOMAIN s.chains -> Chains]
  BY <1>1, <1>2 DEF Sessions, ChainMaps
<1> HIDE DEF c
<1>6. chains \in [DOMAIN s.chains -> Chains]
  BY <1>3, <1>5
<1>7. /\ DOMAIN chains = DOMAIN s.chains
      /\ \A k \in DOMAIN chains : chains[k].key = s.chains[k].key /\ chains[k].type = s.chains[k].type
  BY <1>1, <1>3, <1>5
<1> HIDE DEF chains
<1>8. chains \in ChainMaps
  BY <1>2, <1>6, ChainMapsType
<1>9. /\ Advanced(s) \in Sessions
      /\ Advanced(s).chains = chains
      /\ Advanced(s).closed = s.closed
      /\ Advanced(s).pending = s.pending
      /\ Advanced(s).root = s.root
      /\ Advanced(s).ephemeral = s.ephemeral
  BY <1>1, <1>4, <1>8 DEF Sessions
<1> HIDE DEF e
<1> QED
  BY <1>7, <1>9 DEF Proper, Linked, CanSend

-----------------------------------------------------------------------------
\* A stored record: every session has its own keys and can send, and exactly
\* one is open, if there is any.
Good(r) ==
    /\ r \in Records
    /\ \A b \in DOMAIN r : Proper(b, r[b]) /\ CanSend(r[b])
    /\ AtMostOneOpen(r)
    /\ DOMAIN r # {} => OpenSessions(r) # {}

\* It has its own keys and can send, or is own and will ratchet when read from.
Usable(b, s, own) ==
    Proper(b, s) /\ (CanSend(s) \/ (b = own /\ DOMAIN s.chains = {}))

\* A record without sessions.
LEMMA GoodEmpty == Good(EmptyRecord)
BY EmptyRecordType DEF Good, AtMostOneOpen, OpenSessions

\* What closing leaves has its own keys, can send, and is closed.
LEMMA ClosingGood ==
    ASSUME NEW r, Good(r), NEW now \in Nat \ {0}
    PROVE  LET q == CloseOpenSession(r, now)
           IN  /\ q \in Records
               /\ OpenSessions(q) = {}
               /\ \A b \in DOMAIN q : Proper(b, q[b]) /\ CanSend(q[b])
<1> DEFINE q == CloseOpenSession(r, now)
<1>1. /\ q \in Records
      /\ DOMAIN q \subseteq DOMAIN r
      /\ OpenSessions(q) = {}
      /\ \A b \in DOMAIN q : q[b] = r[b] \/ q[b] = [r[b] EXCEPT !.closed = now]
  BY Closing DEF Good
<1> HIDE DEF q
<1>2. ASSUME NEW b \in DOMAIN q PROVE Proper(b, q[b]) /\ CanSend(q[b])
  <2>1. Proper(b, r[b]) /\ CanSend(r[b])
    BY <1>1 DEF Good
  <2> DEFINE s == [r[b] EXCEPT !.closed = now]
  <2>2. /\ s \in Sessions
        /\ s.root = r[b].root /\ s.chains = r[b].chains
        /\ s.pending = r[b].pending /\ s.ephemeral = r[b].ephemeral
    BY <2>1 DEF Proper, Sessions
  <2> HIDE DEF s
  <2>3. Proper(b, s) /\ CanSend(s)
    BY <2>1, <2>2 DEF Proper, Linked, CanSend
  <2> QED
    BY <1>1, <2>1, <2>3 DEF s
<1> QED
  BY <1>1, <1>2 DEF q

\* A new session, beside the ones just closed.
LEMMA OpeningGood ==
    ASSUME NEW r, Good(r), NEW now \in Nat \ {0}, NEW b \in KeyPairs,
           NEW s, Proper(b, s), s.closed = 0
    PROVE  LET q == PutSession(CloseOpenSession(r, now), b, s)
           IN  /\ q \in Records
               /\ q[b] = s
               /\ b \in DOMAIN q
               /\ OpenSessions(q) = {b}
               /\ \A k \in DOMAIN q \ {b} : Proper(k, q[k]) /\ CanSend(q[k])
<1> DEFINE c == CloseOpenSession(r, now)
           q == PutSession(c, b, s)
<1>1. /\ c \in Records
      /\ OpenSessions(c) = {}
      /\ \A k \in DOMAIN c : Proper(k, c[k]) /\ CanSend(c[k])
  BY ClosingGood
<1> HIDE DEF c
<1>2. /\ q \in Records
      /\ DOMAIN q = DOMAIN c \union {b}
      /\ q[b] = s
      /\ \A k \in DOMAIN c \ {b} : q[k] = c[k]
  <2>1. s \in Sessions /\ c \in Records /\ b \in KeyPairs
    BY <1>1 DEF Proper
  <2> QED
    BY ONLY <2>1, Put DEF q
<1> HIDE DEF q
<1>3. OpenSessions(q) = {b}
  BY <1>1, <1>2 DEF OpenSessions
<1>4. \A k \in DOMAIN q \ {b} : Proper(k, q[k]) /\ CanSend(q[k])
  BY <1>1, <1>2
<1> QED
  BY <1>2, <1>3, <1>4 DEF q, c

\* inject_e2e_session/3 leaves one open session that can send.
LEMMA EstablishGood ==
    ASSUME NEW r, Good(r), NEW now \in Nat \ {0}, NEW b \in KeyPairs,
           NEW s, Proper(b, s), s.closed = 0, CanSend(s)
    PROVE  Good(PutSession(CloseOpenSession(r, now), b, s))
<1> DEFINE q == PutSession(CloseOpenSession(r, now), b, s)
<1>1. /\ q \in Records /\ q[b] = s /\ b \in DOMAIN q /\ OpenSessions(q) = {b}
      /\ \A k \in DOMAIN q \ {b} : Proper(k, q[k]) /\ CanSend(q[k])
  BY OpeningGood
<1> HIDE DEF q
<1>2. Good(q)
  BY <1>1 DEF Good, AtMostOneOpen
<1> QED
  BY <1>2 DEF q

\* Putting back a session that is as open as before.
LEMMA PutBackGood ==
    ASSUME NEW r \in Records, NEW b \in DOMAIN r, NEW s, Proper(b, s), CanSend(s),
           s.closed = r[b].closed, AtMostOneOpen(r), OpenSessions(r) # {},
           \A k \in DOMAIN r \ {b} : Proper(k, r[k]) /\ CanSend(r[k])
    PROVE  Good(PutSession(r, b, s))
<1> DEFINE q == PutSession(r, b, s)
<1>1. b \in KeyPairs
  BY RecordsType
<1>2. /\ q \in Records
      /\ DOMAIN q = DOMAIN r \union {b}
      /\ q[b] = s
      /\ \A k \in DOMAIN r \ {b} : q[k] = r[k]
  BY <1>1, Put DEF Proper
<1> HIDE DEF q
<1>3. OpenSessions(q) = OpenSessions(r)
  BY <1>2 DEF OpenSessions
<1>4. \A k \in DOMAIN q : Proper(k, q[k]) /\ CanSend(q[k])
  BY <1>2
<1>5. Good(q)
  BY <1>2, <1>3, <1>4 DEF Good, AtMostOneOpen
<1> QED
  BY <1>5 DEF q

\* encrypt_message/3 puts back the session it took.
LEMMA EncryptGood ==
    ASSUME NEW r, Good(r), NEW b \in OpenSession(r)
    PROVE  Good(PutSession(r, b, Advanced(r[b])))
<1>1. b \in DOMAIN r /\ OpenSessions(r) # {}
  BY DEF OpenSession, OpenSessions
<1>2. r \in Records /\ b \in KeyPairs /\ Proper(b, r[b]) /\ CanSend(r[b])
  BY <1>1, RecordsType DEF Good
<1>3. /\ Proper(b, Advanced(r[b])) /\ CanSend(Advanced(r[b]))
      /\ Advanced(r[b]).closed = r[b].closed
  BY <1>2, AdvancedProper
<1> QED
  BY <1>1, <1>2, <1>3, PutBackGood DEF Good

\* The message is read in the session it belongs to.
LEMMA OpenersOwn ==
    ASSUME NEW r \in Records, \A k \in DOMAIN r : Proper(k, r[k]),
           NEW m \in Messages, NEW fresh \in KeyPairs,
           NEW b \in Openers(r, m, fresh)
    PROVE  b \in DOMAIN r /\ m.key.x3dh.base = b
<1>1. b \in DOMAIN r /\ Opens(r[b], m, fresh)
  BY DEF Openers, Tried, OpenSession, OpenSessions, ClosedSessions
<1>2. b \in KeyPairs /\ Proper(b, r[b])
  BY <1>1, RecordsType
<1> QED
  BY <1>1, <1>2, OpensOwn

\* Reading in a record where at most the message's own session cannot send.
LEMMA DecryptedGood ==
    ASSUME NEW r \in Records, AtMostOneOpen(r), OpenSessions(r) # {},
           NEW m \in Messages, NEW fresh \in KeyPairs,
           \A k \in DOMAIN r : Usable(k, r[k], m.key.x3dh.base),
           Openers(r, m, fresh) # {}
    PROVE  Good(Decrypted(r, m, fresh))
<1> DEFINE b == CHOOSE b \in Openers(r, m, fresh) : TRUE
<1>1. b \in Openers(r, m, fresh)
  OBVIOUS
<1>2. Decrypted(r, m, fresh) = PutSession(r, b, Received(r[b], m, fresh))
  BY DEF Decrypted
<1> HIDE DEF b
<1>3. b \in DOMAIN r /\ m.key.x3dh.base = b
  BY <1>1, OpenersOwn DEF Usable
<1>4. b \in KeyPairs /\ Proper(b, r[b]) /\ (CanSend(r[b]) \/ DOMAIN r[b].chains = {})
  BY <1>3, RecordsType DEF Usable
<1> DEFINE s == Received(r[b], m, fresh)
<1>5. Proper(b, s) /\ CanSend(s) /\ s.closed = r[b].closed
  BY <1>4, ReceivedProper
<1> HIDE DEF s
<1>6. \A k \in DOMAIN r \ {b} : Proper(k, r[k]) /\ CanSend(r[k])
  BY <1>3 DEF Usable
<1>7. Good(PutSession(r, b, s))
  BY <1>3, <1>5, <1>6, PutBackGood
<1> QED
  BY <1>2, <1>7 DEF s

\* A pre-key message: its session is there, or is set up to be read at once.
LEMMA WithIncomingReady ==
    ASSUME NEW r, Good(r), NEW h \in X3DHs, NEW spk \in KeyPairs,
           NEW k \in SUBSET PreKeyIds, NEW now \in Nat \ {0}
    PROVE  LET q == WithIncoming(r, h, spk, k, now)
           IN  /\ q \in Records
               /\ AtMostOneOpen(q)
               /\ OpenSessions(q) # {}
               /\ \A b \in DOMAIN q : Usable(b, q[b], h.base)
<1> DEFINE q == WithIncoming(r, h, spk, k, now)
           Ready == /\ q \in Records
                    /\ AtMostOneOpen(q)
                    /\ OpenSessions(q) # {}
                    /\ \A b \in DOMAIN q : Usable(b, q[b], h.base)
<1>1. CASE h.base \in DOMAIN r
  <2>1. q = r
    BY <1>1 DEF WithIncoming
  <2> HIDE DEF q
  <2>2. /\ r \in Records /\ AtMostOneOpen(r) /\ OpenSessions(r) # {}
        /\ \A b \in DOMAIN r : Proper(b, r[b]) /\ CanSend(r[b])
    BY <1>1 DEF Good
  <2>3. Ready
    BY ONLY <2>1, <2>2 DEF Usable
  <2> QED
    BY <2>3 DEF q
<1>2. CASE h.base \notin DOMAIN r
  <2> DEFINE s == Incoming(h.base, spk, k)
  <2>1. h.base \in KeyPairs
    BY DEF X3DHs
  <2>2. Proper(h.base, s) /\ s.closed = 0 /\ DOMAIN s.chains = {}
    BY <2>1, IncomingProper
  <2>3. q = PutSession(CloseOpenSession(r, now), h.base, s)
    BY <1>2 DEF WithIncoming
  <2> HIDE DEF s, q
  <2>4. /\ q \in Records /\ q[h.base] = s /\ OpenSessions(q) = {h.base}
        /\ \A b \in DOMAIN q \ {h.base} : Proper(b, q[b]) /\ CanSend(q[b])
    BY <2>1, <2>2, <2>3, OpeningGood
  <2>5. AtMostOneOpen(q)
    BY ONLY <2>4 DEF AtMostOneOpen
  <2>6. \A b \in DOMAIN q : Usable(b, q[b], h.base)
    BY ONLY <2>2, <2>4 DEF Usable
  <2>7. Ready
    BY ONLY <2>4, <2>5, <2>6
  <2> QED
    BY <2>7 DEF q
<1> QED
  BY ONLY <1>1, <1>2

-----------------------------------------------------------------------------
RecordsGood == record \in [Parties -> Records] /\ \A p \in Parties : Good(record[p])

\* A pre-key message names the session its key was derived in.
NetworkGood ==
    /\ network \subseteq Messages /\ IsFiniteSet(network) /\ read \subseteq network
    /\ \A m \in network : \A h \in m.hello : h.base = m.key.x3dh.base

OthersGood ==
    /\ identity \in [Parties -> {{}} \union {{i} : i \in Nat}]
    /\ preKeys \in [Parties -> SUBSET PreKeyIds]
    /\ offered \in [Parties -> SUBSET PreKeyIds]
    /\ installation \in [Parties -> Nat]
    /\ generated \in [Parties -> Nat]
    /\ forgotten \in [Parties -> SUBSET KeyPairs]
    /\ established \in 0..MaxSessions
    /\ deletions \in 0..MaxDeletions

SessionInv == RecordsGood /\ NetworkGood /\ OthersGood

\* The invariant holds at first.
LEMMA InitInv == Init => SessionInv
<1> SUFFICES ASSUME Init PROVE SessionInv
  OBVIOUS
<1>1. RecordsGood
  BY GoodEmpty, EmptyRecordType DEF Init, RecordsGood
<1>2. NetworkGood
  BY FS_EmptySet DEF Init, NetworkGood
<1>3. OthersGood
  BY BoundsAssumption DEF Init, OthersGood
<1> QED
  BY <1>1, <1>2, <1>3 DEF SessionInv

\* Saving a good record keeps all records good.
LEMMA Stored ==
    ASSUME RecordsGood, OthersGood, NEW p \in Parties, NEW kept, NEW r, Good(r),
           SaveFrom(p, kept, r)
    PROVE  RecordsGood' /\ forgotten' \in [Parties -> SUBSET KeyPairs]
<1>1. r \in Records
  BY DEF Good
<1>2. RecordsGood'
  BY <1>1 DEF RecordsGood, SaveFrom
<1>3. DOMAIN record[p] \subseteq KeyPairs
  BY RecordsType DEF RecordsGood
<1>4. forgotten' \in [Parties -> SUBSET KeyPairs]
  BY <1>3 DEF SaveFrom, OthersGood
<1> QED
  BY <1>2, <1>4

\* Keys, clock and peer have their types.
LEMMA KeysType ==
    ASSUME OthersGood, NEW p \in Parties
    PROVE  /\ SignedPreKey(p) \in KeyPairs
           /\ \A n \in Nat : Fresh(p, n) \in KeyPairs
           /\ Now(p) \in Nat \ {0}
           /\ Peer(p) \in Parties
<1>1. SignedPreKey(p) \in KeyPairs
  BY DEF OthersGood, SignedPreKey, KeyPairs
<1>2. generated[p] \in Nat
  BY DEF OthersGood
<1>3. \A n \in Nat : Fresh(p, n) \in KeyPairs
  BY <1>2 DEF Fresh, KeyPairs
<1>4. \E q \in Parties : q # p
  BY PartiesAssumption
<1>5. Peer(p) \in Parties
  BY <1>4 DEF Peer
<1> QED
  BY <1>1, <1>2, <1>3, <1>5 DEF Now

\* Establishing a session keeps the invariant.
LEMMA EstablishInv ==
    ASSUME SessionInv, NEW p \in Parties, Establish(p)
    PROVE  SessionInv'
<1> DEFINE q == Peer(p)
           base == Fresh(p, 1)
<1>1. RecordsGood /\ OthersGood /\ NetworkGood
  BY DEF SessionInv
<1>2. q \in Parties /\ base \in KeyPairs /\ Fresh(p, 2) \in KeyPairs /\ Now(p) \in Nat \ {0}
  BY <1>1, KeysType
<1>3. SignedPreKey(q) \in KeyPairs
  BY <1>1, <1>2, KeysType
<1>4. PICK k \in Bundled(p) :
        /\ Save(p, PutSession(CloseOpenSession(record[p], Now(p)), base,
                              Outgoing(base, SignedPreKey(q), k, Fresh(p, 2))))
        /\ offered' = [offered EXCEPT ![q] = @ \ k]
  BY DEF Establish
<1>5. k \in SUBSET PreKeyIds
  BY <1>1, <1>2 DEF Bundled, OthersGood
<1> DEFINE s == Outgoing(base, SignedPreKey(q), k, Fresh(p, 2))
<1>6. Proper(base, s) /\ CanSend(s) /\ s.closed = 0
  BY <1>2, <1>3, <1>5, OutgoingProper
<1>7. Good(record[p])
  BY <1>1 DEF RecordsGood
<1> DEFINE r == PutSession(CloseOpenSession(record[p], Now(p)), base, s)
<1>8. Save(p, r)
  BY <1>4
<1> HIDE DEF s, base
<1>9. Good(r)
  BY <1>2, <1>6, <1>7, EstablishGood
<1> HIDE DEF r
<1>10. RecordsGood' /\ forgotten' \in [Parties -> SUBSET KeyPairs]
  BY <1>1, <1>8, <1>9, Stored DEF Save
<1>11. NetworkGood'
  BY <1>1 DEF NetworkGood, Establish
<1> HIDE DEF q
<1>12. offered' \in [Parties -> SUBSET PreKeyIds]
  BY <1>1, <1>4 DEF OthersGood
<1>13. /\ identity' \in [Parties -> {{}} \union {{i} : i \in Nat}]
       /\ UNCHANGED <<preKeys, installation, deletions>>
  <2>1. installation[q] \in Nat
    BY <1>1, <1>2 DEF OthersGood
  <2> QED
    BY <1>1, <2>1 DEF OthersGood, Establish, q
<1>14. generated' \in [Parties -> Nat] /\ established' \in 0..MaxSessions
  BY <1>1, BoundsAssumption DEF OthersGood, Establish
<1>15. OthersGood'
  BY <1>1, <1>10, <1>12, <1>13, <1>14 DEF OthersGood
<1> QED
  BY <1>10, <1>11, <1>15 DEF SessionInv

\* Encrypting keeps the invariant: the message has the key of its session.
LEMMA EncryptInv ==
    ASSUME SessionInv, NEW p \in Parties, Encrypt(p)
    PROVE  SessionInv'
<1>1. RecordsGood /\ OthersGood /\ NetworkGood
  BY DEF SessionInv
<1>2. PICK b \in OpenSession(record[p]) :
        /\ CanSend(record[p][b])
        /\ network' = network \union {Message(p, record[p][b])}
        /\ Save(p, PutSession(record[p], b, Advanced(record[p][b])))
  BY DEF Encrypt
<1>3. Good(record[p])
  BY <1>1 DEF RecordsGood
<1>4. Good(PutSession(record[p], b, Advanced(record[p][b])))
  BY <1>2, <1>3, EncryptGood
<1>5. RecordsGood' /\ forgotten' \in [Parties -> SUBSET KeyPairs]
  BY <1>1, <1>2, <1>4, Stored DEF Save
<1> DEFINE s == record[p][b]
           c == s.chains[s.ephemeral]
           m == Message(p, s)
<1>6. Proper(b, s) /\ s.ephemeral \in DOMAIN s.chains
  BY <1>2, <1>3 DEF Good, OpenSession, OpenSessions, CanSend
<1>7. s \in Sessions /\ c \in Chains
  BY <1>6, ChainMapsType DEF Proper, Sessions
<1>8. c.key.x3dh.base = b /\ \A h \in s.pending : h.base = b
  BY <1>6 DEF Proper, Linked
<1>9. Cardinality(network) \in Nat /\ installation[p] \in Nat
  BY <1>1, FS_CardinalityType DEF NetworkGood, OthersGood
<1>10. m = [from |-> p, n |-> Cardinality(network), ephemeral |-> s.ephemeral,
            counter |-> c.counter, previous |-> s.previous, key |-> c.key,
            hello |-> s.pending, by |-> installation[p]]
  BY DEF Message
<1> HIDE DEF c, s, m
<1>11. c.counter \in Nat /\ c.key \in RootKeys
  BY <1>7 DEF Chains
<1>12. s.ephemeral \in KeyPairs /\ s.previous \in Nat /\ s.pending \in Pending
  BY <1>7 DEF Sessions
<1>13. m \in Messages
  BY <1>9, <1>10, <1>11, <1>12 DEF Messages
<1>14. \A h \in m.hello : h.base = m.key.x3dh.base
  BY <1>8, <1>10
<1>15. network' = network \union {m} /\ read' = read
  BY <1>2 DEF Encrypt, m, s
<1>16. IsFiniteSet(network')
  BY <1>1, <1>15, FS_AddElement DEF NetworkGood
<1>17. NetworkGood'
  BY <1>1, <1>13, <1>14, <1>15, <1>16 DEF NetworkGood
<1>18. OthersGood'
  BY <1>1, <1>5 DEF OthersGood, Encrypt
<1> QED
  BY <1>5, <1>17, <1>18 DEF SessionInv

\* The record a message is tried with can be read from, when any session opens it.
LEMMA ReadyToRead ==
    ASSUME RecordsGood, OthersGood, NetworkGood, NEW p \in Parties, NEW m \in network,
           Readable(p, m)
    PROVE  Good(Decrypted(WithSession(p, m), m, Fresh(p, 1)))
<1> DEFINE r == WithSession(p, m)
           fresh == Fresh(p, 1)
<1>1. m \in Messages /\ fresh \in KeyPairs /\ Openers(r, m, fresh) # {}
  BY KeysType DEF NetworkGood, Readable
<1>2. Good(record[p])
  BY DEF RecordsGood
<1>3. CASE m.hello = {}
  <2>1. r = record[p]
    BY <1>3 DEF WithSession
  <2>2. r \in Records /\ AtMostOneOpen(r) /\ \A k \in DOMAIN r : Usable(k, r[k], m.key.x3dh.base)
    BY <1>2, <2>1 DEF Good, Usable
  <2>3. DOMAIN r # {}
    BY <1>1 DEF Openers, Tried, OpenSession, OpenSessions, ClosedSessions
  <2>4. OpenSessions(r) # {}
    BY <1>2, <2>1, <2>3 DEF Good
  <2> HIDE DEF r, fresh
  <2>5. Good(Decrypted(r, m, fresh))
    BY <1>1, <2>2, <2>4, DecryptedGood
  <2> QED
    BY <2>5 DEF r, fresh
<1>4. CASE m.hello # {}
  <2> DEFINE h == CHOOSE g \in m.hello : TRUE
             k == Loaded(p, h)
  <2>1. h \in m.hello
    BY <1>4
  <2>2. h \in X3DHs
    BY <1>1, <2>1 DEF Messages, Pending
  <2>3. h.base = m.key.x3dh.base
    BY <2>1 DEF NetworkGood
  <2>4. k \in SUBSET PreKeyIds
    BY DEF Loaded, OthersGood
  <2>5. SignedPreKey(p) \in KeyPairs /\ Now(p) \in Nat \ {0}
    BY KeysType
  <2>6. Good(Prepared(p, m))
    BY <1>2, GoodEmpty DEF Prepared
  <2>7. r = WithIncoming(Prepared(p, m), h, SignedPreKey(p), k, Now(p))
    BY <1>4 DEF WithSession
  <2> HIDE DEF h, k, r, fresh
  <2>8. /\ r \in Records /\ AtMostOneOpen(r) /\ OpenSessions(r) # {}
        /\ \A b \in DOMAIN r : Usable(b, r[b], h.base)
    BY <2>2, <2>4, <2>5, <2>6, <2>7, WithIncomingReady
  <2>9. Good(Decrypted(r, m, fresh))
    BY <1>1, <2>3, <2>8, DecryptedGood
  <2> QED
    BY <2>9 DEF r, fresh
<1> QED
  BY ONLY <1>3, <1>4

\* Receiving keeps the invariant, whether the message is read or refused.
LEMMA ReceiveInv ==
    ASSUME SessionInv, NEW p \in Parties, NEW m \in network, Receive(p, m)
    PROVE  SessionInv'
<1>1. RecordsGood /\ OthersGood /\ NetworkGood
  BY DEF SessionInv
<1>2. /\ identity' = [identity EXCEPT ![p] = Trusted(p, m)]
      /\ UNCHANGED <<offered, installation, network, established, deletions>>
  BY DEF Receive
<1>3. Trusted(p, m) \in {{}} \union {{i} : i \in Nat}
  <2>1. m.by \in Nat
    BY <1>1 DEF NetworkGood, Messages
  <2> QED
    BY <1>1, <2>1 DEF Trusted, OthersGood
<1>4. identity' \in [Parties -> {{}} \union {{i} : i \in Nat}]
  BY <1>1, <1>2, <1>3 DEF OthersGood
<1>5. CASE Decrypt(p, m)
  <2>1. /\ Readable(p, m)
        /\ SaveFrom(p, Prepared(p, m), Decrypted(WithSession(p, m), m, Fresh(p, 1)))
        /\ preKeys' = [preKeys EXCEPT ![p] = @ \ UsedPreKeys(p, m)]
        /\ read' = read \union {m}
    BY <1>5 DEF Decrypt
  <2>2. RecordsGood' /\ forgotten' \in [Parties -> SUBSET KeyPairs]
    BY <1>1, <2>1, ReadyToRead, Stored
  <2>3. NetworkGood'
    BY <1>1, <1>2, <2>1 DEF NetworkGood
  <2>4. preKeys' \in [Parties -> SUBSET PreKeyIds]
    BY <1>1, <2>1 DEF OthersGood
  <2>5. generated' \in [Parties -> Nat]
    <3> DEFINE r == Decrypted(WithSession(p, m), m, Fresh(p, 1))
               ratcheted == \E b \in DOMAIN r : r[b].ephemeral = Fresh(p, 1)
    <3>1. generated' = [generated EXCEPT ![p] = IF ratcheted THEN @ + 1 ELSE @]
      BY <1>5 DEF Decrypt
    <3> HIDE DEF ratcheted
    <3> QED
      BY <1>1, <3>1 DEF OthersGood
  <2>6. OthersGood'
    BY <1>1, <1>2, <1>4, <2>2, <2>4, <2>5 DEF OthersGood
  <2> QED
    BY <2>2, <2>3, <2>6 DEF SessionInv
<1>6. CASE Refuse(p, m)
  <2>1. Good(Prepared(p, m))
    BY <1>1, GoodEmpty DEF Prepared, RecordsGood
  <2>2. Save(p, Prepared(p, m)) /\ UNCHANGED <<preKeys, generated, read>>
    BY <1>6 DEF Refuse
  <2>3. RecordsGood' /\ forgotten' \in [Parties -> SUBSET KeyPairs]
    BY <1>1, <2>1, <2>2, Stored DEF Save
  <2>4. NetworkGood'
    BY <1>1, <1>2, <2>2 DEF NetworkGood
  <2>5. OthersGood'
    BY <1>1, <1>2, <1>4, <2>2, <2>3 DEF OthersGood
  <2> QED
    BY <2>3, <2>4, <2>5 DEF SessionInv
<1> QED
  BY <1>5, <1>6 DEF Receive

\* Forgetting keeps the invariant.
LEMMA DeleteInv ==
    ASSUME SessionInv, NEW p \in Parties, Delete(p) \/ Reinstall(p)
    PROVE  SessionInv'
<1>1. RecordsGood /\ OthersGood /\ NetworkGood
  BY DEF SessionInv
<1>2. PICK r \in {EmptyRecord, record[p]} : Save(p, r)
  BY DEF Delete, Reinstall
<1>3. RecordsGood' /\ forgotten' \in [Parties -> SUBSET KeyPairs]
  BY <1>1, <1>2, GoodEmpty, Stored DEF Save, RecordsGood
<1>4. NetworkGood'
  BY <1>1 DEF NetworkGood, Delete, Reinstall
<1>5. deletions' \in 0..MaxDeletions
  BY <1>1, BoundsAssumption DEF OthersGood, Delete, Reinstall
<1>6. OthersGood'
  <2>1. CASE Delete(p)
    BY <1>1, <1>3, <1>5, <2>1 DEF OthersGood, Delete
  <2>2. CASE Reinstall(p)
    BY <1>1, <1>3, <1>5, <2>2 DEF OthersGood, Reinstall
  <2> QED
    BY <2>1, <2>2
<1> QED
  BY <1>3, <1>4, <1>6 DEF SessionInv

\* The inductive invariant: what is stored for a peer is well formed, every key
\* of a session was derived in it, and one session is open and can send.
THEOREM SessionsWellFormed == Spec => []SessionInv
<1>1. SessionInv /\ [Next]_vars => SessionInv'
  <2> SUFFICES ASSUME SessionInv, [Next]_vars PROVE SessionInv'
    OBVIOUS
  <2>1. CASE Next
    <3>1. PICK p \in Parties :
            \/ Establish(p) \/ Encrypt(p) \/ Delete(p) \/ Reinstall(p)
            \/ \E m \in network : Receive(p, m)
      BY <2>1 DEF Next
    <3> QED
      BY <3>1, EstablishInv, EncryptInv, ReceiveInv, DeleteInv
  <2>2. CASE UNCHANGED vars
    BY <2>2 DEF vars, SessionInv, RecordsGood, NetworkGood, OthersGood
  <2> QED
    BY <2>1, <2>2
<1> QED
  BY InitInv, <1>1, PTL DEF Spec

\* Whenever there is a record exactly one session is open, and it can send:
\* every way to begin a session closes the one before, and a session begun by
\* a pre-key message is stored only when the message is read in it, which
\* gives it a sending chain.
THEOREM OneSessionOpen == Spec => []OneOpen
<1>1. SessionInv => OneOpen
  <2> SUFFICES ASSUME SessionInv, NEW p \in Parties, DOMAIN record[p] # {}
               PROVE  \E b \in DOMAIN record[p] :
                        OpenSessions(record[p]) = {b} /\ CanSend(record[p][b])
    BY DEF OneOpen
  <2>1. Good(record[p])
    BY DEF SessionInv, RecordsGood
  <2>2. PICK b \in OpenSessions(record[p]) : TRUE
    BY <2>1 DEF Good
  <2>3. b \in DOMAIN record[p] /\ OpenSessions(record[p]) = {b}
    BY <2>1, <2>2 DEF Good, AtMostOneOpen, OpenSessions
  <2> QED
    BY <2>1, <2>3 DEF Good
<1> QED
  BY <1>1, SessionsWellFormed, PTL

\* Every reachable state is well typed.
THEOREM TypeCorrect == Spec => []TypeOK
<1>1. SessionInv => TypeOK
  <2> SUFFICES ASSUME SessionInv PROVE TypeOK
    OBVIOUS
  <2>1. RecordsGood /\ OthersGood /\ NetworkGood
    BY DEF SessionInv
  <2>2. ASSUME NEW p \in Parties, NEW b \in DOMAIN record[p]
        PROVE  b \in KeyPairs /\ SessionTypeOK(record[p][b])
    <3> DEFINE s == record[p][b]
    <3>1. b \in KeyPairs /\ s \in Sessions
      BY <2>1, RecordsType DEF RecordsGood
    <3> HIDE DEF s
    <3>2. DOMAIN s.chains \subseteq KeyPairs /\ \A e \in DOMAIN s.chains : s.chains[e] \in Chains
      BY <3>1, ChainMapsType DEF Sessions
    <3>3. \A e \in DOMAIN s.chains : e \in KeyPairs /\ ChainTypeOK(s.chains[e])
      BY <3>2 DEF ChainTypeOK, Chains
    <3>4. Cardinality(s.pending) <= 1
      <4>1. s.pending = {} \/ \E h \in X3DHs : s.pending = {h}
        BY <3>1 DEF Sessions, Pending
      <4>2. Cardinality({}) = 0 /\ \A h \in X3DHs : Cardinality({h}) = 1
        BY FS_EmptySet, FS_Singleton
      <4> QED
        BY ONLY <4>1, <4>2
    <3>5. SessionTypeOK(s)
      BY <3>1, <3>3, <3>4 DEF SessionTypeOK, Sessions
    <3> QED
      BY <3>1, <3>5 DEF s
  <2>3. ASSUME NEW p \in Parties
        PROVE  Cardinality(identity[p]) <= 1 /\ identity[p] \subseteq Nat
    <3>1. identity[p] = {} \/ \E i \in Nat : identity[p] = {i}
      BY <2>1 DEF OthersGood
    <3>2. CASE identity[p] = {}
      BY <3>2, FS_EmptySet
    <3>3. CASE \E i \in Nat : identity[p] = {i}
      BY <3>3, FS_Singleton, SMTT(30)
    <3> QED
      BY <3>1, <3>2, <3>3
  <2>4. \A p \in Parties : forgotten[p] \subseteq KeyPairs
    BY <2>1 DEF OthersGood
  <2> QED
    BY <2>1, <2>2, <2>3, <2>4 DEF TypeOK, OthersGood, NetworkGood
<1> QED
  BY <1>1, SessionsWellFormed, PTL
-----------------------------------------------------------------------------
(* No key encrypts twice.  A sending chain begins with a key pair of its own, *)
(* so messages with one ephemeral key are told apart by their counters; and   *)
(* the last secret mixed into its key is that key pair's with one of the      *)
(* peer's, so one chain key has one ephemeral key, unless both parties sent   *)
(* under it, which the number of secrets mixed in rules out.                  *)

\* e is one of the first n key pairs p has generated.
OwnEphemeral(p, e, n) == \E k \in 1..n : e = <<p, "ephemeral", k>>

\* The initiator sends under keys with an odd number of secrets mixed in, the
\* responder under keys with an even number.
InTurn(p, key) ==
    \E n \in 0..Len(key.mixed) :
        Len(key.mixed) = IF key.x3dh.base[1] = p THEN 2 * n + 1 ELSE 2 * n

\* The last secret is the one of e and a key pair of the peer's.
EndsWith(p, e, key) ==
    /\ Len(key.mixed) > 0
    /\ \E theirs \in KeyPairs :
          theirs[1] # p /\ key.mixed[Len(key.mixed)] = {e, theirs}

SendingKey(p, e, key) == EndsWith(p, e, key) /\ InTurn(p, key)

\* The sending chain is ahead of every message sent with its ephemeral key.
Ahead(s, sent) ==
    \A m \in sent : m.ephemeral = s.ephemeral => m.counter < s.chains[s.ephemeral].counter

\* p, having generated n key pairs, sends under keys of its own in session s.
Sends(p, s, n, sent) ==
    /\ OwnEphemeral(p, s.ephemeral, n)
    /\ s.chains[s.ephemeral].key = s.root
    /\ SendingKey(p, s.ephemeral, s.root)
    /\ s.pending # {} => s.root.x3dh.base[1] = p
    /\ Ahead(s, sent)

OwnSessions(p, r, n, sent) ==
    /\ \A b \in DOMAIN r : Sends(p, r[b], n, sent)
    /\ \A b, c \in DOMAIN r : r[b].ephemeral = r[c].ephemeral => b = c

\* What is true of a message when its sender has generated n key pairs.
SentBy(m, n) ==
    /\ OwnEphemeral(m.from, m.ephemeral, n)
    /\ SendingKey(m.from, m.ephemeral, m.key)
    /\ m.hello # {} => m.key.x3dh.base[1] = m.from

Numbered(sent) ==
    \A m, l \in sent : m.ephemeral = l.ephemeral /\ m.counter = l.counter => m = l

KeysInv ==
    /\ \A p \in Parties : OwnSessions(p, record[p], generated[p], network)
    /\ \A m \in network : SentBy(m, generated[m.from])
    /\ Numbered(network)

\* Under one key one party sends, with one ephemeral key.
LEMMA OneSender ==
    ASSUME NEW p \in Parties, NEW q \in Parties, NEW e, NEW f, NEW key \in RootKeys,
           e[1] = p, f[1] = q, key.x3dh.base[1] \in Parties,
           SendingKey(p, e, key), SendingKey(q, f, key)
    PROVE  e = f
<1>1. PICK x \in KeyPairs : x[1] # p /\ key.mixed[Len(key.mixed)] = {e, x}
  BY DEF SendingKey, EndsWith
<1>2. PICK y \in KeyPairs : y[1] # q /\ key.mixed[Len(key.mixed)] = {f, y}
  BY DEF SendingKey, EndsWith
<1>3. {e, x} = {f, y}
  BY <1>1, <1>2
<1>4. CASE p = q
  BY <1>1, <1>2, <1>3, <1>4
<1>5. CASE p # q
  <2> DEFINE l == Len(key.mixed)
  <2>1. l \in Nat
    BY DEF RootKeys
  <2>2. PICK n \in 0..l : l = IF key.x3dh.base[1] = p THEN 2 * n + 1 ELSE 2 * n
    BY DEF SendingKey, InTurn
  <2>3. PICK k \in 0..l : l = IF key.x3dh.base[1] = q THEN 2 * k + 1 ELSE 2 * k
    BY DEF SendingKey, InTurn
  <2>4. key.x3dh.base[1] \in {p, q}
    BY <1>5, PartiesAssumption
  <2> HIDE DEF l
  <2> QED
    BY <1>5, <2>1, <2>2, <2>3, <2>4
<1> QED
  BY <1>4, <1>5

\* Key pairs are told apart by who generated them, and numbered.
LEMMA OwnEphemeralFacts ==
    ASSUME NEW p \in Parties, NEW n \in Nat
    PROVE  /\ \A e : OwnEphemeral(p, e, n) => e[1] = p /\ e \in KeyPairs
           /\ \A e : \A k \in Nat : OwnEphemeral(p, e, n) /\ n <= k => OwnEphemeral(p, e, k)
           /\ OwnEphemeral(p, <<p, "ephemeral", n + 1>>, n + 1)
           /\ OwnEphemeral(p, <<p, "ephemeral", n + 2>>, n + 2)
           /\ \A k \in Nat : k > n => ~OwnEphemeral(p, <<p, "ephemeral", k>>, n)
<1>1. \A e : OwnEphemeral(p, e, n) => e[1] = p /\ e \in KeyPairs
  BY DEF OwnEphemeral, KeyPairs
<1>2. \A e : \A k \in Nat : OwnEphemeral(p, e, n) /\ n <= k => OwnEphemeral(p, e, k)
  BY DEF OwnEphemeral
<1>3. /\ OwnEphemeral(p, <<p, "ephemeral", n + 1>>, n + 1)
      /\ OwnEphemeral(p, <<p, "ephemeral", n + 2>>, n + 2)
  BY DEF OwnEphemeral
<1>4. \A k \in Nat : k > n => ~OwnEphemeral(p, <<p, "ephemeral", k>>, n)
  BY DEF OwnEphemeral
<1> QED
  BY <1>1, <1>2, <1>3, <1>4

\* Where a session differs only in its "closed" field it sends as it did.
LEMMA SendsAsBefore ==
    ASSUME NEW p \in Parties, NEW n \in Nat, NEW k \in Nat, n <= k, NEW sent, NEW s, NEW t,
           Sends(p, s, n, sent),
           t.ephemeral = s.ephemeral, t.root = s.root,
           t.chains[s.ephemeral] = s.chains[s.ephemeral],
           t.pending = s.pending \/ t.pending = {}
    PROVE  Sends(p, t, k, sent)
<1>1. OwnEphemeral(p, t.ephemeral, k)
  BY DEF Sends, OwnEphemeral
<1>2. Ahead(t, sent)
  BY DEF Sends, Ahead
<1> QED
  BY <1>1, <1>2 DEF Sends

\* Closing and trimming leave every session its own keys.
LEMMA ClosingSends ==
    ASSUME NEW p \in Parties, NEW n \in Nat, NEW sent, NEW r, Good(r),
           OwnSessions(p, r, n, sent), NEW now \in Nat \ {0}
    PROVE  OwnSessions(p, CloseOpenSession(r, now), n, sent)
<1> DEFINE q == CloseOpenSession(r, now)
<1>1. /\ DOMAIN q \subseteq DOMAIN r
      /\ \A b \in DOMAIN q : q[b] = r[b] \/ q[b] = [r[b] EXCEPT !.closed = now]
  BY Closing DEF Good
<1> HIDE DEF q
<1>2. ASSUME NEW b \in DOMAIN q
      PROVE  Sends(p, q[b], n, sent) /\ q[b].ephemeral = r[b].ephemeral
  <2>1. r[b] \in Sessions /\ Sends(p, r[b], n, sent)
    BY <1>1 DEF Good, OwnSessions, Proper
  <2> DEFINE t == [r[b] EXCEPT !.closed = now]
  <2>2. /\ t.ephemeral = r[b].ephemeral /\ t.root = r[b].root
        /\ t.chains = r[b].chains /\ t.pending = r[b].pending
    BY <2>1 DEF Sessions
  <2> HIDE DEF t
  <2>3. Sends(p, t, n, sent)
    BY <2>1, <2>2, SendsAsBefore
  <2> QED
    BY <1>1, <2>1, <2>2, <2>3 DEF t
<1>3. \A b, c \in DOMAIN q : q[b].ephemeral = q[c].ephemeral => b = c
  BY <1>1, <1>2 DEF OwnSessions
<1>4. OwnSessions(p, q, n, sent)
  BY <1>2, <1>3 DEF OwnSessions
<1> QED
  BY <1>4 DEF q

\* Mixing puts a secret last.
LEMMA MixedLast ==
    ASSUME NEW k \in RootKeys, NEW x \in SUBSET KeyPairs
    PROVE  /\ Len(Mixed(k, x).mixed) = Len(k.mixed) + 1
           /\ Mixed(k, x).mixed[Len(k.mixed) + 1] = x
BY DEF Mixed, RootKeys

\* p has sent with the first n of its key pairs only.
OwnSent(p, n, sent) ==
    \A m \in sent : m.ephemeral[1] = p => OwnEphemeral(p, m.ephemeral, n)

\* No message has been sent with a key pair not yet generated.
LEMMA NothingSentYet ==
    ASSUME NEW p \in Parties, NEW n \in Nat, NEW sent,
           OwnSent(p, n, sent)
    PROVE  \A k \in Nat : k > n => \A m \in sent : m.ephemeral # <<p, "ephemeral", k>>
<1> SUFFICES ASSUME NEW k \in Nat, k > n, NEW m \in sent, m.ephemeral = <<p, "ephemeral", k>>
             PROVE  FALSE
  OBVIOUS
<1>1. m.ephemeral[1] = p
  OBVIOUS
<1>2. OwnEphemeral(p, <<p, "ephemeral", k>>, n)
  BY <1>1 DEF OwnSent
<1>3. ~OwnEphemeral(p, <<p, "ephemeral", k>>, n)
  BY OwnEphemeralFacts
<1> QED
  BY <1>2, <1>3

\* The session an initiator begins sends under its own keys.
LEMMA OutgoingSends ==
    ASSUME NEW p \in Parties, NEW n \in Nat, NEW sent,
           OwnSent(p, n, sent),
           NEW spk \in KeyPairs, spk[1] # p, NEW k \in SUBSET PreKeyIds
    PROVE  LET base == <<p, "ephemeral", n + 1>>
               fresh == <<p, "ephemeral", n + 2>>
               s == Outgoing(base, spk, k, fresh)
           IN  Sends(p, s, n + 2, sent) /\ s.ephemeral = fresh
<1> DEFINE base == <<p, "ephemeral", n + 1>>
           fresh == <<p, "ephemeral", n + 2>>
           x == X3DH(base, spk, k)
           key == Mixed(RootKey(x), Agreed(fresh, spk))
           chains == [e \in {fresh} |-> NewChain("sending", key)]
           s == Outgoing(base, spk, k, fresh)
<1>1. base \in KeyPairs /\ fresh \in KeyPairs /\ base[1] = p /\ fresh[1] = p
  BY DEF KeyPairs
<1>2. s = [root |-> key, ephemeral |-> fresh, remote |-> spk, previous |-> 0,
           closed |-> 0, chains |-> chains, pending |-> {x}]
  BY DEF Outgoing
<1>3. chains[fresh] = NewChain("sending", key)
  OBVIOUS
<1>4. RootKey(x) \in RootKeys /\ RootKey(x).x3dh.base = base /\ Len(RootKey(x).mixed) = 0
  BY <1>1 DEF RootKey, RootKeys, X3DH, X3DHs
<1>5. \A m \in sent : m.ephemeral # fresh
  BY NothingSentYet
<1>6. OwnEphemeral(p, fresh, n + 2)
  BY OwnEphemeralFacts
<1> HIDE DEF base, x, chains, s
<1>7. Agreed(fresh, spk) = {fresh, spk} /\ Agreed(fresh, spk) \in SUBSET KeyPairs
  BY <1>1 DEF Agreed
<1> HIDE DEF fresh
<1>8. /\ Len(key.mixed) = 1 /\ key.mixed[1] = {fresh, spk} /\ key.x3dh.base = base
  <2> DEFINE root == RootKey(x)
             secret == Agreed(fresh, spk)
  <2>1. root \in RootKeys /\ root.x3dh.base = base /\ Len(root.mixed) = 0 /\ key = Mixed(root, secret)
    BY <1>4
  <2>2. secret = {fresh, spk} /\ secret \in SUBSET KeyPairs
    BY <1>7
  <2> HIDE DEF root, secret, key
  <2>3. /\ Len(key.mixed) = Len(root.mixed) + 1
        /\ key.mixed[Len(root.mixed) + 1] = secret
        /\ key.x3dh = root.x3dh
    BY <2>1, <2>2, MixedLast, MixedType
  <2>4. Len(root.mixed) + 1 = 1
    BY <2>1
  <2>5. Len(key.mixed) = 1 /\ key.mixed[1] = secret
    BY <2>3, <2>4
  <2>6. key.x3dh.base = base
    BY <2>1, <2>3
  <2> QED
    BY <2>2, <2>5, <2>6
<1> HIDE DEF key
<1>9. EndsWith(p, fresh, key)
  BY <1>8 DEF EndsWith
<1>10. InTurn(p, key)
  BY <1>1, <1>8 DEF InTurn
<1>11. NewChain("sending", key).key = key
  BY DEF NewChain
<1>12. Ahead(s, sent)
  BY <1>2, <1>5 DEF Ahead
<1>13. Sends(p, s, n + 2, sent)
  BY <1>1, <1>2, <1>3, <1>6, <1>8, <1>9, <1>10, <1>11, <1>12 DEF Sends, SendingKey
<1> QED
  BY <1>2, <1>13 DEF s, base, fresh

\* When p takes a ratchet step in s it will send in its turn.
Turning(p, s) == InTurn(p, s.root) /\ (s.pending # {} => s.root.x3dh.base[1] = p)

\* A ratchet step for a message of the peer's begins a sending chain of our own.
LEMMA RatchetedSends ==
    ASSUME NEW p \in Parties, NEW n \in Nat, NEW sent,
           OwnSent(p, n, sent),
           NEW s \in Sessions, Turning(p, s),
           NEW theirs \in KeyPairs, theirs[1] # p, NEW previous \in Nat
    PROVE  LET fresh == <<p, "ephemeral", n + 1>>
               t == Ratcheted(s, theirs, previous, fresh)
           IN  Sends(p, t, n + 1, sent) /\ t.ephemeral = fresh
<1> DEFINE fresh == <<p, "ephemeral", n + 1>>
           t == Ratcheted(s, theirs, previous, fresh)
           receiving == Mixed(s.root, Agreed(s.ephemeral, theirs))
           sending == Mixed(receiving, Agreed(fresh, theirs))
           kept == KeptChains(s, previous)
           chains == [e \in DOMAIN kept \union {theirs, fresh} |->
                        IF e = fresh THEN NewChain("sending", sending)
                        ELSE IF e = theirs THEN NewChain("receiving", receiving)
                        ELSE kept[e]]
<1>1. fresh \in KeyPairs /\ fresh[1] = p
  BY DEF KeyPairs
<1>2. s.root \in RootKeys /\ s.ephemeral \in KeyPairs
  BY DEF Sessions
<1>3. \A m \in sent : m.ephemeral # fresh
  BY NothingSentYet
<1>4. OwnEphemeral(p, fresh, n + 1)
  BY OwnEphemeralFacts
<1>5. t = [s EXCEPT !.root = sending, !.ephemeral = fresh, !.remote = theirs,
                    !.previous = PreviousCounter(s), !.chains = chains]
  BY DEF Ratcheted
<1>6. chains[fresh] = NewChain("sending", sending)
  OBVIOUS
<1> HIDE DEF t, chains, fresh
<1>7. t.root = sending /\ t.ephemeral = fresh /\ t.chains = chains /\ t.pending = s.pending
  BY <1>5 DEF Sessions
<1>8. receiving \in RootKeys /\ receiving.x3dh = s.root.x3dh /\ Len(receiving.mixed) = Len(s.root.mixed) + 1
  BY <1>2, MixedType, MixedLast DEF Agreed
<1> HIDE DEF receiving
<1>9. Agreed(fresh, theirs) = {fresh, theirs} /\ Agreed(fresh, theirs) \in SUBSET KeyPairs
  BY <1>1 DEF Agreed
<1>10. /\ sending.x3dh = s.root.x3dh
       /\ Len(sending.mixed) = Len(s.root.mixed) + 2
       /\ sending.mixed[Len(s.root.mixed) + 2] = {fresh, theirs}
  <2>1. Len(s.root.mixed) \in Nat
    BY <1>2 DEF RootKeys
  <2>2. /\ sending.x3dh = receiving.x3dh
        /\ Len(sending.mixed) = Len(receiving.mixed) + 1
        /\ sending.mixed[Len(receiving.mixed) + 1] = {fresh, theirs}
    BY <1>8, <1>9, MixedType, MixedLast
  <2>3. Len(receiving.mixed) + 1 = Len(s.root.mixed) + 2
    BY <1>8, <2>1
  <2> QED
    BY <1>8, <2>2, <2>3
<1> HIDE DEF sending
<1> DEFINE l == Len(s.root.mixed)
<1>11. l \in Nat
  BY <1>2 DEF RootKeys
<1>12. PICK j \in 0..l : l = IF s.root.x3dh.base[1] = p THEN 2 * j + 1 ELSE 2 * j
  BY DEF InTurn, Turning
<1> HIDE DEF l
<1>13. /\ j + 1 \in 0..(l + 2)
       /\ l + 2 = IF s.root.x3dh.base[1] = p THEN 2 * (j + 1) + 1 ELSE 2 * (j + 1)
  BY <1>11, <1>12
<1>14. InTurn(p, sending)
  BY <1>10, <1>13 DEF InTurn, l
<1>15. EndsWith(p, fresh, sending)
  BY <1>10, <1>11 DEF EndsWith, l
<1>16. NewChain("sending", sending).key = sending
  BY DEF NewChain
<1>17. Ahead(t, sent)
  BY <1>3, <1>7 DEF Ahead
<1>18. Sends(p, t, n + 1, sent)
  BY <1>4, <1>6, <1>7, <1>10, <1>14, <1>15, <1>16, <1>17 DEF Sends, SendingKey, Turning
<1> QED
  BY <1>7, <1>18 DEF t, fresh

\* Reading a message of the peer's leaves us sending under keys of our own: the
\* ones we had, or the ones of the ratchet step it made us take.
LEMMA ReceivedSends ==
    ASSUME NEW p \in Parties, NEW n \in Nat, NEW sent,
           OwnSent(p, n, sent),
           NEW b \in KeyPairs, NEW s, Proper(b, s), NEW m \in Messages, m.ephemeral[1] # p,
           \/ CanSend(s) /\ Sends(p, s, n, sent)
           \/ DOMAIN s.chains = {} /\ s.pending = {} /\ InTurn(p, s.root)
    PROVE  LET fresh == <<p, "ephemeral", n + 1>>
               t == Received(s, m, fresh)
           IN  /\ Sends(p, t, n + 1, sent)
               /\ t.ephemeral = fresh \/ (CanSend(s) /\ t.ephemeral = s.ephemeral)
<1> DEFINE fresh == <<p, "ephemeral", n + 1>>
           f == ForMessage(s, m, fresh)
           chains == [f.chains EXCEPT ![m.ephemeral] = Taken(@, m.counter)]
           t == Received(s, m, fresh)
<1>1. fresh \in KeyPairs /\ m.ephemeral \in KeyPairs /\ m.previous \in Nat /\ s \in Sessions
  BY DEF KeyPairs, Messages, Proper
<1>2. Proper(b, f) /\ m.ephemeral \in DOMAIN f.chains
  BY <1>1, ForMessageProper
<1>3. t = [f EXCEPT !.chains = chains, !.pending = {}]
  BY DEF Received
<1>4. f \in Sessions
  BY <1>2 DEF Proper
<1>5. /\ Sends(p, f, n + 1, sent)
      /\ f.ephemeral = fresh \/ (CanSend(s) /\ f.ephemeral = s.ephemeral)
  <2>1. CASE m.ephemeral \in DOMAIN s.chains
    <3>1. f = s
      BY <2>1 DEF ForMessage
    <3> HIDE DEF f
    <3>2. CanSend(s) /\ Sends(p, s, n, sent)
      BY <2>1
    <3>3. n + 1 \in Nat /\ n <= n + 1
      OBVIOUS
    <3>4. Sends(p, s, n + 1, sent)
      BY ONLY <3>2, <3>3, n \in Nat, p \in Parties, SendsAsBefore
    <3> QED
      BY <3>1, <3>2, <3>4
  <2>2. CASE m.ephemeral \notin DOMAIN s.chains
    <3>1. f = Ratcheted(s, m.ephemeral, m.previous, fresh)
      BY <2>2 DEF ForMessage
    <3>2. Turning(p, s)
      BY DEF Sends, SendingKey, Turning
    <3>3. /\ Sends(p, Ratcheted(s, m.ephemeral, m.previous, fresh), n + 1, sent)
          /\ Ratcheted(s, m.ephemeral, m.previous, fresh).ephemeral = fresh
      BY <1>1, <3>2, RatchetedSends
    <3> HIDE DEF f, fresh
    <3> QED
      BY <3>1, <3>3
  <2> QED
    BY <2>1, <2>2
<1> HIDE DEF f
<1>6. f.ephemeral # m.ephemeral
  <2>1. OwnEphemeral(p, f.ephemeral, n + 1)
    BY <1>5 DEF Sends
  <2>2. f.ephemeral[1] = p
    BY <2>1 DEF OwnEphemeral
  <2> QED
    BY <2>2
<1>7. t.ephemeral = f.ephemeral /\ t.root = f.root /\ t.chains = chains /\ t.pending = {}
  BY <1>3, <1>4 DEF Sessions
<1>8. chains[f.ephemeral] = f.chains[f.ephemeral]
  <2>1. DOMAIN chains = DOMAIN f.chains
    OBVIOUS
  <2> QED
    BY <1>4, <1>6, ChainMapsType DEF Sessions, ChainMaps
<1> HIDE DEF chains, t
<1>9. Sends(p, t, n + 1, sent)
  BY <1>5, <1>7, <1>8, SendsAsBefore
<1> QED
  BY <1>5, <1>7, <1>9 DEF t, fresh

\* Every session sends under its own keys, or is one of the peer's that has no
\* chain yet.
Sendable(p, s, n, sent) ==
    \/ CanSend(s) /\ Sends(p, s, n, sent)
    \/ DOMAIN s.chains = {} /\ s.pending = {} /\ InTurn(p, s.root)

\* No two sessions that can send have one ephemeral key.
Apart(r) ==
    \A b, c \in DOMAIN r :
        CanSend(r[b]) /\ CanSend(r[c]) /\ r[b].ephemeral = r[c].ephemeral => b = c

\* What one reads with begins as what one has: if need be with a session of the peer's.
LEMMA WithIncomingSends ==
    ASSUME NEW p \in Parties, NEW n \in Nat, NEW sent, NEW r, Good(r),
           OwnSessions(p, r, n, sent), NEW h \in X3DHs, h.base[1] # p, NEW spk \in KeyPairs,
           NEW k \in SUBSET PreKeyIds, NEW now \in Nat \ {0}
    PROVE  LET q == WithIncoming(r, h, spk, k, now)
           IN  Apart(q) /\ \A b \in DOMAIN q : Sendable(p, q[b], n, sent)
<1> DEFINE q == WithIncoming(r, h, spk, k, now)
<1>1. CASE h.base \in DOMAIN r
  <2>1. q = r
    BY <1>1 DEF WithIncoming
  <2> HIDE DEF q
  <2>2. Apart(q) /\ \A b \in DOMAIN q : Sendable(p, q[b], n, sent)
    BY <2>1 DEF Apart, Sendable, OwnSessions, Good
  <2> QED
    BY <2>2 DEF q
<1>2. CASE h.base \notin DOMAIN r
  <2> DEFINE s == Incoming(h.base, spk, k)
             c == CloseOpenSession(r, now)
  <2>1. h.base \in KeyPairs
    BY DEF X3DHs
  <2>2. Proper(h.base, s) /\ DOMAIN s.chains = {}
    BY <2>1, IncomingProper
  <2>3. s.pending = {} /\ Len(s.root.mixed) = 0 /\ s.root.x3dh.base[1] # p
    BY DEF Incoming, RootKey, X3DH
  <2>4. ~CanSend(s)
    BY <2>2 DEF CanSend
  <2>5. InTurn(p, s.root)
    <3> HIDE DEF s
    <3> QED
      BY <2>3 DEF InTurn
  <2>6. q = PutSession(c, h.base, s)
    BY <1>2 DEF WithIncoming
  <2>7. OwnSessions(p, c, n, sent)
    BY ClosingSends
  <2>8. c \in Records /\ \A b \in DOMAIN c : CanSend(c[b])
    BY ClosingGood
  <2> HIDE DEF s, c, q
  <2>9. /\ DOMAIN q = DOMAIN c \union {h.base} /\ q[h.base] = s
        /\ \A b \in DOMAIN c \ {h.base} : q[b] = c[b]
    BY ONLY <2>6 DEF PutSession
  <2>10. Apart(q)
    BY <2>4, <2>7, <2>9 DEF Apart, OwnSessions
  <2>11. \A b \in DOMAIN q : Sendable(p, q[b], n, sent)
    BY <2>2, <2>3, <2>5, <2>7, <2>8, <2>9 DEF Sendable, OwnSessions
  <2> QED
    BY <2>10, <2>11 DEF q
<1> QED
  BY ONLY <1>1, <1>2

\* Reading a message keeps every session's keys its own.
LEMMA DecryptedSends ==
    ASSUME NEW p \in Parties, NEW n \in Nat, NEW sent,
           OwnSent(p, n, sent),
           NEW r \in Records, NEW m \in Messages, m.ephemeral[1] # p,
           \A k \in DOMAIN r : Usable(k, r[k], m.key.x3dh.base),
           \A k \in DOMAIN r : Sendable(p, r[k], n, sent), Apart(r),
           Openers(r, m, <<p, "ephemeral", n + 1>>) # {}
    PROVE  LET q == Decrypted(r, m, <<p, "ephemeral", n + 1>>)
               ratcheted == \E b \in DOMAIN q : q[b].ephemeral = <<p, "ephemeral", n + 1>>
           IN  OwnSessions(p, q, IF ratcheted THEN n + 1 ELSE n, sent)
<1> DEFINE fresh == <<p, "ephemeral", n + 1>>
           b == CHOOSE b \in Openers(r, m, fresh) : TRUE
           q == Decrypted(r, m, fresh)
           s == Received(r[b], m, fresh)
<1>1. b \in Openers(r, m, fresh) /\ fresh \in KeyPairs
  BY DEF KeyPairs
<1>2. q = PutSession(r, b, s)
  BY DEF Decrypted
<1> HIDE DEF b
<1>3. b \in DOMAIN r /\ m.key.x3dh.base = b
  BY <1>1, OpenersOwn DEF Usable
<1>4. b \in KeyPairs /\ Proper(b, r[b]) /\ (CanSend(r[b]) \/ DOMAIN r[b].chains = {})
  BY <1>3, RecordsType DEF Usable
<1>5. \A k \in DOMAIN r \ {b} : CanSend(r[k]) /\ Sends(p, r[k], n, sent)
  BY <1>3 DEF Usable, Sendable, CanSend
<1>6. /\ Sends(p, s, n + 1, sent)
      /\ s.ephemeral = fresh \/ (CanSend(r[b]) /\ s.ephemeral = r[b].ephemeral)
  <2>1. Sendable(p, r[b], n, sent)
    BY <1>3
  <2> HIDE DEF fresh, s
  <2>2. /\ Sends(p, Received(r[b], m, <<p, "ephemeral", n + 1>>), n + 1, sent)
        /\ \/ Received(r[b], m, <<p, "ephemeral", n + 1>>).ephemeral = <<p, "ephemeral", n + 1>>
           \/ CanSend(r[b]) /\ Received(r[b], m, <<p, "ephemeral", n + 1>>).ephemeral = r[b].ephemeral
    BY <1>4, <2>1, ReceivedSends DEF Sendable
  <2> QED
    BY <2>2 DEF fresh, s
<1>7. Proper(b, s)
  BY <1>1, <1>4, ReceivedProper
<1> HIDE DEF s, q
<1>8. /\ DOMAIN q = DOMAIN r /\ q[b] = s
      /\ \A k \in DOMAIN r \ {b} : q[k] = r[k]
  <2>1. s \in Sessions
    BY <1>7 DEF Proper
  <2> QED
    BY <1>2, <1>3, <2>1, PutBack
<1>9. \A k \in DOMAIN q : Sends(p, q[k], n + 1, sent)
  <2>1. n + 1 \in Nat /\ n <= n + 1
    OBVIOUS
  <2>2. \A k \in DOMAIN r \ {b} : Sends(p, r[k], n + 1, sent)
    BY <1>5, <2>1, SendsAsBefore
  <2> QED
    BY <1>6, <1>8, <2>2
<1>10. \A k \in DOMAIN r \ {b} : OwnEphemeral(p, r[k].ephemeral, n)
  BY <1>5 DEF Sends
<1>11. \A k \in DOMAIN r \ {b} : r[k].ephemeral # fresh
  BY <1>10 DEF OwnEphemeral
<1>12. \A k \in DOMAIN r \ {b} : q[k].ephemeral # q[b].ephemeral
  BY <1>3, <1>5, <1>6, <1>8, <1>11 DEF Apart
<1>13. \A j, k \in DOMAIN q : q[j].ephemeral = q[k].ephemeral => j = k
  BY <1>5, <1>8, <1>12 DEF Apart
<1>14. CASE \E k \in DOMAIN q : q[k].ephemeral = fresh
  BY <1>9, <1>13, <1>14 DEF OwnSessions, q
<1>15. CASE ~\E k \in DOMAIN q : q[k].ephemeral = fresh
  <2>1. ASSUME NEW k \in DOMAIN q PROVE Sends(p, q[k], n, sent)
    <3>1. Sends(p, q[k], n + 1, sent) /\ q[k].ephemeral # fresh
      BY <1>9, <1>15
    <3>2. OwnEphemeral(p, q[k].ephemeral, n)
      BY <3>1 DEF Sends, OwnEphemeral
    <3> QED
      BY <3>1, <3>2 DEF Sends
  <2> QED
    BY <1>13, <1>15, <2>1 DEF OwnSessions, q
<1> QED
  BY <1>14, <1>15

\* Encrypting takes the next number of the open session's chain.
LEMMA EncryptSends ==
    ASSUME NEW p \in Parties, NEW n \in Nat, NEW sent, NEW r, Good(r),
           OwnSessions(p, r, n, sent), sent \subseteq Messages, NEW b \in DOMAIN r, NEW m,
           m.ephemeral = r[b].ephemeral, m.counter = r[b].chains[r[b].ephemeral].counter
    PROVE  OwnSessions(p, PutSession(r, b, Advanced(r[b])), n, sent \union {m})
<1> DEFINE s == r[b]
           t == Advanced(s)
           q == PutSession(r, b, t)
           c == s.chains[s.ephemeral]
           chains == [s.chains EXCEPT ![s.ephemeral].counter = @ + 1]
<1>1. b \in KeyPairs /\ r \in Records /\ Proper(b, s) /\ CanSend(s) /\ Sends(p, s, n, sent)
  BY RecordsType DEF Good, OwnSessions
<1>2. Proper(b, t)
  BY <1>1, AdvancedProper
<1>3. t = [s EXCEPT !.chains = chains]
  BY DEF Advanced
<1>4. s \in Sessions /\ s.ephemeral \in DOMAIN s.chains
  BY <1>1 DEF Proper, CanSend
<1>5. c \in Chains
  BY <1>4, ChainMapsType DEF Sessions
<1>6. chains[s.ephemeral] = [c EXCEPT !.counter = @ + 1]
  BY <1>4, ChainMapsType DEF Sessions, ChainMaps
<1> HIDE DEF chains, t
<1>7. t.ephemeral = s.ephemeral /\ t.root = s.root /\ t.chains = chains /\ t.pending = s.pending
  BY <1>3, <1>4 DEF Sessions
<1>8. /\ t.chains[t.ephemeral].key = c.key
      /\ t.chains[t.ephemeral].counter = c.counter + 1 /\ c.counter \in Nat
  BY <1>5, <1>6, <1>7 DEF Chains
<1>9. \A l \in sent : l.ephemeral = s.ephemeral => l.counter < c.counter
  BY <1>1 DEF Sends, Ahead
<1> HIDE DEF q
<1>10. /\ DOMAIN q = DOMAIN r /\ q[b] = t
       /\ \A k \in DOMAIN r \ {b} : q[k] = r[k]
  <2>1. t \in Sessions
    BY <1>2 DEF Proper
  <2> QED
    BY <1>1, <2>1, PutBack DEF q
<1>11. Sends(p, t, n, sent \union {m})
  <2>0. m.ephemeral = s.ephemeral /\ m.counter = c.counter
    OBVIOUS
  <2> HIDE DEF c, s
  <2>1. Ahead(t, {m})
    BY <1>7, <1>8, <2>0 DEF Ahead
  <2>2. ASSUME NEW l \in sent, l.ephemeral = s.ephemeral PROVE l.counter < c.counter + 1
    <3>1. l.counter < c.counter /\ l.counter \in Nat
      BY <1>9, <2>2 DEF Messages
    <3> QED
      BY <1>8, <3>1
  <2>3. Ahead(t, sent \union {m})
    BY <1>7, <1>8, <2>1, <2>2 DEF Ahead
  <2> QED
    BY <1>1, <1>7, <1>8, <2>3 DEF Sends, c
<1>12. ASSUME NEW k \in DOMAIN r \ {b} PROVE Sends(p, q[k], n, sent \union {m})
  <2>1. r[k].ephemeral # m.ephemeral /\ Sends(p, r[k], n, sent)
    BY DEF OwnSessions
  <2>2. Ahead(r[k], sent \union {m})
    BY <2>1 DEF Sends, Ahead
  <2> QED
    BY <1>10, <2>1, <2>2 DEF Sends
<1>13. \A j, k \in DOMAIN q : q[j].ephemeral = q[k].ephemeral => j = k
  BY <1>7, <1>10 DEF OwnSessions
<1> QED
  BY <1>10, <1>11, <1>12, <1>13 DEF OwnSessions, q, t

\* What was true of a message when its sender had generated n key pairs stays so.
LEMMA SentByLater ==
    ASSUME NEW m \in Messages, NEW n \in Nat, NEW k \in Nat, n <= k, SentBy(m, n)
    PROVE  SentBy(m, k)
<1>1. OwnEphemeral(m.from, m.ephemeral, k)
  BY DEF SentBy, OwnEphemeral
<1> QED
  BY <1>1 DEF SentBy

\* A party has sent with its own key pairs, those generated so far.
LEMMA AllOwn ==
    ASSUME SessionInv, KeysInv, NEW p \in Parties
    PROVE  /\ generated[p] \in Nat
           /\ OwnSent(p, generated[p], network)
           /\ \A m \in network : m \in Messages /\ m.from \in Parties
                                 /\ m.ephemeral[1] = m.from /\ generated[m.from] \in Nat
<1>1. generated \in [Parties -> Nat] /\ network \subseteq Messages
  BY DEF SessionInv, OthersGood, NetworkGood
<1>2. ASSUME NEW m \in network
      PROVE  m \in Messages /\ m.from \in Parties /\ m.ephemeral[1] = m.from
             /\ generated[m.from] \in Nat
  <2>1. m \in Messages /\ m.from \in Parties /\ generated[m.from] \in Nat
    BY <1>1 DEF Messages
  <2>2. OwnEphemeral(m.from, m.ephemeral, generated[m.from])
    BY DEF KeysInv, SentBy
  <2> QED
    BY <2>1, <2>2 DEF OwnEphemeral
<1>3. OwnSent(p, generated[p], network)
  BY <1>2 DEF OwnSent, KeysInv, SentBy
<1> QED
  BY <1>1, <1>2, <1>3

\* A step in which only p's sessions and key pairs change, and nothing is sent.
LEMMA OneParty ==
    ASSUME SessionInv, KeysInv, NEW p \in Parties, NEW r, NEW n \in Nat,
           generated[p] <= n, OwnSessions(p, r, n, network),
           record' = [record EXCEPT ![p] = r], generated' = [generated EXCEPT ![p] = n],
           network' = network
    PROVE  KeysInv'
<1>1. generated \in [Parties -> Nat] /\ record \in [Parties -> Records]
  BY DEF SessionInv, OthersGood, RecordsGood
<1>2. ASSUME NEW q \in Parties PROVE OwnSessions(q, record'[q], generated'[q], network')
  <2>1. CASE q = p
    BY <1>1, <2>1
  <2>2. CASE q # p
    BY <1>1, <2>2 DEF KeysInv
  <2> QED
    BY <2>1, <2>2
<1>3. ASSUME NEW m \in network' PROVE SentBy(m, generated'[m.from])
  <2>1. m \in Messages /\ m.from \in Parties /\ generated[m.from] \in Nat
    BY AllOwn
  <2>2. generated'[m.from] \in Nat /\ generated[m.from] <= generated'[m.from]
    BY <1>1, <2>1
  <2>3. SentBy(m, generated[m.from])
    BY DEF KeysInv
  <2> QED
    BY <2>1, <2>2, <2>3, SentByLater
<1> QED
  BY <1>2, <1>3 DEF KeysInv

\* A party without sessions sends under no key.
LEMMA NoSessions == \A p, n, sent : OwnSessions(p, EmptyRecord, n, sent)
BY EmptyRecordType DEF OwnSessions

\* Establishing a session uses two key pairs never used before.
LEMMA EstablishKeys ==
    ASSUME SessionInv, KeysInv, NEW p \in Parties, Establish(p)
    PROVE  KeysInv'
<1> DEFINE q == Peer(p)
           n == generated[p]
           c == CloseOpenSession(record[p], Now(p))
<1>1. n \in Nat /\ OwnSent(p, n, network)
  BY AllOwn
<1>2. q \in Parties /\ q # p
  BY PartiesAssumption DEF Peer
<1>3. SignedPreKey(q) \in KeyPairs /\ SignedPreKey(q)[1] # p
  BY <1>2, KeysType DEF SessionInv, SignedPreKey
<1> DEFINE base == <<p, "ephemeral", n + 1>>
           fresh == <<p, "ephemeral", n + 2>>
<1>4. PICK k \in Bundled(p) :
        Save(p, PutSession(c, base, Outgoing(base, SignedPreKey(q), k, fresh)))
  BY DEF Establish, Fresh
<1>5. k \in SUBSET PreKeyIds
  BY <1>2 DEF Bundled, SessionInv, OthersGood
<1> DEFINE s == Outgoing(base, SignedPreKey(q), k, fresh)
           r == PutSession(c, base, s)
<1>6. Sends(p, s, n + 2, network) /\ s.ephemeral = fresh
  BY <1>1, <1>3, <1>5, OutgoingSends
<1>7. base \in KeyPairs /\ fresh \in KeyPairs
  BY <1>1 DEF KeyPairs
<1>8. s \in Sessions
  BY <1>3, <1>5, <1>7, OutgoingProper DEF Proper
<1>9. Good(record[p]) /\ OwnSessions(p, record[p], n, network) /\ Now(p) \in Nat \ {0}
  BY KeysType DEF SessionInv, RecordsGood, KeysInv
<1>10. c \in Records /\ OwnSessions(p, c, n, network)
  <2>1. c \in Records
    BY <1>9, ClosingGood
  <2> QED
    BY <1>1, <1>9, <2>1, ClosingSends
<1>11. record' = [record EXCEPT ![p] = r] /\ generated' = [generated EXCEPT ![p] = n + 2]
       /\ network' = network
  BY <1>4 DEF Save, SaveFrom, Establish
<1>12. \A b \in DOMAIN c : c[b].ephemeral # fresh
  <2>1. \A b \in DOMAIN c : OwnEphemeral(p, c[b].ephemeral, n)
    BY <1>10 DEF OwnSessions, Sends
  <2> QED
    BY <1>1, <2>1 DEF OwnEphemeral
<1> HIDE DEF q, c, s
<1>13. /\ DOMAIN r = DOMAIN c \union {base} /\ r[base] = s
       /\ \A b \in DOMAIN c \ {base} : r[b] = c[b]
  BY ONLY DEF r, PutSession
<1> HIDE DEF r, base, fresh
<1>14. n + 2 \in Nat /\ n <= n + 2
  BY <1>1
<1> HIDE DEF n
<1>15. ASSUME NEW b \in DOMAIN c PROVE Sends(p, c[b], n + 2, network)
  BY <1>1, <1>10, <1>14, SendsAsBefore DEF OwnSessions
<1>16. \A b \in DOMAIN r : Sends(p, r[b], n + 2, network)
  BY <1>6, <1>13, <1>15
<1>17. \A b, d \in DOMAIN r : r[b].ephemeral = r[d].ephemeral => b = d
  BY <1>6, <1>10, <1>12, <1>13 DEF OwnSessions
<1>18. OwnSessions(p, r, n + 2, network)
  BY <1>16, <1>17 DEF OwnSessions
<1> QED
  BY <1>11, <1>14, <1>18, OneParty DEF n

\* Encrypting sends the next number of a chain.
LEMMA EncryptKeys ==
    ASSUME SessionInv, KeysInv, NEW p \in Parties, Encrypt(p)
    PROVE  KeysInv'
<1> DEFINE n == generated[p]
<1>1. PICK b \in OpenSession(record[p]) :
        /\ network' = network \union {Message(p, record[p][b])}
        /\ Save(p, PutSession(record[p], b, Advanced(record[p][b])))
        /\ generated' = generated
  BY DEF Encrypt
<1> DEFINE s == record[p][b]
           m == Message(p, s)
           r == PutSession(record[p], b, Advanced(s))
<1>2. b \in DOMAIN record[p]
  BY DEF OpenSession, OpenSessions
<1>3. Good(record[p]) /\ OwnSessions(p, record[p], n, network) /\ record \in [Parties -> Records]
  BY DEF SessionInv, RecordsGood, KeysInv
<1>4. n \in Nat /\ network \subseteq Messages
  BY AllOwn DEF SessionInv, NetworkGood
<1>5. /\ m.from = p /\ m.ephemeral = s.ephemeral
      /\ m.counter = s.chains[s.ephemeral].counter
      /\ m.key = s.chains[s.ephemeral].key /\ m.hello = s.pending
  BY DEF Message
<1>6. Sends(p, s, n, network)
  BY <1>2, <1>3 DEF OwnSessions
<1>7. m.ephemeral[1] = p
  BY <1>5, <1>6 DEF Sends, OwnEphemeral
<1>8. record' = [record EXCEPT ![p] = r]
  BY <1>1 DEF Save, SaveFrom
<1> HIDE DEF m, n
<1>9. OwnSessions(p, r, n, network \union {m})
  BY <1>2, <1>3, <1>4, <1>5, EncryptSends
<1> HIDE DEF r
<1>10. network' = network \union {m}
  BY <1>1 DEF m
<1>11. ASSUME NEW q \in Parties PROVE OwnSessions(q, record'[q], generated'[q], network')
  <2>1. CASE q = p
    BY <1>1, <1>3, <1>8, <1>9, <1>10, <2>1 DEF n
  <2>2. CASE q # p
    <3>1. record'[q] = record[q] /\ OwnSessions(q, record[q], generated[q], network)
      BY <1>3, <1>8, <2>2 DEF KeysInv
    <3>2. ASSUME NEW a \in DOMAIN record[q] PROVE Sends(q, record[q][a], generated[q], network')
      <4>1. Sends(q, record[q][a], generated[q], network)
        BY <3>1 DEF OwnSessions
      <4>2. record[q][a].ephemeral # m.ephemeral
        BY <1>7, <2>2, <4>1 DEF Sends, OwnEphemeral
      <4>3. Ahead(record[q][a], network')
        BY <1>10, <4>1, <4>2 DEF Sends, Ahead
      <4> QED
        BY <4>1, <4>3 DEF Sends
    <3> QED
      BY <1>1, <3>1, <3>2 DEF OwnSessions
  <2> QED
    BY <2>1, <2>2
<1>12. SentBy(m, n)
  <2>1. s \in Sessions /\ s.root.x3dh.base = b
    BY <1>2, <1>3 DEF Good, Proper, Linked
  <2> HIDE DEF s
  <2> QED
    BY <1>5, <1>6 DEF Sends, SentBy
<1>13. ASSUME NEW l \in network' PROVE SentBy(l, generated'[l.from])
  BY <1>1, <1>5, <1>10, <1>12 DEF KeysInv, n
<1>14. \A l \in network : l.ephemeral = m.ephemeral => l.counter # m.counter
  <2>1. \A l \in network : l.ephemeral = s.ephemeral => l.counter < s.chains[s.ephemeral].counter
    BY <1>6 DEF Sends, Ahead
  <2>2. \A l \in network : l.counter \in Nat
    BY <1>4 DEF Messages
  <2> HIDE DEF s
  <2> QED
    BY <1>5, <2>1, <2>2
<1>15. Numbered(network')
  BY <1>10, <1>14 DEF KeysInv, Numbered
<1> QED
  BY <1>11, <1>13, <1>15 DEF KeysInv

\* Receiving uses a new key pair when it ratchets.
LEMMA ReceiveKeys ==
    ASSUME SessionInv, KeysInv, NEW p \in Parties, NEW m \in network, Receive(p, m)
    PROVE  KeysInv'
<1> DEFINE n == generated[p]
           w == WithSession(p, m)
           r == Decrypted(w, m, Fresh(p, 1))
<1>1. n \in Nat /\ OwnSent(p, n, network) /\ m \in Messages /\ m.ephemeral[1] = m.from
  BY AllOwn
<1>2. m.from # p /\ network' = network
  BY DEF Receive
<1>3. RecordsGood /\ OthersGood /\ NetworkGood
  BY DEF SessionInv
<1>4. Good(record[p]) /\ OwnSessions(p, record[p], n, network) /\ record \in [Parties -> Records]
  BY <1>3 DEF RecordsGood, KeysInv
<1>5. Good(Prepared(p, m)) /\ OwnSessions(p, Prepared(p, m), n, network)
  BY <1>4, GoodEmpty, NoSessions DEF Prepared
<1>6. CASE Decrypt(p, m)
  <2>1. /\ Readable(p, m) /\ record' = [record EXCEPT ![p] = r]
        /\ generated' = [generated EXCEPT ![p] =
               IF \E b \in DOMAIN r : r[b].ephemeral = Fresh(p, 1) THEN @ + 1 ELSE @]
    BY <1>6 DEF Decrypt, SaveFrom
  <2>2. Fresh(p, 1) = <<p, "ephemeral", n + 1>>
    BY DEF Fresh
  <2>3. /\ w \in Records
        /\ \A k \in DOMAIN w : Usable(k, w[k], m.key.x3dh.base)
        /\ Apart(w) /\ \A b \in DOMAIN w : Sendable(p, w[b], n, network)
    <3>1. CASE m.hello = {}
      <4>1. w = record[p]
        BY <3>1 DEF WithSession
      <4> HIDE DEF w, n
      <4> QED
        BY <1>4, <4>1 DEF Good, Usable, Apart, Sendable, OwnSessions
    <3>2. CASE m.hello # {}
      <4> DEFINE h == CHOOSE g \in m.hello : TRUE
                 k == Loaded(p, h)
      <4>1. h \in m.hello
        BY <3>2
      <4>2. h \in X3DHs /\ h.base = m.key.x3dh.base
        BY <1>1, <1>3, <4>1 DEF Messages, Pending, NetworkGood
      <4>3. h.base[1] # p
        BY <1>2, <3>2, <4>2 DEF KeysInv, SentBy
      <4>4. k \in SUBSET PreKeyIds
        BY <1>3 DEF Loaded, OthersGood
      <4>5. SignedPreKey(p) \in KeyPairs /\ Now(p) \in Nat \ {0}
        BY <1>3, KeysType
      <4>6. w = WithIncoming(Prepared(p, m), h, SignedPreKey(p), k, Now(p))
        BY <3>2 DEF WithSession
      <4> HIDE DEF h, k, w, n
      <4>7. w \in Records /\ \A b \in DOMAIN w : Usable(b, w[b], h.base)
        BY <1>5, <4>2, <4>4, <4>5, <4>6, WithIncomingReady
      <4>8. Apart(w) /\ \A b \in DOMAIN w : Sendable(p, w[b], n, network)
        BY <1>1, <1>5, <4>2, <4>3, <4>4, <4>5, <4>6, WithIncomingSends
      <4> QED
        BY <4>2, <4>7, <4>8
    <3> QED
      BY ONLY <3>1, <3>2
  <2>4. Openers(w, m, <<p, "ephemeral", n + 1>>) # {}
    BY <2>1, <2>2 DEF Readable
  <2> DEFINE ratcheted == \E b \in DOMAIN r : r[b].ephemeral = Fresh(p, 1)
             k == IF ratcheted THEN n + 1 ELSE n
  <2>5. OwnSessions(p, r, k, network)
    <3> HIDE DEF w
    <3>1. LET q == Decrypted(w, m, <<p, "ephemeral", n + 1>>)
              moved == \E b \in DOMAIN q : q[b].ephemeral = <<p, "ephemeral", n + 1>>
          IN  OwnSessions(p, q, IF moved THEN n + 1 ELSE n, network)
      BY <1>1, <1>2, <2>3, <2>4, DecryptedSends
    <3> QED
      BY <2>2, <3>1
  <2> HIDE DEF r, ratcheted
  <2>6. k \in Nat /\ n <= k
    BY <1>1
  <2>7. generated' = [generated EXCEPT ![p] = k]
    BY <2>1 DEF ratcheted
  <2> HIDE DEF k
  <2> QED
    BY <1>2, <2>1, <2>5, <2>6, <2>7, OneParty
<1>7. CASE Refuse(p, m)
  <2>1. record' = [record EXCEPT ![p] = Prepared(p, m)] /\ generated' = generated
    BY <1>7 DEF Refuse, Save, SaveFrom
  <2>2. generated' = [generated EXCEPT ![p] = n]
    BY <1>3, <2>1 DEF OthersGood
  <2>3. n <= n
    BY <1>1
  <2> HIDE DEF n
  <2>4. generated[p] <= n
    BY <2>3 DEF n
  <2> QED
    BY <1>1, <1>2, <1>5, <2>1, <2>2, <2>4, OneParty
<1> QED
  BY <1>6, <1>7 DEF Receive

\* Without sessions no key is left to use again.
LEMMA DeleteKeys ==
    ASSUME SessionInv, KeysInv, NEW p \in Parties, Delete(p) \/ Reinstall(p)
    PROVE  KeysInv'
<1>1. /\ generated' = generated /\ network' = network
      /\ \E r \in {EmptyRecord, record[p]} : record' = [record EXCEPT ![p] = r]
  BY DEF Delete, Reinstall, Save, SaveFrom
<1>2. generated' = [generated EXCEPT ![p] = generated[p]] /\ generated[p] \in Nat
  BY <1>1 DEF SessionInv, OthersGood
<1>3. /\ OwnSessions(p, EmptyRecord, generated[p], network)
      /\ OwnSessions(p, record[p], generated[p], network)
  BY NoSessions DEF KeysInv
<1>4. generated[p] <= generated[p]
  BY <1>2
<1> QED
  BY <1>1, <1>2, <1>3, <1>4, OneParty

\* The invariant behind KeysUsedOnce: whose key pair every session sends with,
\* what was mixed into its key, and how far its chain has come.
THEOREM KeysStayOwn == Spec => []KeysInv
<1>1. Init => KeysInv
  BY NoSessions DEF Init, KeysInv, Numbered
<1>2. SessionInv /\ KeysInv /\ [Next]_vars => KeysInv'
  <2> SUFFICES ASSUME SessionInv, KeysInv, [Next]_vars PROVE KeysInv'
    OBVIOUS
  <2>1. CASE Next
    <3>1. PICK p \in Parties :
            \/ Establish(p) \/ Encrypt(p) \/ Delete(p) \/ Reinstall(p)
            \/ \E m \in network : Receive(p, m)
      BY <2>1 DEF Next
    <3> QED
      BY <3>1, EstablishKeys, EncryptKeys, ReceiveKeys, DeleteKeys
  <2>2. CASE UNCHANGED vars
    BY <2>2 DEF vars, KeysInv
  <2> QED
    BY <2>1, <2>2
<1> QED
  BY <1>1, <1>2, SessionsWellFormed, PTL DEF Spec

\* No message key encrypts twice, whichever sessions are begun, closed, trimmed,
\* deleted and begun again by a repeated pre-key message, by either party.
THEOREM KeysEncryptOnce == Spec => []KeysUsedOnce
<1>1. SessionInv /\ KeysInv => KeysUsedOnce
  <2> SUFFICES ASSUME SessionInv, KeysInv, NEW m \in network, NEW l \in network,
                      m.key = l.key, m.counter = l.counter
               PROVE  m = l
    BY DEF KeysUsedOnce
  <2>1. /\ m \in Messages /\ m.from \in Parties /\ m.ephemeral[1] = m.from
        /\ l \in Messages /\ l.from \in Parties /\ l.ephemeral[1] = l.from
    BY AllOwn, PartiesAssumption
  <2>2. m.key \in RootKeys /\ m.key.x3dh.base \in KeyPairs
    BY <2>1 DEF Messages, RootKeys, X3DHs
  <2>3. SendingKey(m.from, m.ephemeral, m.key) /\ SendingKey(l.from, l.ephemeral, m.key)
    BY DEF KeysInv, SentBy
  <2>4. m.key.x3dh.base[1] \in Parties
    BY <2>2 DEF KeyPairs
  <2>5. m.ephemeral = l.ephemeral
    BY <2>1, <2>2, <2>3, <2>4, OneSender
  <2> QED
    BY <2>5 DEF KeysInv, Numbered
<1> QED
  BY <1>1, SessionsWellFormed, KeysStayOwn, PTL

-----------------------------------------------------------------------------
(* What one step does to the sessions of the party that takes it. *)

\* A session that is the same but for the time of its closing.
AsBefore(s, t) ==
    /\ t.root = s.root /\ t.ephemeral = s.ephemeral /\ t.remote = s.remote
    /\ t.previous = s.previous /\ t.chains = s.chains /\ t.pending = s.pending

\* p now holds r and has forgotten the sessions in lost; b is the session the
\* step was about, every other one in r was there before.
Moved(p, b, r, lost) ==
    /\ record' = [record EXCEPT ![p] = r]
    /\ forgotten' = [forgotten EXCEPT ![p] = lost]
    /\ forgotten[p] \subseteq lost /\ lost \subseteq forgotten[p] \union DOMAIN record[p]
    /\ DOMAIN record[p] \subseteq DOMAIN r \union lost
    /\ \A k \in DOMAIN r \ {b} :
          k \in DOMAIN record[p] /\ AsBefore(record[p][k], r[k]) /\ (k \in lost => k \in forgotten[p])

\* What SaveFrom adds to the sessions forgotten.
LEMMA SavedFrom ==
    ASSUME SessionInv, NEW p \in Parties, NEW kept, NEW r,
           SaveFrom(p, kept, r), DOMAIN kept \subseteq DOMAIN record[p],
           NEW b, \A k \in DOMAIN r \ {b} : k \in DOMAIN kept /\ AsBefore(record[p][k], r[k])
    PROVE  \E lost : /\ Moved(p, b, r, lost)
                     /\ lost = forgotten[p] \union
                                  (DOMAIN record[p] \ (DOMAIN kept \intersect DOMAIN r))
<1> DEFINE lost == forgotten[p] \union (DOMAIN record[p] \ (DOMAIN kept \intersect DOMAIN r))
<1>1. record' = [record EXCEPT ![p] = r] /\ forgotten' = [forgotten EXCEPT ![p] = lost]
  BY DEF SaveFrom
<1>2. Moved(p, b, r, lost)
  BY <1>1 DEF Moved
<1> QED
  BY <1>2

\* Closing changes no session but for the time of its closing.
LEMMA ClosingKeeps ==
    ASSUME NEW r, Good(r), NEW now \in Nat \ {0}
    PROVE  LET q == CloseOpenSession(r, now)
           IN  q \in Records /\ \A b \in DOMAIN q : b \in DOMAIN r /\ AsBefore(r[b], q[b])
<1> DEFINE q == CloseOpenSession(r, now)
<1>1. /\ q \in Records
      /\ DOMAIN q \subseteq DOMAIN r
      /\ \A b \in DOMAIN q : q[b] = r[b] \/ q[b] = [r[b] EXCEPT !.closed = now]
  BY Closing DEF Good
<1> HIDE DEF q
<1>2. ASSUME NEW b \in DOMAIN q PROVE b \in DOMAIN r /\ AsBefore(r[b], q[b])
  <2>1. r[b] \in Sessions /\ b \in DOMAIN r
    BY <1>1 DEF Good, Proper
  <2> QED
    BY <1>1, <2>1 DEF AsBefore, Sessions
<1>3. q \in Records /\ \A b \in DOMAIN q : b \in DOMAIN r /\ AsBefore(r[b], q[b])
  BY <1>1, <1>2
<1> QED
  BY <1>3 DEF q

\* A session is itself as before.
LEMMA SameAsBefore == \A s : AsBefore(s, s)
BY DEF AsBefore

\* Establishing puts one new session beside those there were.
LEMMA EstablishMoves ==
    ASSUME SessionInv, NEW p \in Parties, Establish(p)
    PROVE  \E k \in SUBSET PreKeyIds : \E r, lost :
              /\ Moved(p, Fresh(p, 1), r, lost)
              /\ Fresh(p, 1) \in DOMAIN r
              /\ r[Fresh(p, 1)] = Outgoing(Fresh(p, 1), SignedPreKey(Peer(p)), k, Fresh(p, 2))
<1> DEFINE c == CloseOpenSession(record[p], Now(p))
           base == Fresh(p, 1)
<1>1. Peer(p) \in Parties /\ base \in KeyPairs /\ Fresh(p, 2) \in KeyPairs /\ Now(p) \in Nat \ {0}
  BY KeysType DEF SessionInv
<1>2. SignedPreKey(Peer(p)) \in KeyPairs
  BY <1>1, KeysType DEF SessionInv
<1>3. PICK k \in Bundled(p) :
        Save(p, PutSession(c, base, Outgoing(base, SignedPreKey(Peer(p)), k, Fresh(p, 2))))
  BY DEF Establish
<1>4. k \in SUBSET PreKeyIds
  BY <1>1 DEF Bundled, SessionInv, OthersGood
<1> DEFINE s == Outgoing(base, SignedPreKey(Peer(p)), k, Fresh(p, 2))
           r == PutSession(c, base, s)
<1>5. s \in Sessions
  BY <1>1, <1>2, <1>4, OutgoingProper DEF Proper
<1>6. Good(record[p])
  BY DEF SessionInv, RecordsGood
<1>7. c \in Records /\ \A b \in DOMAIN c : b \in DOMAIN record[p] /\ AsBefore(record[p][b], c[b])
  BY <1>1, <1>6, ClosingKeeps
<1>8. SaveFrom(p, record[p], r)
  BY <1>3 DEF Save
<1> HIDE DEF s, base, c
<1>9. /\ DOMAIN r = DOMAIN c \union {base} /\ r[base] = s
      /\ \A b \in DOMAIN c \ {base} : r[b] = c[b]
  BY ONLY DEF r, PutSession
<1> HIDE DEF r
<1>10. \A b \in DOMAIN r \ {base} : b \in DOMAIN record[p] /\ AsBefore(record[p][b], r[b])
  BY <1>7, <1>9
<1>11. \E lost : Moved(p, base, r, lost)
  BY <1>8, <1>10, SavedFrom
<1> QED
  BY <1>4, <1>9, <1>11 DEF s, base

\* Encrypting changes one session's sending chain.
LEMMA EncryptMoves ==
    ASSUME SessionInv, NEW p \in Parties, Encrypt(p)
    PROVE  \E b \in DOMAIN record[p] : \E r :
              /\ Moved(p, b, r, forgotten[p])
              /\ DOMAIN r = DOMAIN record[p]
              /\ r[b] = Advanced(record[p][b])
              /\ CanSend(record[p][b])
              /\ network' = network \union {Message(p, record[p][b])}
<1>1. PICK b \in OpenSession(record[p]) :
        /\ CanSend(record[p][b])
        /\ network' = network \union {Message(p, record[p][b])}
        /\ Save(p, PutSession(record[p], b, Advanced(record[p][b])))
  BY DEF Encrypt
<1> DEFINE s == Advanced(record[p][b])
           r == PutSession(record[p], b, s)
<1>2. b \in DOMAIN record[p] /\ Good(record[p])
  BY DEF OpenSession, OpenSessions, SessionInv, RecordsGood
<1>3. record[p] \in Records /\ b \in KeyPairs /\ Proper(b, record[p][b])
  BY <1>2, RecordsType DEF Good
<1>4. s \in Sessions
  BY <1>1, <1>3, AdvancedProper DEF Proper
<1> HIDE DEF s
<1>5. /\ DOMAIN r = DOMAIN record[p] /\ r[b] = s
      /\ \A k \in DOMAIN record[p] \ {b} : r[k] = record[p][k]
  BY <1>2, <1>3, <1>4, PutBack
<1>6. SaveFrom(p, record[p], r)
  BY <1>1 DEF Save, s
<1> HIDE DEF r
<1>7. \A k \in DOMAIN r \ {b} : k \in DOMAIN record[p] /\ AsBefore(record[p][k], r[k])
  BY <1>5, SameAsBefore
<1>8. \E lost : /\ Moved(p, b, r, lost)
                /\ lost = forgotten[p] \union
                             (DOMAIN record[p] \ (DOMAIN record[p] \intersect DOMAIN r))
  BY <1>6, <1>7, SavedFrom
<1>9. Moved(p, b, r, forgotten[p])
  <2>1. forgotten[p] \union (DOMAIN record[p] \ (DOMAIN record[p] \intersect DOMAIN r)) = forgotten[p]
    BY <1>5
  <2> QED
    BY <1>8, <2>1
<1> QED
  BY <1>1, <1>2, <1>5, <1>9 DEF s

\* Deleting, a new installation and a refusal keep all sessions or none.
LEMMA ForgetMoves ==
    ASSUME SessionInv, NEW p \in Parties, NEW r, Save(p, r), r \in {record[p], EmptyRecord}
    PROVE  \E lost : \A b : Moved(p, b, r, lost)
<1> DEFINE lost == forgotten[p] \union (DOMAIN record[p] \ (DOMAIN record[p] \intersect DOMAIN r))
<1>1. SaveFrom(p, record[p], r)
  BY DEF Save
<1>2. ASSUME NEW b PROVE Moved(p, b, r, lost)
  <2>1. \A k \in DOMAIN r : k \in DOMAIN record[p] /\ AsBefore(record[p][k], r[k])
    BY SameAsBefore, EmptyRecordType
  <2>2. \E l : Moved(p, b, r, l) /\ l = lost
    BY <1>1, <2>1, SavedFrom
  <2> QED
    BY <2>2
<1> QED
  BY <1>2

\* A pre-key message adds at most its own session to those there were.
LEMMA WithIncomingKeeps ==
    ASSUME NEW r, Good(r), NEW h \in X3DHs, NEW spk \in KeyPairs,
           NEW k \in SUBSET PreKeyIds, NEW now \in Nat \ {0}
    PROVE  LET q == WithIncoming(r, h, spk, k, now)
           IN  \A b \in DOMAIN q :
                  \/ b \in DOMAIN r /\ AsBefore(r[b], q[b])
                  \/ b = h.base /\ b \notin DOMAIN r /\ q[b] = Incoming(b, spk, k)
<1> DEFINE q == WithIncoming(r, h, spk, k, now)
           Kept(b) == b \in DOMAIN r /\ AsBefore(r[b], q[b])
           New(b) == b = h.base /\ b \notin DOMAIN r /\ q[b] = Incoming(b, spk, k)
<1>1. CASE h.base \in DOMAIN r
  <2>1. q = r
    BY <1>1 DEF WithIncoming
  <2> HIDE DEF q
  <2>2. \A b \in DOMAIN q : Kept(b)
    BY <2>1, SameAsBefore
  <2> QED
    BY <2>2 DEF q
<1>2. CASE h.base \notin DOMAIN r
  <2> DEFINE base == h.base
             s == Incoming(base, spk, k)
             c == CloseOpenSession(r, now)
  <2>1. base \in KeyPairs
    BY DEF X3DHs
  <2>2. s \in Sessions
    BY <2>1, IncomingProper DEF Proper
  <2>3. c \in Records /\ \A b \in DOMAIN c : b \in DOMAIN r /\ AsBefore(r[b], c[b])
    BY ClosingKeeps
  <2>4. q = PutSession(c, base, s)
    BY <1>2 DEF WithIncoming
  <2>5. c \in Records
    BY <2>3
  <2> HIDE DEF c, s, q, base
  <2>6. /\ DOMAIN q = DOMAIN c \union {base} /\ q[base] = s
        /\ \A b \in DOMAIN c \ {base} : q[b] = c[b]
    BY ONLY <2>1, <2>2, <2>4, <2>5, Put
  <2>7. \A b \in DOMAIN q : Kept(b) \/ New(b)
    BY <1>2, <2>3, <2>6 DEF s, base
  <2> QED
    BY <2>7 DEF q
<1> QED
  BY ONLY <1>1, <1>2

\* p reads m in a session it has, ...
Continued(p, b, s, lost) ==
    /\ b \in DOMAIN record[p] /\ AsBefore(record[p][b], s)
    /\ b \in lost => b \in forgotten[p]

\* ... or in one that m sets up.
Begun(p, m, b, s, lost) ==
    /\ b \in DOMAIN record[p] => b \in lost
    /\ \E h \in m.hello : /\ h.base = b /\ b \notin DOMAIN Prepared(p, m)
                          /\ s = Incoming(b, SignedPreKey(p), Loaded(p, h))

\* Where m is read, the record it is tried with, session by session.
LEMMA TriedSessions ==
    ASSUME SessionInv, KeysInv, NEW p \in Parties, NEW m \in network, m.from # p
    PROVE  LET w == WithSession(p, m)
               base == m.key.x3dh.base
           IN  /\ Readable(p, m) => w \in Records
               /\ \A b \in DOMAIN w : Proper(b, w[b]) /\ w[b].ephemeral[1] = p
               /\ \A b \in DOMAIN w :
                    \/ b \in DOMAIN Prepared(p, m) /\ AsBefore(record[p][b], w[b])
                    \/ /\ b = base
                       /\ \E h \in m.hello : /\ h.base = b /\ b \notin DOMAIN Prepared(p, m)
                                             /\ w[b] = Incoming(b, SignedPreKey(p), Loaded(p, h))
<1> DEFINE w == WithSession(p, m)
           base == m.key.x3dh.base
           Old(b) == b \in DOMAIN Prepared(p, m) /\ AsBefore(record[p][b], w[b])
           New(b) == /\ b = base
                     /\ \E h \in m.hello : /\ h.base = b /\ b \notin DOMAIN Prepared(p, m)
                                           /\ w[b] = Incoming(b, SignedPreKey(p), Loaded(p, h))
<1>1. m \in Messages /\ RecordsGood /\ OthersGood /\ NetworkGood
  BY DEF SessionInv, NetworkGood
<1>2. Good(record[p]) /\ \A b \in DOMAIN record[p] : OwnEphemeral(p, record[p][b].ephemeral, generated[p])
  BY <1>1 DEF RecordsGood, KeysInv, OwnSessions, Sends
<1>3. \A b \in DOMAIN record[p] : Proper(b, record[p][b]) /\ record[p][b].ephemeral[1] = p
  BY <1>2 DEF Good, OwnEphemeral
<1>4. Prepared(p, m) \in {record[p], EmptyRecord} /\ Good(Prepared(p, m))
  BY <1>2, GoodEmpty DEF Prepared
<1>5. /\ Readable(p, m) => w \in Records
      /\ \A b \in DOMAIN w : Proper(b, w[b])
      /\ \A b \in DOMAIN w : Old(b) \/ New(b)
  <2>1. CASE m.hello = {}
    <3>1. w = record[p] /\ Prepared(p, m) = record[p]
      BY <2>1 DEF WithSession, Prepared, IdentityChanged
    <3> HIDE DEF w
    <3> QED
      BY <1>2, <1>3, <3>1, SameAsBefore DEF Good
  <2>2. CASE m.hello # {}
    <3> DEFINE h == CHOOSE g \in m.hello : TRUE
               k == Loaded(p, h)
    <3>1. h \in m.hello
      BY <2>2
    <3>2. h \in X3DHs /\ h.base = base
      BY <1>1, <3>1 DEF Messages, Pending, NetworkGood
    <3>3. k \in SUBSET PreKeyIds
      BY <1>1 DEF Loaded, OthersGood
    <3>4. SignedPreKey(p) \in KeyPairs /\ Now(p) \in Nat \ {0}
      BY <1>1, KeysType
    <3>5. w = WithIncoming(Prepared(p, m), h, SignedPreKey(p), k, Now(p))
      BY <2>2 DEF WithSession
    <3> HIDE DEF w, h, k
    <3>6. w \in Records /\ \A b \in DOMAIN w : Usable(b, w[b], h.base)
      BY <1>4, <3>2, <3>3, <3>4, <3>5, WithIncomingReady
    <3>7. \A b \in DOMAIN w :
            \/ b \in DOMAIN Prepared(p, m) /\ AsBefore(Prepared(p, m)[b], w[b])
            \/ b = h.base /\ b \notin DOMAIN Prepared(p, m) /\ w[b] = Incoming(b, SignedPreKey(p), k)
      BY <1>4, <3>2, <3>3, <3>4, <3>5, WithIncomingKeeps
    <3>8. \A b \in DOMAIN Prepared(p, m) : Prepared(p, m)[b] = record[p][b]
      BY <1>4, EmptyRecordType
    <3>9. \A b \in DOMAIN w : Old(b) \/ New(b)
      BY <3>1, <3>2, <3>7, <3>8 DEF k
    <3> QED
      BY <3>6, <3>9 DEF Usable
  <2> QED
    BY ONLY <2>1, <2>2
<1>6. ASSUME NEW b \in DOMAIN w PROVE w[b].ephemeral[1] = p
  <2>1. CASE Old(b)
    BY <1>3, <1>4, <2>1, EmptyRecordType DEF AsBefore
  <2>2. CASE New(b)
    BY <2>2 DEF Incoming, SignedPreKey
  <2> HIDE DEF w
  <2> QED
    BY <1>5, <2>1, <2>2
<1> HIDE DEF w
<1>7. /\ Readable(p, m) => w \in Records
      /\ \A b \in DOMAIN w : Proper(b, w[b]) /\ w[b].ephemeral[1] = p
      /\ \A b \in DOMAIN w : Old(b) \/ New(b)
  BY <1>5, <1>6
<1> QED
  BY <1>7 DEF w

\* Reading changes the one session that opens the message.
LEMMA DecryptMoves ==
    ASSUME SessionInv, KeysInv, NEW p \in Parties, NEW m \in network, m.from # p, Decrypt(p, m)
    PROVE  LET b == m.key.x3dh.base
           IN  \E s, r, lost :
                  /\ Moved(p, b, r, lost)
                  /\ b \in DOMAIN r /\ r[b] = Received(s, m, Fresh(p, 1))
                  /\ Proper(b, s) /\ s.ephemeral[1] = p /\ Opens(s, m, Fresh(p, 1))
                  /\ Continued(p, b, s, lost) \/ Begun(p, m, b, s, lost)
<1> DEFINE w == WithSession(p, m)
           fresh == Fresh(p, 1)
           b == CHOOSE k \in Openers(w, m, fresh) : TRUE
           s == w[b]
           t == Received(s, m, fresh)
           r == Decrypted(w, m, fresh)
<1>1. /\ Openers(w, m, fresh) # {}
      /\ SaveFrom(p, Prepared(p, m), r)
      /\ m \in Messages /\ fresh \in KeyPairs
  BY KeysType DEF Decrypt, Readable, SessionInv, NetworkGood
<1>2. b \in Openers(w, m, fresh)
  BY <1>1
<1>3. r = PutSession(w, b, t)
  BY DEF Decrypted
<1>4. /\ w \in Records
      /\ \A k \in DOMAIN w : Proper(k, w[k]) /\ w[k].ephemeral[1] = p
      /\ \A k \in DOMAIN w :
            \/ k \in DOMAIN Prepared(p, m) /\ AsBefore(record[p][k], w[k])
            \/ /\ k = m.key.x3dh.base
               /\ \E h \in m.hello : /\ h.base = k /\ k \notin DOMAIN Prepared(p, m)
                                     /\ w[k] = Incoming(k, SignedPreKey(p), Loaded(p, h))
  BY TriedSessions DEF Decrypt
<1>5. Good(r)
  BY ReadyToRead DEF SessionInv, Decrypt
<1> HIDE DEF w, fresh, b, r
<1>6. b \in DOMAIN w /\ m.key.x3dh.base = b /\ Opens(s, m, fresh)
  <2>1. b \in DOMAIN w /\ m.key.x3dh.base = b
    BY <1>1, <1>2, <1>4, OpenersOwn
  <2> QED
    BY <1>2, <2>1 DEF Openers
<1>7. DOMAIN r = DOMAIN w /\ r[b] = t /\ \A k \in DOMAIN w \ {b} : r[k] = w[k]
  BY ONLY <1>3, <1>6 DEF PutSession
<1> HIDE DEF t
<1>8. DOMAIN Prepared(p, m) \subseteq DOMAIN record[p]
  BY EmptyRecordType DEF Prepared
<1>9. \A k \in DOMAIN r \ {b} : k \in DOMAIN Prepared(p, m) /\ AsBefore(record[p][k], r[k])
  BY <1>4, <1>6, <1>7
<1>10. PICK lost : /\ Moved(p, b, r, lost)
                   /\ lost = forgotten[p] \union
                                (DOMAIN record[p] \ (DOMAIN Prepared(p, m) \intersect DOMAIN r))
  BY <1>1, <1>8, <1>9, SavedFrom
<1>11. Continued(p, b, s, lost) \/ Begun(p, m, b, s, lost)
  <2>1. CASE b \in DOMAIN Prepared(p, m) /\ AsBefore(record[p][b], w[b])
    BY <1>6, <1>7, <1>8, <1>10, <2>1 DEF Continued
  <2>2. CASE \E h \in m.hello : /\ h.base = b /\ b \notin DOMAIN Prepared(p, m)
                                /\ w[b] = Incoming(b, SignedPreKey(p), Loaded(p, h))
    BY <1>10, <2>2 DEF Begun
  <2> QED
    BY <1>4, <1>6, <2>1, <2>2
<1>12. Proper(b, s) /\ s.ephemeral[1] = p
  BY <1>4, <1>6
<1> HIDE DEF s
<1> QED
  BY <1>6, <1>7, <1>10, <1>11, <1>12 DEF t, fresh

-----------------------------------------------------------------------------
(* What is read is gone.  A key that was taken is behind the counter of its *)
(* chain and not among the kept ones, and stays so: a chain only moves on,   *)
(* it is never begun a second time in the same session, and it goes only     *)
(* with the session.  The session itself does not come back: the one-time    *)
(* pre-key went with it, or another signed pre-key took the place of the one *)
(* it was set up with.                                                       *)

\* The key of number n was taken out of chain c.
Gone(c, n) == n < c.counter /\ n \notin c.kept

\* Session s has opened m.
Spent(s, m) == m.ephemeral \in DOMAIN s.chains /\ Gone(s.chains[m.ephemeral], m.counter)

\* All keys of s come from one X3DH secret, and no chain keeps a key it has
\* yet to reach.
Whole(s) ==
    \A e \in DOMAIN s.chains :
        /\ s.chains[e].key.x3dh = s.root.x3dh
        /\ \A n \in s.chains[e].kept : n < s.chains[e].counter

\* No session can be set up with x any more.
UsedUp(x, signedPreKey, keys) == x.signedPreKey # signedPreKey \/ x.preKey \intersect keys = {}

\* x was made from keys that exist: generated by its initiator, and of an
\* installation there is or was.
Known(x, made, installed) ==
    /\ OwnEphemeral(x.base[1], x.base, made[x.base[1]])
    /\ \A p \in Parties : \A i \in Nat : i > installed[p] => x.signedPreKey # <<p, "signed", i>>

\* Who read m had its session, and if he still has it its key is gone.
Remembers(r, lost, m) ==
    LET b == m.key.x3dh.base
    IN  /\ b \in DOMAIN r \union lost
        /\ /\ b \in DOMAIN r /\ r[b].root.x3dh = m.key.x3dh
           /\ m.key.x3dh.preKey = {} => b \notin lost
           => Spent(r[b], m)

\* p holds r, has forgotten lost, and has read the messages in seen.
PartyReads(p, r, lost, signedPreKey, keys, seen) ==
    /\ \A b \in DOMAIN r : Whole(r[b]) /\ UsedUp(r[b].root.x3dh, signedPreKey, keys)
    /\ \A m \in seen : m.from # p =>
          UsedUp(m.key.x3dh, signedPreKey, keys) /\ Remembers(r, lost, m)

KeysKnown ==
    /\ \A p \in Parties : \A b \in DOMAIN record[p] :
          Known(record[p][b].root.x3dh, generated, installation)
    /\ \A m \in network : Known(m.key.x3dh, generated, installation)

ReadingInv ==
    /\ \A p \in Parties :
          PartyReads(p, record[p], forgotten[p], SignedPreKey(p), preKeys[p], read)
    /\ KeysKnown

\* Taking a key leaves it gone, and every other key that was.
LEMMA TakenGone ==
    ASSUME NEW c \in Chains, NEW n \in Nat, HasKey(c, n), \A k \in c.kept : k < c.counter
    PROVE  LET d == Taken(c, n)
           IN  /\ Gone(d, n)
               /\ \A k \in d.kept : k < d.counter
               /\ \A k \in Nat : Gone(c, k) => Gone(d, k)
<1> DEFINE d == Taken(c, n)
<1>1. c.counter \in Nat /\ c.kept \in SUBSET Nat
  BY DEF Chains
<1>2. CASE n \in c.kept
  <2>1. d.counter = c.counter /\ d.kept = c.kept \ {n}
    BY <1>2 DEF Taken, Chains
  <2> HIDE DEF d
  <2>2. Gone(d, n) /\ (\A k \in d.kept : k < d.counter) /\ (\A k \in Nat : Gone(c, k) => Gone(d, k))
    BY <1>1, <1>2, <2>1 DEF Gone
  <2> QED
    BY <2>2 DEF d
<1>3. CASE n \notin c.kept
  <2>1. c.counter <= n
    BY <1>3 DEF HasKey
  <2>2. d.counter = n + 1 /\ d.kept = c.kept \union c.counter..(n - 1)
    BY <1>3 DEF Taken, Chains
  <2> HIDE DEF d
  <2>3. ASSUME NEW k \in d.kept PROVE k < d.counter
    BY <1>1, <2>1, <2>2
  <2>4. Gone(d, n)
    BY <1>1, <1>3, <2>1, <2>2 DEF Gone
  <2>5. ASSUME NEW k \in Nat, Gone(c, k) PROVE Gone(d, k)
    BY <1>1, <2>1, <2>2, <2>5 DEF Gone
  <2> QED
    BY <2>3, <2>4, <2>5 DEF d
<1> QED
  BY <1>2, <1>3

\* Ending a chain brings no key back.
LEMMA ClosedGone ==
    ASSUME NEW c \in Chains, NEW previous \in Nat, \A k \in c.kept : k < c.counter
    PROVE  LET d == ClosedChain(c, previous)
           IN  /\ \A k \in d.kept : k < d.counter
               /\ \A k \in Nat : Gone(c, k) => Gone(d, k)
<1> DEFINE d == ClosedChain(c, previous)
<1>1. c.counter \in Nat /\ c.kept \in SUBSET Nat
  BY DEF Chains
<1>2. /\ d.counter = IF c.live /\ c.counter <= previous THEN previous + 1 ELSE c.counter
      /\ d.kept = c.kept \union {n \in c.counter..previous : c.live}
  BY DEF ClosedChain, Chains
<1> HIDE DEF d
<1>3. ASSUME NEW k \in d.kept PROVE k < d.counter
  BY <1>1, <1>2
<1>4. ASSUME NEW k \in Nat, Gone(c, k) PROVE Gone(d, k)
  BY <1>1, <1>2, <1>4 DEF Gone
<1> QED
  BY <1>3, <1>4 DEF d

\* The fields of a session after a ratchet step.
LEMMA RatchetedParts ==
    ASSUME NEW s \in Sessions, NEW theirs \in KeyPairs, NEW previous \in Nat, NEW fresh
    PROVE  LET t == Ratcheted(s, theirs, previous, fresh)
               receiving == Mixed(s.root, Agreed(s.ephemeral, theirs))
               sending == Mixed(receiving, Agreed(fresh, theirs))
           IN  /\ t.root = sending /\ t.ephemeral = fresh /\ t.remote = theirs
               /\ t.previous = PreviousCounter(s) /\ t.pending = s.pending
               /\ DOMAIN t.chains = (DOMAIN s.chains \ {s.ephemeral}) \union {theirs, fresh}
               /\ \A e \in DOMAIN t.chains :
                     t.chains[e] = IF e = fresh THEN NewChain("sending", sending)
                                   ELSE IF e = theirs THEN NewChain("receiving", receiving)
                                   ELSE IF e = s.remote /\ s.chains[e].type = "receiving"
                                   THEN ClosedChain(s.chains[e], previous) ELSE s.chains[e]
<1> DEFINE receiving == Mixed(s.root, Agreed(s.ephemeral, theirs))
           sending == Mixed(receiving, Agreed(fresh, theirs))
           kept == KeptChains(s, previous)
           chains == [e \in DOMAIN kept \union {theirs, fresh} |->
                        IF e = fresh THEN NewChain("sending", sending)
                        ELSE IF e = theirs THEN NewChain("receiving", receiving)
                        ELSE kept[e]]
           old == PreviousCounter(s)
           t == Ratcheted(s, theirs, previous, fresh)
<1>1. t = [s EXCEPT !.root = sending, !.ephemeral = fresh, !.remote = theirs,
                    !.previous = old, !.chains = chains]
  BY DEF Ratcheted
<1>2. /\ DOMAIN kept = DOMAIN s.chains \ {s.ephemeral}
      /\ \A e \in DOMAIN kept :
            kept[e] = IF e = s.remote /\ s.chains[e].type = "receiving"
                      THEN ClosedChain(s.chains[e], previous) ELSE s.chains[e]
  BY DEF KeptChains
<1> HIDE DEF kept, old, receiving, sending
<1>3. DOMAIN chains = (DOMAIN s.chains \ {s.ephemeral}) \union {theirs, fresh}
  BY <1>2
<1>4. \A e \in DOMAIN chains :
        chains[e] = IF e = fresh THEN NewChain("sending", sending)
                    ELSE IF e = theirs THEN NewChain("receiving", receiving)
                    ELSE IF e = s.remote /\ s.chains[e].type = "receiving"
                    THEN ClosedChain(s.chains[e], previous) ELSE s.chains[e]
  BY <1>2
<1> HIDE DEF t, chains
<1>5. /\ t.root = sending /\ t.ephemeral = fresh /\ t.remote = theirs /\ t.previous = old
      /\ t.chains = chains /\ t.pending = s.pending
  BY <1>1 DEF Sessions
<1> QED
  BY <1>3, <1>4, <1>5 DEF t, old, receiving, sending

\* The fields of a session after it has opened a message.
LEMMA ReceivedParts ==
    ASSUME NEW b \in KeyPairs, NEW s, Proper(b, s), NEW m \in Messages, NEW fresh \in KeyPairs
    PROVE  LET f == ForMessage(s, m, fresh)
               t == Received(s, m, fresh)
           IN  /\ t.root = f.root /\ t.ephemeral = f.ephemeral /\ t.remote = f.remote
               /\ t.previous = f.previous /\ t.pending = {}
               /\ f \in Sessions /\ m.ephemeral \in DOMAIN f.chains
               /\ DOMAIN t.chains = DOMAIN f.chains
               /\ t.chains[m.ephemeral] = Taken(f.chains[m.ephemeral], m.counter)
               /\ \A e \in DOMAIN f.chains \ {m.ephemeral} : t.chains[e] = f.chains[e]
<1> DEFINE f == ForMessage(s, m, fresh)
           t == Received(s, m, fresh)
           c == Taken(f.chains[m.ephemeral], m.counter)
           chains == [f.chains EXCEPT ![m.ephemeral] = c]
<1>1. f \in Sessions /\ m.ephemeral \in DOMAIN f.chains
  BY ForMessageProper DEF Proper
<1>2. t = [f EXCEPT !.chains = chains, !.pending = {}]
  BY DEF Received
<1> HIDE DEF f, c
<1>3. f.chains \in [DOMAIN f.chains -> Chains]
  BY <1>1, ChainMapsType DEF Sessions, ChainMaps
<1>4. /\ DOMAIN chains = DOMAIN f.chains /\ chains[m.ephemeral] = c
      /\ \A e \in DOMAIN f.chains \ {m.ephemeral} : chains[e] = f.chains[e]
  BY <1>1, <1>3
<1> HIDE DEF chains, t
<1>5. /\ t.root = f.root /\ t.ephemeral = f.ephemeral /\ t.remote = f.remote
      /\ t.previous = f.previous /\ t.pending = {} /\ t.chains = chains
  BY <1>1, <1>2 DEF Sessions
<1> QED
  BY <1>1, <1>4, <1>5 DEF f, t, c

\* A ratchet step brings no key of the peer's back.
LEMMA ForMessageGone ==
    ASSUME NEW s \in Sessions, Whole(s), NEW m \in Messages, NEW fresh \in KeyPairs,
           NEW p, s.ephemeral[1] = p, fresh[1] = p, m.ephemeral[1] # p
    PROVE  LET f == ForMessage(s, m, fresh)
           IN  /\ Whole(f) /\ f.root.x3dh = s.root.x3dh
               /\ \A l \in Messages : l.ephemeral[1] # p /\ Spent(s, l) => Spent(f, l)
<1> DEFINE f == ForMessage(s, m, fresh)
           Fine(t) == /\ Whole(t) /\ t.root.x3dh = s.root.x3dh
                      /\ \A l \in Messages : l.ephemeral[1] # p /\ Spent(s, l) => Spent(t, l)
<1>1. m.ephemeral \in KeyPairs /\ m.previous \in Nat /\ s.ephemeral \in KeyPairs
  BY DEF Messages, Sessions
<1>2. CASE m.ephemeral \in DOMAIN s.chains
  BY <1>2 DEF ForMessage
<1>3. CASE m.ephemeral \notin DOMAIN s.chains
  <2> DEFINE theirs == m.ephemeral
             t == Ratcheted(s, theirs, m.previous, fresh)
             receiving == Mixed(s.root, Agreed(s.ephemeral, theirs))
             sending == Mixed(receiving, Agreed(fresh, theirs))
  <2>1. f = t
    BY <1>3 DEF ForMessage
  <2>2. /\ t.root = sending
        /\ DOMAIN t.chains = (DOMAIN s.chains \ {s.ephemeral}) \union {theirs, fresh}
        /\ \A e \in DOMAIN t.chains :
              t.chains[e] = IF e = fresh THEN NewChain("sending", sending)
                            ELSE IF e = theirs THEN NewChain("receiving", receiving)
                            ELSE IF e = s.remote /\ s.chains[e].type = "receiving"
                            THEN ClosedChain(s.chains[e], m.previous) ELSE s.chains[e]
    BY <1>1, RatchetedParts
  <2>3. s.root \in RootKeys /\ \A e \in DOMAIN s.chains : s.chains[e] \in Chains
    BY ChainMapsType DEF Sessions
  <2>4. receiving \in RootKeys /\ receiving.x3dh = s.root.x3dh
    BY <1>1, <2>3, MixedType DEF Agreed
  <2>5. sending \in RootKeys /\ sending.x3dh = s.root.x3dh
    BY <1>1, <2>4, MixedType DEF Agreed
  <2> HIDE DEF receiving, sending, t, f
  <2>6. ASSUME NEW e \in DOMAIN s.chains
        PROVE  LET d == ClosedChain(s.chains[e], m.previous)
               IN  /\ \A k \in d.kept : k < d.counter
                   /\ \A k \in Nat : Gone(s.chains[e], k) => Gone(d, k)
                   /\ d.key = s.chains[e].key
    BY <1>1, <2>3, ClosedGone, ClosedChainType DEF Whole
  <2>7. ASSUME NEW e \in DOMAIN t.chains
        PROVE  /\ t.chains[e].key.x3dh = t.root.x3dh
               /\ \A k \in t.chains[e].kept : k < t.chains[e].counter
    <3>1. CASE e = fresh \/ e = theirs
      BY <2>2, <2>4, <2>5, <3>1 DEF NewChain
    <3>2. CASE e # fresh /\ e # theirs
      <4>1. e \in DOMAIN s.chains
        BY <2>2, <3>2
      <4>2. t.chains[e] = ClosedChain(s.chains[e], m.previous) \/ t.chains[e] = s.chains[e]
        BY <2>2, <3>2
      <4>3. /\ s.chains[e].key.x3dh = s.root.x3dh
            /\ \A k \in s.chains[e].kept : k < s.chains[e].counter
        BY <4>1 DEF Whole
      <4>4. t.root.x3dh = s.root.x3dh
        BY <2>2, <2>5
      <4>5. CASE t.chains[e] = s.chains[e]
        BY <4>3, <4>4, <4>5
      <4>6. CASE t.chains[e] = ClosedChain(s.chains[e], m.previous)
        BY <2>6, <4>1, <4>3, <4>4, <4>6
      <4> QED
        BY <4>2, <4>5, <4>6
    <3> QED
      BY <3>1, <3>2
  <2>8. ASSUME NEW l \in Messages, l.ephemeral[1] # p, Spent(s, l) PROVE Spent(t, l)
    <3> DEFINE e == l.ephemeral
    <3>1. e \in DOMAIN s.chains /\ e # s.ephemeral /\ e # fresh /\ e # theirs
      BY <1>3, <2>8 DEF Spent
    <3>2. e \in DOMAIN t.chains
      BY <2>2, <3>1
    <3>3. t.chains[e] = ClosedChain(s.chains[e], m.previous) \/ t.chains[e] = s.chains[e]
      BY <2>2, <3>1, <3>2
    <3>4. l.counter \in Nat
      BY DEF Messages
    <3> QED
      BY <2>6, <2>8, <3>1, <3>2, <3>3, <3>4 DEF Spent
  <2>9. Fine(t)
    BY <2>2, <2>5, <2>7, <2>8 DEF Whole
  <2> QED
    BY <2>1, <2>9 DEF f
<1> QED
  BY <1>2, <1>3

\* Opening a message spends it, and every message spent before stays so.
LEMMA ReceivedGone ==
    ASSUME NEW b \in KeyPairs, NEW s, Proper(b, s), Whole(s), NEW m \in Messages,
           NEW fresh \in KeyPairs, Opens(s, m, fresh),
           NEW p, s.ephemeral[1] = p, fresh[1] = p, m.ephemeral[1] # p
    PROVE  LET t == Received(s, m, fresh)
           IN  /\ Whole(t) /\ t.root.x3dh = s.root.x3dh /\ m.key.x3dh = s.root.x3dh
               /\ Spent(t, m)
               /\ \A l \in Messages : l.ephemeral[1] # p /\ Spent(s, l) => Spent(t, l)
<1> DEFINE f == ForMessage(s, m, fresh)
           t == Received(s, m, fresh)
           c == f.chains[m.ephemeral]
<1>1. s \in Sessions /\ m.counter \in Nat
  BY DEF Proper, Messages
<1>2. /\ Whole(f) /\ f.root.x3dh = s.root.x3dh
      /\ \A l \in Messages : l.ephemeral[1] # p /\ Spent(s, l) => Spent(f, l)
  BY <1>1, ForMessageGone
<1>3. /\ t.root = f.root
      /\ f \in Sessions /\ m.ephemeral \in DOMAIN f.chains
      /\ DOMAIN t.chains = DOMAIN f.chains
      /\ t.chains[m.ephemeral] = Taken(c, m.counter)
      /\ \A e \in DOMAIN f.chains \ {m.ephemeral} : t.chains[e] = f.chains[e]
  BY ReceivedParts
<1>4. HasKey(c, m.counter) /\ c.key = m.key
  BY DEF Opens
<1> HIDE DEF f, t
<1>5. c \in Chains
  BY <1>3, ChainMapsType DEF Sessions
<1>6. c.key.x3dh = f.root.x3dh /\ \A k \in c.kept : k < c.counter
  BY <1>2, <1>3 DEF Whole
<1> DEFINE d == Taken(c, m.counter)
<1>7. /\ Gone(d, m.counter)
      /\ \A k \in d.kept : k < d.counter
      /\ \A k \in Nat : Gone(c, k) => Gone(d, k)
      /\ d.key = c.key
  BY <1>1, <1>4, <1>5, <1>6, TakenGone, TakenType
<1> HIDE DEF d
<1>8. t.chains[m.ephemeral] = d
  BY <1>3 DEF d
<1>9. Whole(t)
  <2> SUFFICES ASSUME NEW e \in DOMAIN t.chains
               PROVE  /\ t.chains[e].key.x3dh = t.root.x3dh
                      /\ \A n \in t.chains[e].kept : n < t.chains[e].counter
    BY DEF Whole
  <2>1. CASE e = m.ephemeral
    BY <1>3, <1>6, <1>7, <1>8, <2>1
  <2>2. CASE e # m.ephemeral
    BY <1>2, <1>3, <2>2 DEF Whole
  <2> QED
    BY <2>1, <2>2
<1>10. Spent(t, m)
  BY <1>3, <1>7, <1>8 DEF Spent
<1>11. ASSUME NEW l \in Messages, l.ephemeral[1] # p, Spent(s, l) PROVE Spent(t, l)
  <2>1. l.ephemeral \in DOMAIN f.chains /\ Gone(f.chains[l.ephemeral], l.counter)
    BY <1>2, <1>11 DEF Spent
  <2>2. l.counter \in Nat
    BY DEF Messages
  <2>3. CASE l.ephemeral = m.ephemeral
    BY <1>3, <1>7, <1>8, <2>1, <2>2, <2>3 DEF Spent
  <2>4. CASE l.ephemeral # m.ephemeral
    BY <1>3, <2>1, <2>4 DEF Spent
  <2> QED
    BY <2>3, <2>4
<1> QED
  BY <1>2, <1>3, <1>4, <1>6, <1>9, <1>10, <1>11 DEF t

\* What a session that differs only in the time of its closing has spent.
LEMMA SpentAsBefore ==
    ASSUME NEW s, NEW t, AsBefore(s, t)
    PROVE  /\ Whole(s) => Whole(t)
           /\ t.root = s.root
           /\ \A m : Spent(s, m) => Spent(t, m)
BY DEF AsBefore, Whole, Spent

\* Sending takes no key of the peer's and gives none back.
LEMMA AdvancedParts ==
    ASSUME NEW s \in Sessions, CanSend(s)
    PROVE  LET t == Advanced(s)
               e == s.ephemeral
           IN  /\ t.root = s.root /\ t.ephemeral = e /\ t.remote = s.remote
               /\ t.previous = s.previous /\ t.pending = s.pending
               /\ DOMAIN t.chains = DOMAIN s.chains
               /\ \A f \in DOMAIN s.chains \ {e} : t.chains[f] = s.chains[f]
               /\ t.chains[e].key = s.chains[e].key /\ t.chains[e].kept = s.chains[e].kept
               /\ t.chains[e].type = s.chains[e].type /\ t.chains[e].live = s.chains[e].live
               /\ t.chains[e].counter = s.chains[e].counter + 1
<1> DEFINE e == s.ephemeral
           n == s.chains[e].counter + 1
           c == [s.chains[e] EXCEPT !.counter = n]
           chains == [s.chains EXCEPT ![e] = c]
           t == Advanced(s)
<1>1. e \in DOMAIN s.chains
  BY DEF CanSend
<1>2. t = [s EXCEPT !.chains = chains]
  BY DEF Advanced
<1>3. s.chains \in [DOMAIN s.chains -> Chains] /\ s.chains[e] \in Chains
  BY <1>1, ChainMapsType DEF Sessions, ChainMaps
<1> HIDE DEF n
<1>4. /\ c.key = s.chains[e].key /\ c.kept = s.chains[e].kept /\ c.type = s.chains[e].type
      /\ c.live = s.chains[e].live /\ c.counter = n
  BY <1>3 DEF Chains
<1> HIDE DEF c
<1>5. DOMAIN chains = DOMAIN s.chains /\ chains[e] = c
      /\ \A f \in DOMAIN s.chains \ {e} : chains[f] = s.chains[f]
  BY <1>1, <1>3
<1> HIDE DEF chains, t
<1>6. /\ t.root = s.root /\ t.ephemeral = e /\ t.remote = s.remote
      /\ t.previous = s.previous /\ t.pending = s.pending /\ t.chains = chains
  BY <1>2 DEF Sessions
<1> QED
  BY <1>4, <1>5, <1>6 DEF t, n

\* ... so every key that was gone in the session stays gone.
LEMMA AdvancedGone ==
    ASSUME NEW s \in Sessions, CanSend(s), Whole(s)
    PROVE  /\ Whole(Advanced(s)) /\ Advanced(s).root = s.root
           /\ \A m \in Messages : Spent(s, m) => Spent(Advanced(s), m)
<1> DEFINE t == Advanced(s)
           e == s.ephemeral
<1>1. /\ t.root = s.root
      /\ DOMAIN t.chains = DOMAIN s.chains
      /\ \A f \in DOMAIN s.chains \ {e} : t.chains[f] = s.chains[f]
      /\ t.chains[e].key = s.chains[e].key /\ t.chains[e].kept = s.chains[e].kept
      /\ t.chains[e].counter = s.chains[e].counter + 1
  BY AdvancedParts
<1> HIDE DEF t
<1>2. \A f \in DOMAIN s.chains : s.chains[f].counter \in Nat /\ s.chains[f].kept \in SUBSET Nat
  BY ChainMapsType DEF Sessions, Chains
<1>3. Whole(t)
  <2> SUFFICES ASSUME NEW f \in DOMAIN s.chains
               PROVE  /\ t.chains[f].key.x3dh = t.root.x3dh
                      /\ \A n \in t.chains[f].kept : n < t.chains[f].counter
    BY <1>1 DEF Whole
  <2>1. CASE f = e
    BY <1>1, <1>2, <2>1 DEF Whole
  <2>2. CASE f # e
    BY <1>1, <2>2 DEF Whole
  <2> QED
    BY <2>1, <2>2
<1>4. ASSUME NEW m \in Messages, Spent(s, m) PROVE Spent(t, m)
  <2>1. m.counter \in Nat
    BY DEF Messages
  <2>2. CASE m.ephemeral = e
    BY <1>1, <1>2, <1>4, <2>1, <2>2 DEF Spent, Gone
  <2>3. CASE m.ephemeral # e
    BY <1>1, <1>4, <2>3 DEF Spent
  <2> QED
    BY <2>2, <2>3
<1> QED
  BY <1>1, <1>3, <1>4 DEF t

\* What p has read, when only session b is not as before.
LEMMA ReadsMoved ==
    ASSUME NEW p \in Parties, NEW b, NEW r, NEW lost, Moved(p, b, r, lost),
           NEW spk, NEW keys, NEW left \in SUBSET keys, NEW seen,
           PartyReads(p, record[p], forgotten[p], spk, keys, seen),
           b \in DOMAIN r =>
              /\ Whole(r[b]) /\ UsedUp(r[b].root.x3dh, spk, left)
              /\ \A m \in seen : m.from # p /\ m.key.x3dh.base = b => Remembers(r, lost, m)
    PROVE  PartyReads(p, r, lost, spk, left, seen)
<1>1. ASSUME NEW k \in DOMAIN r PROVE Whole(r[k]) /\ UsedUp(r[k].root.x3dh, spk, left)
  <2>1. CASE k = b
    BY <2>1
  <2>2. CASE k # b
    <3>1. k \in DOMAIN record[p] /\ AsBefore(record[p][k], r[k])
      BY <2>2 DEF Moved
    <3>2. Whole(record[p][k]) /\ UsedUp(record[p][k].root.x3dh, spk, keys)
      BY <3>1 DEF PartyReads
    <3> QED
      BY <3>1, <3>2, SpentAsBefore DEF UsedUp
  <2> QED
    BY <2>1, <2>2
<1>2. ASSUME NEW m \in seen, m.from # p
      PROVE  UsedUp(m.key.x3dh, spk, left) /\ Remembers(r, lost, m)
  <2> DEFINE k == m.key.x3dh.base
  <2>1. UsedUp(m.key.x3dh, spk, keys) /\ Remembers(record[p], forgotten[p], m)
    BY <1>2 DEF PartyReads
  <2>2. UsedUp(m.key.x3dh, spk, left)
    BY <2>1 DEF UsedUp
  <2>3. k \in DOMAIN r \union lost
    BY <2>1 DEF Remembers, Moved
  <2>4. CASE k \notin DOMAIN r
    BY <2>2, <2>3, <2>4 DEF Remembers
  <2>5. CASE k \in DOMAIN r /\ k = b
    BY <1>2, <2>2, <2>5
  <2>6. CASE k \in DOMAIN r /\ k # b
    <3>1. k \in DOMAIN record[p] /\ AsBefore(record[p][k], r[k]) /\ forgotten[p] \subseteq lost
      BY <2>6 DEF Moved
    <3>2. r[k].root = record[p][k].root /\ (Spent(record[p][k], m) => Spent(r[k], m))
      BY <3>1, SpentAsBefore
    <3> QED
      BY <2>1, <2>2, <2>3, <3>1, <3>2 DEF Remembers
  <2> QED
    BY <2>4, <2>5, <2>6
<1> QED
  BY <1>1, <1>2 DEF PartyReads

\* What exists goes on to exist.
LEMMA KnownLater ==
    ASSUME NEW x \in X3DHs, NEW made \in [Parties -> Nat], NEW installed \in [Parties -> Nat],
           NEW later \in [Parties -> Nat], NEW next \in [Parties -> Nat],
           \A p \in Parties : made[p] <= later[p] /\ installed[p] <= next[p],
           Known(x, made, installed)
    PROVE  Known(x, later, next)
<1>1. x.base[1] \in Parties
  BY DEF X3DHs, KeyPairs
<1>2. OwnEphemeral(x.base[1], x.base, later[x.base[1]])
  <2>1. made[x.base[1]] \in Nat /\ later[x.base[1]] \in Nat /\ made[x.base[1]] <= later[x.base[1]]
    BY <1>1
  <2> QED
    BY <2>1 DEF Known, OwnEphemeral
<1>3. ASSUME NEW p \in Parties, NEW i \in Nat, i > next[p]
      PROVE  x.signedPreKey # <<p, "signed", i>>
  <2>1. installed[p] \in Nat /\ next[p] \in Nat /\ installed[p] <= next[p]
    OBVIOUS
  <2>2. i > installed[p]
    BY <1>3, <2>1
  <2> QED
    BY <2>2 DEF Known
<1> QED
  BY <1>2, <1>3 DEF Known

\* The X3DH secrets of sessions and messages are of their type.
LEMMA SecretsType ==
    ASSUME SessionInv
    PROVE  /\ \A p \in Parties : \A b \in DOMAIN record[p] :
                 Proper(b, record[p][b]) /\ record[p][b].root.x3dh \in X3DHs
           /\ \A m \in network : m \in Messages /\ m.from \in Parties /\ m.key.x3dh \in X3DHs
<1>1. ASSUME NEW p \in Parties, NEW b \in DOMAIN record[p]
      PROVE  Proper(b, record[p][b]) /\ record[p][b].root.x3dh \in X3DHs
  <2>1. Proper(b, record[p][b])
    BY DEF SessionInv, RecordsGood, Good
  <2> QED
    BY <2>1 DEF Proper, Sessions, RootKeys
<1>2. \A m \in network : m \in Messages /\ m.from \in Parties /\ m.key.x3dh \in X3DHs
  BY DEF SessionInv, NetworkGood, Messages, RootKeys
<1> QED
  BY <1>1, <1>2

\* A step by which no key pair and no installation is lost keeps KeysKnown, if
\* the session it is about and the message it sends are made from such keys.
LEMMA KnownMoved ==
    ASSUME SessionInv, OthersGood', KeysKnown, NEW p \in Parties, NEW b, NEW r, NEW lost,
           Moved(p, b, r, lost),
           \A q \in Parties : generated[q] <= generated'[q] /\ installation[q] <= installation'[q],
           b \in DOMAIN r => Known(r[b].root.x3dh, generated', installation'),
           \A m \in network' : m \in network \/ Known(m.key.x3dh, generated', installation')
    PROVE  KeysKnown'
<1>1. /\ generated \in [Parties -> Nat] /\ installation \in [Parties -> Nat]
      /\ generated' \in [Parties -> Nat] /\ installation' \in [Parties -> Nat]
      /\ record \in [Parties -> Records]
  BY DEF SessionInv, OthersGood, RecordsGood
<1>2. \A x \in X3DHs : Known(x, generated, installation) => Known(x, generated', installation')
  <2> SUFFICES ASSUME NEW x \in X3DHs, Known(x, generated, installation)
               PROVE  Known(x, generated', installation')
    OBVIOUS
  <2>1. PICK made, installed, later, next :
          made = generated /\ installed = installation /\ later = generated' /\ next = installation'
    OBVIOUS
  <2>2. Known(x, later, next)
    BY <1>1, <2>1, KnownLater
  <2> QED
    BY <2>1, <2>2
<1>3. ASSUME NEW q \in Parties, NEW k \in DOMAIN record'[q]
      PROVE  Known(record'[q][k].root.x3dh, generated', installation')
  <2>1. CASE q # p
    BY <1>1, <1>2, <2>1, SecretsType DEF KeysKnown, Moved
  <2>2. CASE q = p /\ k = b
    BY <1>1, <2>2 DEF Moved
  <2>3. CASE q = p /\ k # b
    <3>1. record'[q] = r
      BY <1>1, <2>3 DEF Moved
    <3>2. k \in DOMAIN record[p] /\ r[k].root = record[p][k].root
      BY <2>3, <3>1 DEF Moved, AsBefore
    <3> QED
      BY <1>2, <3>1, <3>2, SecretsType DEF KeysKnown
  <2> QED
    BY <2>1, <2>2, <2>3
<1>4. \A m \in network' : Known(m.key.x3dh, generated', installation')
  BY <1>2, SecretsType DEF KeysKnown
<1> QED
  BY <1>3, <1>4 DEF KeysKnown

\* What a step has to show: only what the party that takes it has read.
LEMMA ReadingMoved ==
    ASSUME SessionInv, NetworkGood', ReadingInv, KeysKnown', NEW p \in Parties,
           NEW b, NEW r, NEW lost, Moved(p, b, r, lost),
           PartyReads(p, r, lost, SignedPreKey(p)', preKeys'[p], read'),
           \A q \in Parties \ {p} :
              installation'[q] = installation[q] /\ preKeys'[q] = preKeys[q],
           \A m \in read' : m \in read \/ m.from # p
    PROVE  ReadingInv'
<1>1. record \in [Parties -> Records] /\ forgotten \in [Parties -> SUBSET KeyPairs]
  BY DEF SessionInv, RecordsGood, OthersGood
<1>2. ASSUME NEW q \in Parties
      PROVE  PartyReads(q, record'[q], forgotten'[q], SignedPreKey(q)', preKeys'[q], read')
  <2>1. CASE q = p
    BY <1>1, <2>1 DEF Moved
  <2>2. CASE q # p
    <3>1. /\ record'[q] = record[q] /\ forgotten'[q] = forgotten[q] /\ preKeys'[q] = preKeys[q]
          /\ SignedPreKey(q)' = SignedPreKey(q)
      BY <1>1, <2>2 DEF Moved, SignedPreKey
    <3>2. PartyReads(q, record[q], forgotten[q], SignedPreKey(q), preKeys[q], read)
      BY DEF ReadingInv
    <3>3. \A m \in read' : m.from # q => m \in read
      <4>1. \A m \in read' : m.from \in Parties
        BY DEF NetworkGood, Messages
      <4> QED
        BY <2>2, <4>1, PartiesAssumption
    <3> QED
      BY <3>1, <3>2, <3>3 DEF PartyReads
  <2> QED
    BY <2>1, <2>2
<1> QED
  BY <1>2 DEF ReadingInv

\* A session just begun as initiator.
LEMMA OutgoingWhole ==
    ASSUME NEW base \in KeyPairs, NEW spk \in KeyPairs, NEW k \in SUBSET PreKeyIds,
           NEW fresh \in KeyPairs
    PROVE  LET s == Outgoing(base, spk, k, fresh)
           IN  Whole(s) /\ s.root.x3dh = X3DH(base, spk, k)
<1> DEFINE x == X3DH(base, spk, k)
           key == Mixed(RootKey(x), Agreed(fresh, spk))
           s == Outgoing(base, spk, k, fresh)
<1>1. RootKey(x) \in RootKeys /\ RootKey(x).x3dh = x
  BY DEF RootKeys, X3DHs, X3DH, RootKey
<1>2. key.x3dh = x
  BY <1>1, MixedType DEF Agreed
<1> HIDE DEF key
<1>3. /\ s.root = key /\ DOMAIN s.chains = {fresh}
      /\ s.chains[fresh].key = key /\ s.chains[fresh].kept = {}
  BY DEF Outgoing, NewChain, key
<1> HIDE DEF s
<1>4. Whole(s)
  BY <1>3 DEF Whole
<1> QED
  BY <1>2, <1>3, <1>4 DEF s

\* Establishing begins a session nobody has sent in.
LEMMA EstablishReads ==
    ASSUME SessionInv, SessionInv', ReadingInv, NEW p \in Parties, Establish(p)
    PROVE  ReadingInv'
<1> DEFINE base == Fresh(p, 1)
           q == Peer(p)
           n == generated[p]
<1>1. PICK k \in SUBSET PreKeyIds :
        \E r, lost :
           /\ Moved(p, base, r, lost) /\ base \in DOMAIN r
           /\ r[base] = Outgoing(base, SignedPreKey(q), k, Fresh(p, 2))
  BY EstablishMoves
<1>2. PICK r, lost :
           /\ Moved(p, base, r, lost) /\ base \in DOMAIN r
           /\ r[base] = Outgoing(base, SignedPreKey(q), k, Fresh(p, 2))
  BY <1>1
<1>3. /\ generated \in [Parties -> Nat] /\ installation \in [Parties -> Nat] /\ n \in Nat
      /\ read \subseteq network
  BY DEF SessionInv, OthersGood, NetworkGood
<1>4. /\ generated' = [generated EXCEPT ![p] = n + 2]
      /\ UNCHANGED <<preKeys, installation, network, read>>
  BY DEF Establish
<1>5. q \in Parties /\ q # p /\ base \in KeyPairs /\ Fresh(p, 2) \in KeyPairs
  BY KeysType, PartiesAssumption DEF SessionInv, Peer
<1>6. SignedPreKey(q) \in KeyPairs
  BY <1>5, KeysType DEF SessionInv
<1>7. Whole(r[base]) /\ r[base].root.x3dh = X3DH(base, SignedPreKey(q), k)
  <2>1. \A c, spk, f \in KeyPairs :
          /\ Whole(Outgoing(c, spk, k, f))
          /\ Outgoing(c, spk, k, f).root.x3dh = X3DH(c, spk, k)
    BY OutgoingWhole
  <2> QED
    BY <1>2, <1>5, <1>6, <2>1
<1>8. base = <<p, "ephemeral", n + 1>>
  BY DEF Fresh
<1> HIDE DEF q, n
<1>9. UsedUp(r[base].root.x3dh, SignedPreKey(p), preKeys[p])
  BY <1>5, <1>7 DEF UsedUp, X3DH, SignedPreKey
<1>10. \A m \in network : m.key.x3dh.base # base
  <2> SUFFICES ASSUME NEW m \in network, m.key.x3dh.base = base PROVE FALSE
    OBVIOUS
  <2>1. Known(m.key.x3dh, generated, installation)
    BY DEF ReadingInv, KeysKnown
  <2>2. OwnEphemeral(p, base, n)
    BY <1>8, <2>1 DEF Known, n
  <2> QED
    BY <1>3, <1>8, <2>2 DEF OwnEphemeral
<1>11. Known(r[base].root.x3dh, generated', installation')
  <2>1. generated'[p] = n + 2 /\ installation' = installation
    BY <1>3, <1>4
  <2>2. OwnEphemeral(p, base, n + 2)
    BY <1>3, <1>8 DEF OwnEphemeral
  <2>3. \A a \in Parties : \A i \in Nat : i > installation[a] => SignedPreKey(q) # <<a, "signed", i>>
    BY <1>3, <1>5 DEF SignedPreKey
  <2>4. base[1] = p
    BY <1>8
  <2> QED
    BY <1>7, <2>1, <2>2, <2>3, <2>4 DEF Known, X3DH
<1> HIDE DEF base
<1>12. PartyReads(p, r, lost, SignedPreKey(p), preKeys[p], read)
  <2>1. PartyReads(p, record[p], forgotten[p], SignedPreKey(p), preKeys[p], read)
    BY DEF ReadingInv
  <2>2. \A m \in read : m.key.x3dh.base # base
    BY <1>3, <1>10
  <2>3. preKeys[p] \in SUBSET preKeys[p]
    OBVIOUS
  <2> QED
    BY <1>2, <1>7, <1>9, <2>1, <2>2, <2>3, ReadsMoved
<1>13. \A a \in Parties : generated[a] <= generated'[a] /\ installation[a] <= installation'[a]
  BY <1>3, <1>4 DEF n
<1>14. KeysKnown'
  BY <1>2, <1>4, <1>11, <1>13, KnownMoved DEF SessionInv, ReadingInv
<1>15. SignedPreKey(p)' = SignedPreKey(p)
  BY <1>4 DEF SignedPreKey
<1> QED
  BY <1>2, <1>4, <1>12, <1>14, <1>15, ReadingMoved DEF SessionInv

\* Encrypting takes the next key of one's own chain.
LEMMA EncryptReads ==
    ASSUME SessionInv, SessionInv', ReadingInv, NEW p \in Parties, Encrypt(p)
    PROVE  ReadingInv'
<1>1. PICK b \in DOMAIN record[p] :
        \E r : /\ Moved(p, b, r, forgotten[p])
               /\ DOMAIN r = DOMAIN record[p]
               /\ r[b] = Advanced(record[p][b])
               /\ CanSend(record[p][b])
               /\ network' = network \union {Message(p, record[p][b])}
  BY EncryptMoves
<1>2. PICK r, s, lost :
        /\ Moved(p, b, r, lost) /\ lost = forgotten[p]
        /\ s = record[p][b]
        /\ DOMAIN r = DOMAIN record[p]
        /\ r[b] = Advanced(s)
        /\ CanSend(s)
        /\ network' = network \union {Message(p, s)}
  BY <1>1
<1>3. UNCHANGED <<preKeys, installation, generated, read>>
  BY DEF Encrypt
<1>4. /\ generated \in [Parties -> Nat] /\ installation \in [Parties -> Nat]
      /\ read \subseteq network /\ network \subseteq Messages
  BY DEF SessionInv, OthersGood, NetworkGood
<1>5. s \in Sessions /\ s.root.x3dh.base = b
  BY <1>2, SecretsType DEF Proper, Linked
<1>6. PartyReads(p, record[p], forgotten[p], SignedPreKey(p), preKeys[p], read)
  BY DEF ReadingInv
<1>7. Whole(s) /\ UsedUp(s.root.x3dh, SignedPreKey(p), preKeys[p])
  BY <1>2, <1>6 DEF PartyReads
<1>8. /\ Whole(r[b]) /\ r[b].root = s.root
      /\ \A m \in Messages : Spent(s, m) => Spent(r[b], m)
  BY <1>2, <1>5, <1>7, AdvancedGone
<1>9. ASSUME NEW m \in read, m.from # p, m.key.x3dh.base = b PROVE Remembers(r, lost, m)
  <2>1. Remembers(record[p], forgotten[p], m)
    BY <1>6, <1>9 DEF PartyReads
  <2>2. m \in Messages
    BY <1>4
  <2>3. DOMAIN r = DOMAIN record[p] /\ lost = forgotten[p] /\ s = record[p][b]
    BY <1>2
  <2> QED
    BY ONLY <1>8, <1>9, <2>1, <2>2, <2>3 DEF Remembers
<1>10. PartyReads(p, r, lost, SignedPreKey(p), preKeys[p], read)
  <2>1. preKeys[p] \in SUBSET preKeys[p]
    OBVIOUS
  <2> QED
    BY <1>2, <1>6, <1>7, <1>8, <1>9, <2>1, ReadsMoved
<1>11. Known(s.root.x3dh, generated, installation)
  BY <1>2 DEF ReadingInv, KeysKnown
<1>12. \A m \in network' : m \in network \/ Known(m.key.x3dh, generated', installation')
  <2>1. Message(p, s).key = s.chains[s.ephemeral].key
    BY DEF Message
  <2>2. Message(p, s).key.x3dh = s.root.x3dh
    BY <1>2, <1>7, <2>1 DEF CanSend, Whole
  <2> QED
    BY <1>2, <1>3, <1>11, <2>2
<1>13. \A a \in Parties : generated[a] <= generated'[a] /\ installation[a] <= installation'[a]
  BY <1>3, <1>4
<1>14. KeysKnown'
  <2>1. Known(r[b].root.x3dh, generated', installation')
    BY <1>3, <1>8, <1>11
  <2> QED
    BY <1>2, <1>12, <1>13, <2>1, KnownMoved DEF SessionInv, ReadingInv
<1>15. SignedPreKey(p)' = SignedPreKey(p)
  BY <1>3 DEF SignedPreKey
<1> QED
  BY <1>2, <1>3, <1>10, <1>14, <1>15, ReadingMoved DEF SessionInv

\* Forgetting sessions, all or none, forgets nothing that was read; a new
\* installation has another signed pre-key.
LEMMA ForgetReads ==
    ASSUME SessionInv, SessionInv', ReadingInv, NEW p \in Parties,
           NEW r, Save(p, r), r \in {record[p], EmptyRecord},
           network' = network, read' = read, generated' = generated,
           \/ installation' = installation /\ preKeys' = preKeys
           \/ /\ installation' = [installation EXCEPT ![p] = @ + 1] /\ r = EmptyRecord
              /\ \A q \in Parties \ {p} : preKeys'[q] = preKeys[q]
    PROVE  ReadingInv'
<1>1. PICK lost : \A b : Moved(p, b, r, lost)
  BY ForgetMoves
<1>2. /\ generated \in [Parties -> Nat] /\ installation \in [Parties -> Nat]
      /\ read \subseteq network
  BY DEF SessionInv, OthersGood, NetworkGood
<1>3. PICK b : b \notin DOMAIN r
  <2>1. DOMAIN r \subseteq KeyPairs
    BY EmptyRecordType, RecordsType DEF SessionInv, RecordsGood, Good
  <2>2. <<p, "none", 0>> \notin KeyPairs
    BY DEF KeyPairs
  <2> QED
    BY <2>1, <2>2
<1>4. PartyReads(p, record[p], forgotten[p], SignedPreKey(p), preKeys[p], read)
  BY DEF ReadingInv
<1>5. PartyReads(p, r, lost, SignedPreKey(p), preKeys[p], read)
  <2>1. preKeys[p] \in SUBSET preKeys[p]
    OBVIOUS
  <2> QED
    BY <1>1, <1>3, <1>4, <2>1, ReadsMoved
<1>6. PartyReads(p, r, lost, SignedPreKey(p)', preKeys'[p], read')
  <2>1. CASE installation' = installation /\ preKeys' = preKeys
    BY <1>5, <2>1 DEF SignedPreKey
  <2>2. CASE installation' = [installation EXCEPT ![p] = @ + 1] /\ r = EmptyRecord
    <3>1. SignedPreKey(p)' = <<p, "signed", installation[p] + 1>>
      BY <1>2, <2>2 DEF SignedPreKey
    <3>2. installation[p] \in Nat /\ installation[p] + 1 \in Nat /\ installation[p] + 1 > installation[p]
      BY <1>2
    <3>3. \A m \in network : m.key.x3dh.signedPreKey # SignedPreKey(p)'
      BY <3>1, <3>2 DEF ReadingInv, KeysKnown, Known
    <3> QED
      BY <1>2, <1>5, <2>2, <3>3, EmptyRecordType DEF PartyReads, UsedUp
  <2> QED
    BY <2>1, <2>2
<1>7. \A a \in Parties : generated[a] <= generated'[a] /\ installation[a] <= installation'[a]
  BY <1>2
<1>8. KeysKnown'
  BY <1>1, <1>3, <1>7, KnownMoved DEF SessionInv, ReadingInv
<1>9. \A q \in Parties \ {p} : installation'[q] = installation[q] /\ preKeys'[q] = preKeys[q]
  BY <1>2
<1>10. PICK c : c = b
  OBVIOUS
<1> QED
  BY <1>1, <1>6, <1>8, <1>9, ReadingMoved DEF SessionInv

\* A session begun for a message has no keys yet.
LEMMA IncomingParts ==
    \A base, spk, k :
        LET s == Incoming(base, spk, k)
        IN  /\ s.root = RootKey(X3DH(base, spk, k)) /\ s.root.x3dh = X3DH(base, spk, k)
            /\ s.ephemeral = spk /\ s.remote = base /\ DOMAIN s.chains = {}
            /\ s.previous = 0 /\ s.pending = {}
BY EmptyRecordType DEF Incoming, RootKey

\* Reading uses up the key, and what the session was set up with.
LEMMA DecryptReads ==
    ASSUME SessionInv, SessionInv', KeysInv, ReadingInv, NEW p \in Parties, NEW m \in network,
           m.from # p, Decrypt(p, m),
           UNCHANGED <<installation, network>>
    PROVE  ReadingInv'
<1> DEFINE b == m.key.x3dh.base
           x == m.key.x3dh
           fresh == Fresh(p, 1)
           spk == SignedPreKey(p)
           left == preKeys[p] \ UsedPreKeys(p, m)
<1>1. PICK s, r, lost :
        /\ Moved(p, b, r, lost)
        /\ b \in DOMAIN r /\ r[b] = Received(s, m, fresh)
        /\ Proper(b, s) /\ s.ephemeral[1] = p /\ Opens(s, m, fresh)
        /\ Continued(p, b, s, lost) \/ Begun(p, m, b, s, lost)
  BY DecryptMoves
<1>2. /\ generated \in [Parties -> Nat] /\ installation \in [Parties -> Nat]
      /\ preKeys \in [Parties -> SUBSET PreKeyIds]
      /\ read \subseteq network /\ network \subseteq Messages /\ m \in Messages
  BY DEF SessionInv, OthersGood, NetworkGood
<1>3. /\ preKeys' = [preKeys EXCEPT ![p] = left] /\ read' = read \union {m}
  BY DEF Decrypt
<1>4. generated'[p] \in Nat /\ \A q \in Parties : generated[q] <= generated'[q]
  <2> DEFINE ratcheted == LET q == Decrypted(WithSession(p, m), m, fresh)
                          IN  \E k \in DOMAIN q : q[k].ephemeral = fresh
  <2>1. generated' = [generated EXCEPT ![p] = IF ratcheted THEN @ + 1 ELSE @]
    BY DEF Decrypt
  <2> HIDE DEF ratcheted
  <2> QED
    BY <1>2, <2>1
<1>5. fresh \in KeyPairs /\ fresh[1] = p /\ b \in KeyPairs /\ x \in X3DHs
  BY <1>2, KeysType DEF SessionInv, Fresh, Messages, RootKeys, X3DHs
<1>6. m.ephemeral[1] # p /\ \A l \in network : l.ephemeral[1] = l.from
  BY AllOwn
<1>7. PartyReads(p, record[p], forgotten[p], spk, preKeys[p], read)
  BY DEF ReadingInv
<1>8. Whole(s) /\ UsedUp(s.root.x3dh, spk, left)
  <2>1. CASE Continued(p, b, s, lost)
    <3>1. Whole(record[p][b]) /\ UsedUp(record[p][b].root.x3dh, spk, preKeys[p])
      BY <1>7, <2>1 DEF Continued, PartyReads
    <3>2. Whole(s) /\ s.root = record[p][b].root
      BY <2>1, <3>1, SpentAsBefore DEF Continued
    <3>3. left \subseteq preKeys[p]
      OBVIOUS
    <3> QED
      BY ONLY <3>1, <3>2, <3>3 DEF UsedUp
  <2>2. CASE Begun(p, m, b, s, lost)
    <3>1. PICK h \in m.hello : /\ h.base = b /\ b \notin DOMAIN Prepared(p, m)
                               /\ s = Incoming(b, spk, Loaded(p, h))
      BY <2>2 DEF Begun
    <3>2. s.root.x3dh.preKey = Loaded(p, h) /\ DOMAIN s.chains = {}
      <4>1. s.root.x3dh = X3DH(b, spk, Loaded(p, h)) /\ DOMAIN s.chains = {}
        BY <3>1, IncomingParts
      <4> QED
        BY <4>1 DEF X3DH
    <3>3. Loaded(p, h) \subseteq UsedPreKeys(p, m)
      BY <3>1 DEF Loaded, UsedPreKeys
    <3> QED
      BY <3>2, <3>3 DEF Whole, UsedUp
  <2> QED
    BY <1>1, <2>1, <2>2
<1> DEFINE t == Received(s, m, fresh)
<1>9. /\ Whole(t) /\ t.root.x3dh = s.root.x3dh /\ x = s.root.x3dh
      /\ Spent(t, m)
      /\ \A l \in Messages : l.ephemeral[1] # p /\ Spent(s, l) => Spent(t, l)
  BY <1>1, <1>2, <1>5, <1>6, <1>8, ReceivedGone
<1> HIDE DEF b, x, fresh, spk, left, t
<1>10. r[b] = t
  BY <1>1 DEF t
<1>11. ASSUME NEW l \in read, l.from # p, l.key.x3dh.base = b PROVE Remembers(r, lost, l)
  <2>1. UsedUp(l.key.x3dh, spk, preKeys[p]) /\ Remembers(record[p], forgotten[p], l)
    BY <1>7, <1>11 DEF PartyReads
  <2>2. l \in Messages /\ l.ephemeral[1] # p
    BY <1>2, <1>6, <1>11
  <2>3. ASSUME t.root.x3dh = l.key.x3dh, l.key.x3dh.preKey = {} => b \notin lost
        PROVE  Spent(t, l)
    <3>1. CASE Continued(p, b, s, lost)
      <4>1. b \in DOMAIN record[p] /\ record[p][b].root.x3dh = l.key.x3dh
            /\ (l.key.x3dh.preKey = {} => b \notin forgotten[p])
        BY <1>1, <1>9, <2>3, <3>1 DEF Continued, AsBefore, Moved
      <4>2. Spent(record[p][b], l)
        BY <1>11, <2>1, <4>1 DEF Remembers
      <4>3. Spent(s, l)
        BY <3>1, <4>2, SpentAsBefore DEF Continued
      <4> QED
        BY <1>9, <2>2, <4>3
    <3>2. CASE Begun(p, m, b, s, lost)
      <4>1. PICK h \in m.hello : s = Incoming(b, spk, Loaded(p, h))
        BY <3>2 DEF Begun, spk
      <4>2. s.root.x3dh.signedPreKey = spk /\ s.root.x3dh.preKey = Loaded(p, h)
        <5>1. s.root.x3dh = X3DH(b, spk, Loaded(p, h))
          BY <4>1, IncomingParts
        <5> QED
          BY <5>1 DEF X3DH
      <4>3. l.key.x3dh.preKey = {}
        BY <1>9, <2>1, <2>3, <4>2 DEF UsedUp, Loaded
      <4>4. b \in lost
        BY <1>1, <1>11, <2>1, <3>2 DEF Remembers, Begun, Moved
      <4> QED
        BY <2>3, <4>3, <4>4
    <3> QED
      BY <1>1, <3>1, <3>2
  <2> QED
    BY <1>1, <1>10, <1>11, <2>3 DEF Remembers
<1>12. PartyReads(p, r, lost, spk, left, read)
  <2>1. left \in SUBSET preKeys[p]
    BY DEF left
  <2> QED
    BY <1>1, <1>7, <1>8, <1>9, <1>10, <1>11, <2>1, ReadsMoved
<1>13. UsedUp(m.key.x3dh, spk, left) /\ Remembers(r, lost, m)
  BY <1>1, <1>8, <1>9, <1>10 DEF Remembers, b, x
<1>14. PartyReads(p, r, lost, spk, left, read \union {m})
  BY <1>12, <1>13 DEF PartyReads
<1>15. KeysKnown'
  <2>1. Known(x, generated, installation)
    BY DEF ReadingInv, KeysKnown, x
  <2>2. /\ generated' \in [Parties -> Nat] /\ installation' = installation
    BY DEF SessionInv, OthersGood
  <2>3. PICK made, later, next : made = generated /\ later = generated' /\ next = installation
    OBVIOUS
  <2>4. \A q \in Parties : made[q] <= later[q] /\ next[q] <= next[q]
    BY <1>2, <1>4, <2>3
  <2>5. Known(x, later, next)
    BY <1>2, <1>5, <2>1, <2>2, <2>3, <2>4, KnownLater
  <2>6. Known(r[b].root.x3dh, generated', installation')
    BY <1>9, <1>10, <2>2, <2>3, <2>5
  <2>7. \A q \in Parties : installation[q] <= installation'[q]
    BY <1>2
  <2> QED
    BY <1>1, <1>4, <2>6, <2>7, KnownMoved DEF SessionInv, ReadingInv
<1>16. SignedPreKey(p)' = spk /\ preKeys'[p] = left
  BY <1>2, <1>3 DEF SignedPreKey, spk
<1>17. PartyReads(p, r, lost, SignedPreKey(p)', preKeys'[p], read')
  BY <1>3, <1>14, <1>16
<1>18. \A q \in Parties \ {p} : installation'[q] = installation[q] /\ preKeys'[q] = preKeys[q]
  BY <1>2, <1>3
<1>19. \A l \in read' : l \in read \/ l.from # p
  BY <1>3
<1> QED
  BY <1>1, <1>15, <1>17, <1>18, <1>19, ReadingMoved DEF SessionInv

\* The same whether a message is read or refused.
LEMMA ReceiveReads ==
    ASSUME SessionInv, SessionInv', KeysInv, ReadingInv, NEW p \in Parties, NEW m \in network,
           Receive(p, m)
    PROVE  ReadingInv'
<1>1. m.from # p /\ UNCHANGED <<installation, network>>
  BY DEF Receive
<1>2. CASE Decrypt(p, m)
  BY <1>1, <1>2, DecryptReads
<1>3. CASE Refuse(p, m)
  <2>1. Save(p, Prepared(p, m)) /\ UNCHANGED <<preKeys, generated, read>>
    BY <1>3 DEF Refuse
  <2>2. PICK r : r = Prepared(p, m) /\ r \in {record[p], EmptyRecord}
    BY DEF Prepared
  <2> QED
    BY <1>1, <2>1, <2>2, ForgetReads
<1> QED
  BY <1>2, <1>3 DEF Receive

\* The invariant behind ReadOnce: what became of every message's session and
\* key at the party that read it.
THEOREM ReadKeysAreGone == Spec => []ReadingInv
<1>1. Init => ReadingInv
  BY EmptyRecordType DEF Init, ReadingInv, PartyReads, KeysKnown
<1>2. SessionInv /\ SessionInv' /\ KeysInv /\ ReadingInv /\ [Next]_vars => ReadingInv'
  <2> SUFFICES ASSUME SessionInv, SessionInv', KeysInv, ReadingInv, [Next]_vars
               PROVE  ReadingInv'
    OBVIOUS
  <2>1. CASE Next
    <3>1. PICK p \in Parties :
            \/ Establish(p) \/ Encrypt(p) \/ Delete(p) \/ Reinstall(p)
            \/ \E m \in network : Receive(p, m)
      BY <2>1 DEF Next
    <3>2. PICK r : r = EmptyRecord
      OBVIOUS
    <3>3. CASE Delete(p)
      BY <3>3, ForgetReads DEF Delete
    <3>4. CASE Reinstall(p)
      <4>1. \A q \in Parties \ {p} : preKeys'[q] = preKeys[q]
        BY <3>4 DEF Reinstall, SessionInv, OthersGood
      <4>2. /\ Save(p, r) /\ network' = network /\ read' = read /\ generated' = generated
            /\ installation' = [installation EXCEPT ![p] = @ + 1]
        BY <3>2, <3>4 DEF Reinstall
      <4> QED
        BY <3>2, <4>1, <4>2, ForgetReads
    <3> QED
      BY <3>1, <3>3, <3>4, EstablishReads, EncryptReads, ReceiveReads
  <2>2. CASE UNCHANGED vars
    BY <2>2 DEF vars, ReadingInv, KeysKnown, SignedPreKey
  <2> QED
    BY <2>1, <2>2
<1> QED
  BY <1>1, <1>2, SessionsWellFormed, KeysStayOwn, PTL DEF Spec

\* A message is read once, however often it comes, whatever sessions were closed,
\* deleted, lost with an installation or set up again meanwhile.
THEOREM OpenedOnce == Spec => []ReadOnce
<1>1. SessionInv /\ KeysInv /\ ReadingInv => ReadOnce
  <2> SUFFICES ASSUME SessionInv, KeysInv, ReadingInv, NEW p \in Parties, NEW m \in read,
                      m.from # p,
                      m.key.x3dh.preKey = {} =>
                         m.key.x3dh.base \notin forgotten[p] /\ Familiar(p, m),
                      Readable(p, m)
               PROVE  FALSE
    BY DEF ReadOnce
  <2> DEFINE w == WithSession(p, m)
             fresh == Fresh(p, 1)
             x == m.key.x3dh
             b == m.key.x3dh.base
  <2>1. m \in network /\ m \in Messages /\ fresh \in KeyPairs
    BY KeysType DEF SessionInv, NetworkGood
  <2>2. /\ w \in Records
        /\ \A k \in DOMAIN w : Proper(k, w[k]) /\ w[k].ephemeral[1] = p
        /\ \A k \in DOMAIN w :
              \/ k \in DOMAIN Prepared(p, m) /\ AsBefore(record[p][k], w[k])
              \/ /\ k = b
                 /\ \E h \in m.hello : /\ h.base = k /\ k \notin DOMAIN Prepared(p, m)
                                       /\ w[k] = Incoming(k, SignedPreKey(p), Loaded(p, h))
    BY <2>1, TriedSessions
  <2>3. PICK k : k \in Openers(w, m, fresh)
    BY DEF Readable
  <2> HIDE DEF w, fresh
  <2>4. b \in DOMAIN w /\ Opens(w[b], m, fresh)
    <3>1. k \in DOMAIN w /\ b = k
      BY <2>1, <2>2, <2>3, OpenersOwn
    <3> QED
      BY <2>3, <3>1 DEF Openers
  <2>5. PartyReads(p, record[p], forgotten[p], SignedPreKey(p), preKeys[p], read)
    BY DEF ReadingInv
  <2>6. UsedUp(x, SignedPreKey(p), preKeys[p]) /\ Remembers(record[p], forgotten[p], m)
    BY <2>5 DEF PartyReads
  <2>7. DOMAIN Prepared(p, m) \subseteq DOMAIN record[p]
    BY EmptyRecordType DEF Prepared
  <2>8. m.ephemeral[1] # p /\ fresh[1] = p /\ b \in KeyPairs
    BY <2>1, AllOwn DEF fresh, Fresh, Messages, RootKeys, X3DHs
  <2>9. CASE b \in DOMAIN Prepared(p, m) /\ AsBefore(record[p][b], w[b])
    <3>1. Whole(record[p][b])
      BY <2>5, <2>7, <2>9 DEF PartyReads
    <3>2. Whole(w[b]) /\ w[b].root = record[p][b].root
      BY <2>9, <3>1, SpentAsBefore
    <3>3. x = w[b].root.x3dh
      BY <2>1, <2>2, <2>4, <2>8, <3>2, ReceivedGone
    <3>4. Spent(record[p][b], m)
      BY <2>6, <2>7, <2>9, <3>2, <3>3 DEF Remembers
    <3>5. /\ m.ephemeral \in DOMAIN w[b].chains
          /\ Gone(w[b].chains[m.ephemeral], m.counter)
      BY <2>9, <3>4 DEF AsBefore, Spent
    <3>6. HasKey(w[b].chains[m.ephemeral], m.counter)
      BY <2>4, <3>5 DEF Opens, ForMessage
    <3>7. m.counter \in Nat /\ w[b].chains[m.ephemeral].counter \in Nat
      BY <2>1, <2>2, <2>4, <3>5, ChainMapsType DEF Messages, Proper, Sessions, Chains
    <3>8. PICK c, n : c = w[b].chains[m.ephemeral] /\ n = m.counter
      OBVIOUS
    <3>9. Gone(c, n) /\ HasKey(c, n) /\ n \in Nat /\ c.counter \in Nat
      BY <3>5, <3>6, <3>7, <3>8
    <3> QED
      BY ONLY <3>9 DEF Gone, HasKey
  <2>10. CASE \E h \in m.hello : /\ b \notin DOMAIN Prepared(p, m)
                                 /\ w[b] = Incoming(b, SignedPreKey(p), Loaded(p, h))
    <3>1. PICK h \in m.hello : /\ b \notin DOMAIN Prepared(p, m)
                               /\ w[b] = Incoming(b, SignedPreKey(p), Loaded(p, h))
      BY <2>10
    <3>2. /\ w[b].root.x3dh = X3DH(b, SignedPreKey(p), Loaded(p, h))
          /\ DOMAIN w[b].chains = {}
      BY <3>1, IncomingParts
    <3>3. Whole(w[b])
      BY <3>2 DEF Whole
    <3>4. x = w[b].root.x3dh
      BY <2>1, <2>2, <2>4, <2>8, <3>3, ReceivedGone
    <3>5. x.signedPreKey = SignedPreKey(p) /\ x.preKey = Loaded(p, h)
      BY <3>2, <3>4 DEF X3DH
    <3>6. x.preKey = {}
      BY <2>6, <3>5 DEF UsedUp, Loaded
    <3>7. b \notin forgotten[p] /\ Familiar(p, m)
      BY <3>6
    <3>8. Prepared(p, m) = record[p]
      BY <3>7 DEF Familiar, Prepared, IdentityChanged
    <3> QED
      BY <2>6, <3>1, <3>7, <3>8 DEF Remembers
  <2> QED
    BY <2>2, <2>4, <2>9, <2>10
<1> QED
  BY <1>1, SessionsWellFormed, KeysStayOwn, ReadKeysAreGone, PTL

-----------------------------------------------------------------------------
(* Keys are kept for messages still to come.  A chain's messages are sent in *)
(* turn, so a number that is passed over, below the one that arrives or the  *)
(* one that "previous" names, was sent; and it was not read, for what was    *)
(* read is behind the counter.  That "previous" speaks of the chain which is *)
(* ended is the point: its key is the one two secrets back.                  *)

\* The key before the last secret was mixed in.
Unmixed(key) == [key EXCEPT !.mixed = SubSeq(@, 1, Len(@) - 1)]

Sent(sent, key, n) == \E m \in sent : m.key = key /\ m.counter = n

\* What s has sent: every number of its chain, and those of the chain before.
SendsInTurn(s, sent) ==
    /\ s.ephemeral \in DOMAIN s.chains =>
          \A n \in Nat : n < s.chains[s.ephemeral].counter => Sent(sent, s.root, n)
    /\ \A n \in 1..s.previous : Sent(sent, Unmixed(Unmixed(s.root)), n)

\* The same of a message: those before it, and of the chain before.
SentInTurn(m, sent) ==
    /\ \A n \in Nat : n < m.counter => Sent(sent, m.key, n)
    /\ \A n \in 1..m.previous : Sent(sent, Unmixed(Unmixed(m.key)), n)

\* Chain c, under ephemeral key e, was begun by a message of the peer's.
BegunByPeer(p, e, c, sent) ==
    /\ c.type = "receiving" /\ c.counter > 0
    /\ \E m \in sent : m.key = c.key /\ m.ephemeral = e /\ m.from # p

\* All chains of s but its own are the peer's, the last one a secret back.
HearsPeer(p, s, sent) ==
    /\ s.remote \in DOMAIN s.chains => s.chains[s.remote].key = Unmixed(s.root)
    /\ \A e \in DOMAIN s.chains :
          \/ e = s.ephemeral /\ s.chains[e].kept = {}
          \/ BegunByPeer(p, e, s.chains[e], sent)

\* Every key s keeps is that of an unread message.
Owed(p, s, unread) ==
    \A e \in DOMAIN s.chains : \A n \in s.chains[e].kept :
        \E m \in unread : /\ m.key = s.chains[e].key /\ m.counter = n
                          /\ m.ephemeral = e /\ m.from # p

PartyOwed(p, r, lost, sent, unread) ==
    /\ \A b \in DOMAIN r : SendsInTurn(r[b], sent) /\ HearsPeer(p, r[b], sent)
    /\ \A b \in DOMAIN r \ lost : Owed(p, r[b], unread)

OwedInv ==
    /\ \A p \in Parties : PartyOwed(p, record[p], forgotten[p], network, network \ read)
    /\ \A m \in network : SentInTurn(m, network)

\* Unmixed undoes Mixed.
LEMMA UnmixedMixed ==
    ASSUME NEW k \in RootKeys, NEW x \in SUBSET KeyPairs
    PROVE  Unmixed(Mixed(k, x)) = k
<1>1. k.mixed \in Seq(SUBSET KeyPairs) /\ k = [x3dh |-> k.x3dh, mixed |-> k.mixed]
  BY DEF RootKeys
<1> DEFINE l == Mixed(k, x)
<1>2. /\ l.mixed \in Seq(SUBSET KeyPairs) /\ Len(l.mixed) = Len(k.mixed) + 1
      /\ \A i \in 1..Len(k.mixed) : l.mixed[i] = k.mixed[i]
  BY <1>1 DEF Mixed, RootKeys
<1>3. l.x3dh = k.x3dh /\ l \in RootKeys
  BY MixedType
<1> HIDE DEF l
<1> DEFINE s == SubSeq(l.mixed, 1, Len(l.mixed) - 1)
<1>4. s \in Seq(SUBSET KeyPairs) /\ Len(s) = Len(k.mixed) /\ \A i \in 1..Len(s) : s[i] = k.mixed[i]
  BY <1>1, <1>2
<1>5. s = k.mixed
  BY <1>1, <1>4, SeqEqual
<1> HIDE DEF s
<1>6. Unmixed(l) = [x3dh |-> l.x3dh, mixed |-> s]
  <2>1. l = [x3dh |-> l.x3dh, mixed |-> l.mixed]
    BY <1>3 DEF RootKeys
  <2> QED
    BY <2>1 DEF Unmixed, s
<1> QED
  BY <1>1, <1>3, <1>5, <1>6 DEF l

\* One key, one sender, one ephemeral key.
LEMMA KeyTellsEphemeral ==
    ASSUME SessionInv, KeysInv, NEW m \in network, NEW l \in network, m.key = l.key
    PROVE  m.ephemeral = l.ephemeral
<1>1. /\ m \in Messages /\ m.from \in Parties /\ m.ephemeral[1] = m.from
      /\ l \in Messages /\ l.from \in Parties /\ l.ephemeral[1] = l.from
  BY AllOwn, PartiesAssumption
<1>2. m.key \in RootKeys /\ m.key.x3dh.base \in KeyPairs
  BY <1>1 DEF Messages, RootKeys, X3DHs
<1>3. SendingKey(m.from, m.ephemeral, m.key) /\ SendingKey(l.from, l.ephemeral, m.key)
  BY DEF KeysInv, SentBy
<1>4. m.key.x3dh.base[1] \in Parties
  BY <1>2 DEF KeyPairs
<1> QED
  BY <1>1, <1>2, <1>3, <1>4, OneSender

\* More messages sent, and fewer owed.
LEMMA MoreSent ==
    ASSUME NEW p, NEW s, NEW sent, NEW more, sent \subseteq more
    PROVE  /\ SendsInTurn(s, sent) => SendsInTurn(s, more)
           /\ HearsPeer(p, s, sent) => HearsPeer(p, s, more)
           /\ Owed(p, s, sent) => Owed(p, s, more)
           /\ \A m : SentInTurn(m, sent) => SentInTurn(m, more)
<1>1. \A key, n : Sent(sent, key, n) => Sent(more, key, n)
  BY DEF Sent
<1>2. \A e, c : BegunByPeer(p, e, c, sent) => BegunByPeer(p, e, c, more)
  BY DEF BegunByPeer
<1> QED
  BY <1>1, <1>2 DEF SendsInTurn, HearsPeer, Owed, SentInTurn

\* Closing a session changes none of this.
LEMMA InTurnAsBefore ==
    ASSUME NEW p, NEW s, NEW t, NEW sent, AsBefore(s, t)
    PROVE  /\ SendsInTurn(s, sent) => SendsInTurn(t, sent)
           /\ HearsPeer(p, s, sent) => HearsPeer(p, t, sent)
           /\ Owed(p, s, sent) => Owed(p, t, sent)
BY DEF AsBefore, SendsInTurn, HearsPeer, Owed

\* A message opened in a session: what the session has sent and heard.
LEMMA ReceivedInTurn ==
    ASSUME NEW b \in KeyPairs, NEW s, Proper(b, s), NEW m \in Messages,
           NEW fresh \in KeyPairs, Opens(s, m, fresh), NEW sent, m \in sent,
           NEW p, s.ephemeral[1] = p, fresh[1] = p, m.ephemeral[1] # p, m.from # p,
           SendsInTurn(s, sent), HearsPeer(p, s, sent)
    PROVE  LET t == Received(s, m, fresh) IN SendsInTurn(t, sent) /\ HearsPeer(p, t, sent)
<1> DEFINE f == ForMessage(s, m, fresh)
           t == Received(s, m, fresh)
           theirs == m.ephemeral
           c == f.chains[theirs]
           d == Taken(c, m.counter)
<1>1. /\ s \in Sessions /\ m.counter \in Nat /\ m.previous \in Nat /\ theirs \in KeyPairs
      /\ s.root \in RootKeys /\ s.ephemeral \in KeyPairs
      /\ \A e \in DOMAIN s.chains : s.chains[e] \in Chains
  BY ChainMapsType DEF Proper, Messages, Sessions
<1>2. /\ t.root = f.root /\ t.ephemeral = f.ephemeral /\ t.remote = f.remote
      /\ t.previous = f.previous
      /\ f \in Sessions /\ theirs \in DOMAIN f.chains
      /\ DOMAIN t.chains = DOMAIN f.chains
      /\ t.chains[theirs] = d
      /\ \A e \in DOMAIN f.chains \ {theirs} : t.chains[e] = f.chains[e]
  BY ReceivedParts
<1>3. c \in Chains /\ c.key = m.key /\ HasKey(c, m.counter)
  BY <1>2, ChainMapsType DEF Opens, Sessions
<1>4. d.key = c.key /\ d.type = c.type
  BY <1>1, <1>3, TakenType
<1>5. d.counter > 0 \/ d.counter = c.counter
  BY <1>1, <1>3 DEF Taken, Chains
<1> HIDE DEF d, t
\* What holds of the session in which m is tried.
<1>6. /\ SendsInTurn(f, sent)
      /\ f.ephemeral # theirs
      /\ f.remote \in DOMAIN f.chains => f.chains[f.remote].key = Unmixed(f.root)
      /\ \A e \in DOMAIN f.chains \ {theirs} :
            \/ e = f.ephemeral /\ f.chains[e].kept = {}
            \/ BegunByPeer(p, e, f.chains[e], sent)
      /\ c.type = "receiving" /\ (c.counter > 0 \/ m.counter \notin c.kept)
  <2>1. CASE theirs \in DOMAIN s.chains
    <3>1. f = s
      BY <2>1 DEF ForMessage
    <3>2. BegunByPeer(p, theirs, s.chains[theirs], sent)
      BY <2>1 DEF HearsPeer
    <3> HIDE DEF f
    <3> QED
      BY <2>1, <3>1, <3>2 DEF HearsPeer, BegunByPeer
  <2>2. CASE theirs \notin DOMAIN s.chains
    <3> DEFINE u == Ratcheted(s, theirs, m.previous, fresh)
               receiving == Mixed(s.root, Agreed(s.ephemeral, theirs))
               sending == Mixed(receiving, Agreed(fresh, theirs))
    <3>1. f = u
      BY <2>2 DEF ForMessage
    <3>2. /\ u.root = sending /\ u.ephemeral = fresh /\ u.remote = theirs
          /\ u.previous = PreviousCounter(s)
          /\ DOMAIN u.chains = (DOMAIN s.chains \ {s.ephemeral}) \union {theirs, fresh}
          /\ \A e \in DOMAIN u.chains :
                u.chains[e] = IF e = fresh THEN NewChain("sending", sending)
                              ELSE IF e = theirs THEN NewChain("receiving", receiving)
                              ELSE IF e = s.remote /\ s.chains[e].type = "receiving"
                              THEN ClosedChain(s.chains[e], m.previous) ELSE s.chains[e]
      BY <1>1, RatchetedParts
    <3>3. receiving \in RootKeys /\ Unmixed(receiving) = s.root
      BY <1>1, MixedType, UnmixedMixed DEF Agreed
    <3>4. Unmixed(sending) = receiving
      BY <1>1, <3>3, UnmixedMixed DEF Agreed
    <3> HIDE DEF u, f, receiving, sending
    <3>5. SendsInTurn(u, sent)
      <4>1. u.chains[fresh].counter = 0
        BY <3>2 DEF NewChain
      <4>2. ASSUME NEW n \in 1..u.previous PROVE Sent(sent, s.root, n)
        <5>1. /\ s.ephemeral \in DOMAIN s.chains
              /\ s.chains[s.ephemeral].counter > 0 /\ s.chains[s.ephemeral].counter \in Nat
              /\ u.previous = s.chains[s.ephemeral].counter - 1
          BY <1>1, <3>2 DEF PreviousCounter, Chains
        <5> QED
          BY <5>1 DEF SendsInTurn
      <4> QED
        BY <3>2, <3>3, <3>4, <4>1, <4>2 DEF SendsInTurn
    <3>6. fresh # theirs
      OBVIOUS
    <3>7. u.chains[theirs] = NewChain("receiving", receiving)
      BY <3>2, <3>6
    <3>8. ASSUME NEW e \in DOMAIN u.chains \ {theirs}, e # fresh
          PROVE  BegunByPeer(p, e, u.chains[e], sent)
      <4>1. e \in DOMAIN s.chains /\ e # s.ephemeral
        BY <3>2, <3>8
      <4>2. BegunByPeer(p, e, s.chains[e], sent) /\ s.chains[e] \in Chains
        BY <1>1, <4>1 DEF HearsPeer
      <4>3. CASE u.chains[e] = s.chains[e]
        BY <4>2, <4>3
      <4>4. CASE u.chains[e] = ClosedChain(s.chains[e], m.previous)
        <5> DEFINE a == s.chains[e]
                   z == ClosedChain(a, m.previous)
        <5>1. z.key = a.key /\ z.type = a.type
              /\ z.counter = IF a.live /\ a.counter <= m.previous THEN m.previous + 1 ELSE a.counter
          BY <4>2 DEF ClosedChain, Chains
        <5> HIDE DEF z
        <5>2. BegunByPeer(p, e, z, sent)
          BY <1>1, <4>2, <5>1 DEF BegunByPeer
        <5> QED
          BY <4>4, <5>2 DEF z
      <4> QED
        BY <3>2, <3>8, <4>3, <4>4
    <3>9. u.chains[fresh].kept = {}
      BY <3>2 DEF NewChain
    <3> QED
      BY <3>1, <3>2, <3>4, <3>5, <3>6, <3>7, <3>8, <3>9 DEF NewChain
  <2> QED
    BY <2>1, <2>2
<1> HIDE DEF f, c
<1>7. SendsInTurn(t, sent)
  <2>1. f.ephemeral \in DOMAIN f.chains => t.chains[t.ephemeral] = f.chains[f.ephemeral]
    BY <1>2, <1>6
  <2> QED
    BY <1>2, <1>6, <2>1 DEF SendsInTurn
<1>8. HearsPeer(p, t, sent)
  <2>1. BegunByPeer(p, theirs, d, sent)
    <3>1. d.counter > 0
      BY <1>1, <1>3, <1>5, <1>6 DEF Taken, Chains, d
    <3> QED
      BY <1>3, <1>4, <1>6, <3>1 DEF BegunByPeer
  <2>2. \A e \in DOMAIN t.chains :
          \/ e = t.ephemeral /\ t.chains[e].kept = {}
          \/ BegunByPeer(p, e, t.chains[e], sent)
    BY <1>2, <1>6, <2>1
  <2>3. t.remote \in DOMAIN t.chains => t.chains[t.remote].key = Unmixed(t.root)
    BY <1>2, <1>4, <1>6 DEF c
  <2> QED
    BY <2>2, <2>3 DEF HearsPeer
<1> QED
  BY <1>7, <1>8 DEF t

\* What was read in s is gone, so a number s has yet to reach is unread.
LEMMA NotYetRead ==
    ASSUME NEW s, NEW l, l.ephemeral \in DOMAIN s.chains => s.chains[l.ephemeral] \in Chains,
           l.counter \in Nat, Spent(s, l)
    PROVE  /\ l.ephemeral \in DOMAIN s.chains
           /\ ~(l.counter >= s.chains[l.ephemeral].counter)
<1>1. s.chains[l.ephemeral].counter \in Nat
  BY DEF Spent, Chains
<1> QED
  BY <1>1 DEF Spent, Gone

\* A message opened in a session: the keys it keeps afterwards are still owed.
LEMMA ReceivedOwed ==
    ASSUME NEW b \in KeyPairs, NEW s, Proper(b, s), NEW m \in Messages,
           NEW fresh \in KeyPairs, Opens(s, m, fresh), NEW sent, NEW seen, m \in sent,
           NEW p, s.ephemeral[1] = p, fresh[1] = p, m.ephemeral[1] # p,
           HearsPeer(p, s, sent), SentInTurn(m, sent), Owed(p, s, sent \ seen),
           sent \subseteq Messages, \A l \in sent : l.ephemeral[1] = l.from,
           \A l, k \in sent : l.key = k.key => l.ephemeral = k.ephemeral,
           Whole(s), \A l \in seen : l.from # p /\ l.key.x3dh = s.root.x3dh => Spent(s, l)
    PROVE  Owed(p, Received(s, m, fresh), sent \ (seen \union {m}))
<1> DEFINE f == ForMessage(s, m, fresh)
           t == Received(s, m, fresh)
           theirs == m.ephemeral
           c == f.chains[theirs]
           d == Taken(c, m.counter)
           unread == sent \ (seen \union {m})
           OwedAt(e, key, n) == \E l \in unread : /\ l.key = key /\ l.counter = n
                                                  /\ l.ephemeral = e /\ l.from # p
<1>1. /\ s \in Sessions /\ m.counter \in Nat /\ m.previous \in Nat /\ theirs \in KeyPairs
      /\ s.root \in RootKeys /\ s.ephemeral \in KeyPairs
      /\ \A e \in DOMAIN s.chains : s.chains[e] \in Chains
  BY ChainMapsType DEF Proper, Messages, Sessions
<1>2. /\ f \in Sessions /\ theirs \in DOMAIN f.chains
      /\ DOMAIN t.chains = DOMAIN f.chains
      /\ t.chains[theirs] = d
      /\ \A e \in DOMAIN f.chains \ {theirs} : t.chains[e] = f.chains[e]
  BY ReceivedParts
<1>3. c \in Chains /\ c.key = m.key /\ HasKey(c, m.counter)
  BY <1>2, ChainMapsType DEF Opens, Sessions
<1>4. d.key = c.key
  BY <1>1, <1>3, TakenType
<1>5. m.key.x3dh = s.root.x3dh
  BY ReceivedGone
\* A message sent but not spent in s is unread.
<1>6. ASSUME NEW l \in sent, l.from # p, l.key.x3dh = s.root.x3dh, l # m, ~Spent(s, l)
      PROVE  l \in unread
  BY <1>6
\* What was owed is still owed, but for m.
<1>7. ASSUME NEW e \in DOMAIN s.chains, NEW n \in s.chains[e].kept,
             e # theirs \/ n # m.counter
      PROVE  OwedAt(e, s.chains[e].key, n)
  BY <1>7 DEF Owed
<1> HIDE DEF d, t, unread
<1>8. CASE theirs \in DOMAIN s.chains
  <2>1. f = s
    BY <1>8 DEF ForMessage
  <2> HIDE DEF f
  <2>2. c = s.chains[theirs]
    BY <2>1
  <2> HIDE DEF c
  <2>3. ASSUME NEW n \in d.kept PROVE OwedAt(theirs, d.key, n)
    <3>1. n \in Nat
      BY <1>1, <1>3, TakenType DEF d, Chains
    <3>2. CASE n \in c.kept /\ n # m.counter
      BY <1>4, <1>7, <1>8, <2>2, <3>2
    <3>3. CASE ~(n \in c.kept /\ n # m.counter)
      <4>1. m.counter \notin c.kept /\ n \in c.counter..(m.counter - 1)
        BY <1>1, <1>3, <3>3 DEF Taken, d, Chains
      <4>2. n >= c.counter /\ n < m.counter /\ c.counter \in Nat
        BY <1>1, <1>3, <3>1, <4>1 DEF Chains
      <4>3. PICK l \in sent : l.key = m.key /\ l.counter = n
        BY <3>1, <4>2 DEF SentInTurn, Sent
      <4>4. l.ephemeral = theirs /\ l.from # p /\ l # m
        BY <1>1, <4>2, <4>3
      <4>5. ~Spent(s, l)
        BY <1>1, <2>2, <3>1, <4>2, <4>3, <4>4, NotYetRead
      <4>6. l \in unread
        BY <1>5, <1>6, <4>3, <4>4, <4>5
      <4> QED
        BY <1>3, <1>4, <4>3, <4>4, <4>6
    <3> QED
      BY <3>2, <3>3
  <2>4. ASSUME NEW e \in DOMAIN t.chains, NEW n \in t.chains[e].kept
        PROVE  OwedAt(e, t.chains[e].key, n)
    <3>1. CASE e = theirs
      BY <1>2, <2>3, <3>1
    <3>2. CASE e # theirs
      <4>1. e \in DOMAIN s.chains /\ t.chains[e] = s.chains[e]
        BY <1>2, <2>1, <3>2
      <4>2. OwedAt(e, s.chains[e].key, n)
        BY <1>7, <3>2, <4>1
      <4> QED
        BY <4>1, <4>2
    <3> QED
      BY <3>1, <3>2
  <2> QED
    BY <2>4 DEF Owed, t, unread
<1>9. CASE theirs \notin DOMAIN s.chains
  <2> DEFINE u == Ratcheted(s, theirs, m.previous, fresh)
             receiving == Mixed(s.root, Agreed(s.ephemeral, theirs))
             sending == Mixed(receiving, Agreed(fresh, theirs))
  <2>1. f = u
    BY <1>9 DEF ForMessage
  <2>2. /\ DOMAIN u.chains = (DOMAIN s.chains \ {s.ephemeral}) \union {theirs, fresh}
        /\ \A e \in DOMAIN u.chains :
              u.chains[e] = IF e = fresh THEN NewChain("sending", sending)
                            ELSE IF e = theirs THEN NewChain("receiving", receiving)
                            ELSE IF e = s.remote /\ s.chains[e].type = "receiving"
                            THEN ClosedChain(s.chains[e], m.previous) ELSE s.chains[e]
    BY <1>1, RatchetedParts
  <2>3. Unmixed(receiving) = s.root
    BY <1>1, UnmixedMixed DEF Agreed
  <2> HIDE DEF u, f, receiving, sending
  <2>4. fresh # theirs /\ c = NewChain("receiving", receiving)
    BY <2>1, <2>2
  <2> HIDE DEF c
  <2>5. c.counter = 0 /\ c.kept = {} /\ c.key = receiving
    BY <2>4 DEF NewChain
  <2>6. m.key = receiving
    BY <1>3, <2>5
  <2>7. ASSUME NEW n \in d.kept PROVE OwedAt(theirs, d.key, n)
    <3>1. n \in 0..(m.counter - 1)
      BY <1>3, <2>5 DEF Taken, d, Chains
    <3>2. n \in Nat /\ n < m.counter
      BY <1>1, <3>1
    <3>3. PICK l \in sent : l.key = m.key /\ l.counter = n
      BY <3>2 DEF SentInTurn, Sent
    <3>4. l.ephemeral = theirs /\ l.from # p /\ l # m
      BY <1>1, <3>2, <3>3
    <3>5. ~Spent(s, l)
      BY <1>9, <3>4 DEF Spent
    <3>6. l \in unread
      BY <1>5, <1>6, <3>3, <3>4, <3>5
    <3> QED
      BY <1>3, <1>4, <3>3, <3>4, <3>6
  <2>8. ASSUME NEW e \in DOMAIN s.chains, e # s.ephemeral, e # fresh,
               NEW n \in ClosedChain(s.chains[e], m.previous).kept,
               e = s.remote
        PROVE  OwedAt(e, s.chains[e].key, n)
    <3> DEFINE a == s.chains[e]
    <3>1. a \in Chains /\ BegunByPeer(p, e, a, sent)
      BY <1>1, <2>8 DEF HearsPeer
    <3>2. CASE n \in a.kept
      BY <1>7, <1>9, <3>2
    <3>3. CASE n \notin a.kept
      <4>1. n \in a.counter..m.previous
        BY <2>8, <3>1, <3>3 DEF ClosedChain, Chains
      <4>2. a.counter \in Nat /\ a.counter > 0
        BY <3>1 DEF Chains, BegunByPeer
      <4>3. n \in Nat /\ n >= a.counter /\ n \in 1..m.previous
        BY <1>1, <4>1, <4>2
      <4>4. Unmixed(Unmixed(m.key)) = a.key
        BY <2>3, <2>6, <2>8 DEF HearsPeer
      <4>5. PICK l \in sent : l.key = a.key /\ l.counter = n
        BY <4>3, <4>4 DEF SentInTurn, Sent
      <4>6. l.ephemeral = e
        BY <3>1, <4>5 DEF BegunByPeer
      <4>7. l.from # p
        BY <3>1, <4>5, <4>6 DEF BegunByPeer
      <4>8. l # m /\ l.key.x3dh = s.root.x3dh
        BY <1>9, <4>5, <4>6 DEF Whole
      <4>9. ~Spent(s, l)
        BY <3>1, <4>3, <4>5, <4>6, NotYetRead
      <4>10. l \in unread
        BY <1>6, <4>7, <4>8, <4>9
      <4> QED
        BY <4>5, <4>6, <4>7, <4>10
    <3> QED
      BY <3>2, <3>3
  <2>9. ASSUME NEW e \in DOMAIN t.chains, NEW n \in t.chains[e].kept
        PROVE  OwedAt(e, t.chains[e].key, n)
    <3>1. CASE e = theirs
      BY <1>2, <2>7, <3>1
    <3>2. CASE e = fresh
      BY <1>2, <2>1, <2>2, <2>4, <2>9, <3>2 DEF NewChain
    <3>3. CASE e # theirs /\ e # fresh
      <4>1. e \in DOMAIN s.chains /\ e # s.ephemeral /\ t.chains[e] = u.chains[e]
        BY <1>2, <2>1, <2>2, <3>3
      <4>2. CASE u.chains[e] = s.chains[e]
        <5>1. OwedAt(e, s.chains[e].key, n)
          BY <1>7, <2>9, <3>3, <4>1, <4>2
        <5> QED
          BY <4>1, <4>2, <5>1
      <4>3. CASE e = s.remote /\ u.chains[e] = ClosedChain(s.chains[e], m.previous)
        <5>1. OwedAt(e, s.chains[e].key, n)
          BY <2>8, <2>9, <3>3, <4>1, <4>3
        <5>2. t.chains[e].key = s.chains[e].key
          <6>1. s.chains[e] \in Chains
            BY <1>1, <4>1
          <6>2. ClosedChain(s.chains[e], m.previous).key = s.chains[e].key
            BY <1>1, <6>1, ClosedChainType
          <6> QED
            BY <4>1, <4>3, <6>2
        <5> QED
          BY <5>1, <5>2
      <4> QED
        BY <1>2, <2>1, <2>2, <3>3, <4>1, <4>2, <4>3
    <3> QED
      BY <3>1, <3>2, <3>3
  <2> QED
    BY <2>9 DEF Owed, t, unread
<1> QED
  BY <1>8, <1>9

\* What is owed to p, when only session b is not as before: elsewhere no
\* message is read.
LEMMA OwedMoved ==
    ASSUME SessionInv, NEW p \in Parties, NEW b, NEW r, NEW lost, Moved(p, b, r, lost),
           NEW sent, NEW more, sent \subseteq more, NEW unread, NEW left,
           PartyOwed(p, record[p], forgotten[p], sent, unread),
           \A l \in unread : l.key.x3dh.base = b \/ l \in left,
           b \in DOMAIN r =>
              /\ SendsInTurn(r[b], more) /\ HearsPeer(p, r[b], more)
              /\ b \notin lost => Owed(p, r[b], left)
    PROVE  PartyOwed(p, r, lost, more, left)
<1>1. ASSUME NEW k \in DOMAIN r \ {b}
      PROVE  /\ SendsInTurn(r[k], more) /\ HearsPeer(p, r[k], more)
             /\ k \notin lost => Owed(p, r[k], left)
  <2>1. k \in DOMAIN record[p] /\ AsBefore(record[p][k], r[k]) /\ forgotten[p] \subseteq lost
    BY DEF Moved
  <2> DEFINE s == record[p][k]
  <2>2. SendsInTurn(s, more) /\ HearsPeer(p, s, more)
    BY <2>1, MoreSent DEF PartyOwed
  <2>3. SendsInTurn(r[k], more) /\ HearsPeer(p, r[k], more)
    BY <2>1, <2>2, InTurnAsBefore
  <2>4. ASSUME k \notin lost PROVE Owed(p, r[k], left)
    <3>1. Owed(p, s, unread)
      BY <2>1, <2>4 DEF PartyOwed
    <3>2. \A e \in DOMAIN s.chains : s.chains[e].key.x3dh.base = k
      BY <2>1, SecretsType DEF Proper, Linked
    <3> HIDE DEF s
    <3>3. Owed(p, s, left)
      BY <3>1, <3>2 DEF Owed
    <3> QED
      BY <2>1, <3>3, InTurnAsBefore DEF s
  <2> QED
    BY <2>3, <2>4
<1> QED
  BY <1>1 DEF PartyOwed

\* What a step has to show: only what is owed to the party that takes it.
LEMMA OwedStep ==
    ASSUME SessionInv, NetworkGood', OwedInv, NEW p \in Parties, NEW b, NEW r, NEW lost,
           Moved(p, b, r, lost), network \subseteq network',
           PartyOwed(p, r, lost, network', network' \ read'),
           \A m \in network' : m \in network \/ SentInTurn(m, network'),
           \A m \in read' : m \in read \/ m.from # p
    PROVE  OwedInv'
<1>1. record \in [Parties -> Records] /\ forgotten \in [Parties -> SUBSET KeyPairs]
  BY DEF SessionInv, RecordsGood, OthersGood
<1>2. \A m \in network' : m.from \in Parties
  BY DEF NetworkGood, Messages
<1>3. ASSUME NEW q \in Parties
      PROVE  PartyOwed(q, record'[q], forgotten'[q], network', network' \ read')
  <2>1. CASE q = p
    BY <1>1, <2>1 DEF Moved
  <2>2. CASE q # p
    <3>1. record'[q] = record[q] /\ forgotten'[q] = forgotten[q]
      BY <1>1, <2>2 DEF Moved
    <3>2. PartyOwed(q, record[q], forgotten[q], network, network \ read)
      BY DEF OwedInv
    <3>3. \A l \in network \ read : l.from # q => l \in network' \ read'
      BY <1>2, <2>2, PartiesAssumption
    <3>4. \A k \in DOMAIN record[q] :
             /\ SendsInTurn(record[q][k], network') /\ HearsPeer(q, record[q][k], network')
             /\ k \notin forgotten[q] => Owed(q, record[q][k], network \ read)
      BY <3>2, MoreSent DEF PartyOwed
    <3>5. \A s : Owed(q, s, network \ read) => Owed(q, s, network' \ read')
      BY <3>3 DEF Owed
    <3> QED
      BY <3>1, <3>4, <3>5 DEF PartyOwed
  <2> QED
    BY <2>1, <2>2
<1>4. \A m \in network' : SentInTurn(m, network')
  <2>1. \A m \in network : SentInTurn(m, network')
    BY MoreSent DEF OwedInv
  <2> QED
    BY <2>1
<1> QED
  BY <1>3, <1>4 DEF OwedInv

\* A session begun as initiator has sent nothing and heard nothing.
LEMMA OutgoingInTurn ==
    ASSUME NEW base, NEW spk, NEW k, NEW fresh, spk # fresh, NEW p, NEW sent, NEW unread
    PROVE  LET s == Outgoing(base, spk, k, fresh)
           IN  SendsInTurn(s, sent) /\ HearsPeer(p, s, sent) /\ Owed(p, s, unread)
<1> DEFINE s == Outgoing(base, spk, k, fresh)
<1>1. /\ DOMAIN s.chains = {fresh} /\ s.ephemeral = fresh /\ s.remote = spk /\ s.previous = 0
      /\ s.chains[fresh].counter = 0 /\ s.chains[fresh].kept = {}
  BY DEF Outgoing, NewChain
<1> HIDE DEF s
<1>2. SendsInTurn(s, sent) /\ HearsPeer(p, s, sent) /\ Owed(p, s, unread)
  BY <1>1 DEF SendsInTurn, HearsPeer, Owed
<1> QED
  BY <1>2 DEF s

\* Establishing owes nobody anything.
LEMMA EstablishOwed ==
    ASSUME SessionInv, SessionInv', ReadingInv, OwedInv, NEW p \in Parties, Establish(p)
    PROVE  OwedInv'
<1> DEFINE base == Fresh(p, 1)
<1>1. PICK k \in SUBSET PreKeyIds :
        \E r, lost :
           /\ Moved(p, base, r, lost) /\ base \in DOMAIN r
           /\ r[base] = Outgoing(base, SignedPreKey(Peer(p)), k, Fresh(p, 2))
  BY EstablishMoves
<1>2. PICK r, lost :
           /\ Moved(p, base, r, lost) /\ base \in DOMAIN r
           /\ r[base] = Outgoing(base, SignedPreKey(Peer(p)), k, Fresh(p, 2))
  BY <1>1
<1>3. network' = network /\ read' = read
  BY DEF Establish
<1>4. SignedPreKey(Peer(p)) # Fresh(p, 2)
  BY DEF SignedPreKey, Fresh
<1>5. /\ SendsInTurn(r[base], network) /\ HearsPeer(p, r[base], network)
      /\ Owed(p, r[base], network \ read)
  BY <1>2, <1>4, OutgoingInTurn
<1>6. PartyOwed(p, record[p], forgotten[p], network, network \ read)
  BY DEF OwedInv
<1> HIDE DEF base
<1>7. PartyOwed(p, r, lost, network, network \ read)
  BY <1>2, <1>5, <1>6, OwedMoved
<1> QED
  BY <1>2, <1>3, <1>7, OwedStep DEF SessionInv

\* Encrypting sends the next number of the chain.
LEMMA EncryptOwed ==
    ASSUME SessionInv, SessionInv', KeysInv, OwedInv, NEW p \in Parties, Encrypt(p)
    PROVE  OwedInv'
<1>1. PICK b \in DOMAIN record[p] :
        \E r : /\ Moved(p, b, r, forgotten[p])
               /\ DOMAIN r = DOMAIN record[p]
               /\ r[b] = Advanced(record[p][b])
               /\ CanSend(record[p][b])
               /\ network' = network \union {Message(p, record[p][b])}
  BY EncryptMoves
<1>2. PICK r, s, lost, m, t :
        /\ Moved(p, b, r, lost) /\ lost = forgotten[p]
        /\ s = record[p][b] /\ m = Message(p, s)
        /\ DOMAIN r = DOMAIN record[p]
        /\ r[b] = t /\ t = Advanced(s)
        /\ CanSend(s)
        /\ network' = network \union {m}
  BY <1>1
<1>3. read' = read /\ read \subseteq network /\ network \subseteq Messages
  BY DEF Encrypt, SessionInv, NetworkGood
<1>4. s \in Sessions
  BY <1>2, SecretsType DEF Proper
<1>5. s.chains[s.ephemeral].key = s.root /\ Ahead(s, network) /\ s.ephemeral[1] = p
  BY <1>2 DEF KeysInv, OwnSessions, Sends, OwnEphemeral
<1>6. /\ m.from = p /\ m.counter = s.chains[s.ephemeral].counter /\ m.key = s.root
      /\ m.previous = s.previous /\ m.ephemeral = s.ephemeral
  BY <1>2, <1>5 DEF Message
<1>7. s.ephemeral \in DOMAIN s.chains /\ s.chains[s.ephemeral].counter \in Nat
  BY <1>2, <1>4, ChainMapsType DEF CanSend, Sessions, Chains
<1>8. m \notin network
  BY <1>5, <1>6, <1>7 DEF Ahead
<1>9. PartyOwed(p, record[p], forgotten[p], network, network \ read)
  BY DEF OwedInv
<1>10. SendsInTurn(s, network') /\ HearsPeer(p, s, network')
  BY <1>2, <1>9, MoreSent DEF PartyOwed
<1> DEFINE e == s.ephemeral
<1>11. /\ t.root = s.root /\ t.ephemeral = e /\ t.remote = s.remote /\ t.previous = s.previous
       /\ DOMAIN t.chains = DOMAIN s.chains
       /\ \A f \in DOMAIN s.chains \ {e} : t.chains[f] = s.chains[f]
       /\ t.chains[e].key = s.chains[e].key /\ t.chains[e].kept = s.chains[e].kept
       /\ t.chains[e].type = s.chains[e].type
       /\ t.chains[e].counter = s.chains[e].counter + 1
  <2>1. s \in Sessions /\ CanSend(s) /\ t = Advanced(s)
    BY <1>2, <1>4
  <2> QED
    BY ONLY <2>1, AdvancedParts
<1>12. SendsInTurn(t, network')
  <2>1. ASSUME NEW n \in Nat, n < t.chains[e].counter PROVE Sent(network', s.root, n)
    <3>1. n < s.chains[e].counter \/ n = s.chains[e].counter
      BY <1>7, <1>11, <2>1
    <3>2. m \in network'
      BY <1>2
    <3> QED
      BY <1>6, <1>7, <1>10, <3>1, <3>2 DEF SendsInTurn, Sent
  <2> QED
    BY <1>10, <1>11, <2>1 DEF SendsInTurn
<1>13. HearsPeer(p, t, network')
  <2>1. \A f \in DOMAIN s.chains : t.chains[f].key = s.chains[f].key
    BY <1>11
  <2>2. ASSUME NEW f \in DOMAIN s.chains, BegunByPeer(p, f, s.chains[f], network')
        PROVE  BegunByPeer(p, f, t.chains[f], network')
    <3>1. CASE f = e
      BY <1>7, <1>11, <2>2, <3>1 DEF BegunByPeer
    <3>2. CASE f # e
      BY <1>11, <2>2, <3>2
    <3> QED
      BY <3>1, <3>2
  <2> QED
    BY <1>10, <1>11, <2>1, <2>2 DEF HearsPeer
<1>14. ASSUME b \notin lost PROVE Owed(p, t, network' \ read')
  <2>1. Owed(p, s, network \ read)
    BY <1>2, <1>9, <1>14 DEF PartyOwed
  <2>2. \A f \in DOMAIN s.chains : t.chains[f].key = s.chains[f].key /\ t.chains[f].kept = s.chains[f].kept
    BY <1>11
  <2>3. \A l \in network \ read : l \in network' \ read'
    BY <1>2, <1>3
  <2>4. PICK unread, left : unread = network \ read /\ left = network' \ read'
    OBVIOUS
  <2>5. Owed(p, t, left)
    BY <1>11, <2>1, <2>2, <2>3, <2>4 DEF Owed
  <2> QED
    BY <2>4, <2>5
<1>15. PartyOwed(p, r, lost, network', network' \ read')
  <2>1. PICK unread, left, sent, more :
          /\ unread = network \ read /\ left = network' \ read'
          /\ sent = network /\ more = network'
    OBVIOUS
  <2>2. sent \subseteq more /\ \A l \in unread : l \in left
    BY <1>2, <1>3, <2>1
  <2>3. PartyOwed(p, record[p], forgotten[p], sent, unread) /\ Moved(p, b, r, lost)
    BY <1>2, <1>9, <2>1
  <2>4. SendsInTurn(r[b], more) /\ HearsPeer(p, r[b], more) /\ (b \notin lost => Owed(p, r[b], left))
    BY <1>2, <1>12, <1>13, <1>14, <2>1
  <2>5. PartyOwed(p, r, lost, more, left)
    BY ONLY SessionInv, p \in Parties, <2>2, <2>3, <2>4, OwedMoved
  <2> QED
    BY <2>1, <2>5
<1>16. SentInTurn(m, network')
  BY <1>6, <1>7, <1>10 DEF SendsInTurn, SentInTurn
<1> QED
  BY <1>2, <1>3, <1>15, <1>16, OwedStep DEF SessionInv

\* Forgetting sessions owes nobody anything.
LEMMA ForgetOwed ==
    ASSUME SessionInv, SessionInv', OwedInv, NEW p \in Parties,
           NEW r, Save(p, r), r \in {record[p], EmptyRecord},
           network' = network, read' = read
    PROVE  OwedInv'
<1>1. PICK lost : \A b : Moved(p, b, r, lost)
  BY ForgetMoves
<1>2. PICK b : b \notin DOMAIN r
  <2>1. DOMAIN r \subseteq KeyPairs
    BY EmptyRecordType, RecordsType DEF SessionInv, RecordsGood, Good
  <2>2. <<p, "none", 0>> \notin KeyPairs
    BY DEF KeyPairs
  <2> QED
    BY <2>1, <2>2
<1>3. PartyOwed(p, record[p], forgotten[p], network, network \ read)
  BY DEF OwedInv
<1>4. Moved(p, b, r, lost)
  BY <1>1
<1>5. PartyOwed(p, r, lost, network, network \ read)
  BY <1>2, <1>3, <1>4, OwedMoved
<1> QED
  BY <1>4, <1>5, OwedStep DEF SessionInv

\* Reading a message: what it skips is owed, what it was is not any more.
LEMMA DecryptOwed ==
    ASSUME SessionInv, SessionInv', KeysInv, ReadingInv, OwedInv,
           NEW p \in Parties, NEW m \in network, m.from # p, Decrypt(p, m), network' = network
    PROVE  OwedInv'
<1> DEFINE b == m.key.x3dh.base
           fresh == Fresh(p, 1)
<1>1. PICK s, r, lost :
        /\ Moved(p, b, r, lost)
        /\ b \in DOMAIN r /\ r[b] = Received(s, m, fresh)
        /\ Proper(b, s) /\ s.ephemeral[1] = p /\ Opens(s, m, fresh)
        /\ Continued(p, b, s, lost) \/ Begun(p, m, b, s, lost)
  BY DecryptMoves
<1>2. read \subseteq network /\ network \subseteq Messages /\ m \in Messages /\ read' = read \union {m}
  BY DEF SessionInv, NetworkGood, Decrypt
<1>3. fresh \in KeyPairs /\ fresh[1] = p /\ b \in KeyPairs
  BY <1>2, KeysType DEF SessionInv, Fresh, Messages, RootKeys, X3DHs
<1>4. m.ephemeral[1] # p /\ \A l \in network : l.ephemeral[1] = l.from
  BY AllOwn
<1>5. PartyReads(p, record[p], forgotten[p], SignedPreKey(p), preKeys[p], read)
  BY DEF ReadingInv
<1>6. PartyOwed(p, record[p], forgotten[p], network, network \ read)
  BY DEF OwedInv
<1> HIDE DEF b, fresh
\* Of the session m is tried in.
<1>7. Whole(s) /\ SendsInTurn(s, network) /\ HearsPeer(p, s, network)
  <2>1. CASE Continued(p, b, s, lost)
    <3>1. b \in DOMAIN record[p] /\ AsBefore(record[p][b], s)
      BY <2>1 DEF Continued
    <3>2. /\ Whole(record[p][b]) /\ SendsInTurn(record[p][b], network)
          /\ HearsPeer(p, record[p][b], network)
      BY <1>5, <1>6, <3>1 DEF PartyReads, PartyOwed
    <3> QED
      BY <3>1, <3>2, SpentAsBefore, InTurnAsBefore
  <2>2. CASE Begun(p, m, b, s, lost)
    <3>1. DOMAIN s.chains = {} /\ s.previous = 0
      BY <2>2, IncomingParts DEF Begun
    <3> QED
      BY <3>1 DEF Whole, SendsInTurn, HearsPeer
  <2> QED
    BY <1>1, <2>1, <2>2
<1>8. ASSUME b \notin lost
      PROVE  /\ Owed(p, s, network \ read)
             /\ \A l \in read : l.from # p /\ l.key.x3dh = s.root.x3dh => Spent(s, l)
  <2>1. s.root.x3dh.base = b /\ forgotten[p] \subseteq lost
    BY <1>1 DEF Proper, Linked, Moved
  <2>2. \A l \in read : l.from # p => Remembers(record[p], forgotten[p], l)
    BY <1>5 DEF PartyReads
  <2>3. CASE Continued(p, b, s, lost)
    <3>1. b \in DOMAIN record[p] /\ AsBefore(record[p][b], s) /\ b \notin forgotten[p]
      BY <1>8, <2>1, <2>3 DEF Continued
    <3>2. Owed(p, record[p][b], network \ read)
      BY <1>6, <3>1 DEF PartyOwed
    <3>3. \A l \in read : l.from # p /\ l.key.x3dh = s.root.x3dh => Spent(record[p][b], l)
      BY <2>1, <2>2, <3>1 DEF Remembers, AsBefore
    <3> QED
      BY <3>1, <3>2, <3>3, SpentAsBefore, InTurnAsBefore
  <2>4. CASE Begun(p, m, b, s, lost)
    <3>1. DOMAIN s.chains = {}
      BY <2>4, IncomingParts DEF Begun
    <3>2. b \notin DOMAIN record[p] /\ b \notin forgotten[p]
      BY <1>8, <2>1, <2>4 DEF Begun
    <3>3. \A l \in read : l.from # p => l.key.x3dh # s.root.x3dh
      BY <2>1, <2>2, <3>2 DEF Remembers
    <3> QED
      BY <3>1, <3>3 DEF Owed
  <2> QED
    BY <1>1, <2>3, <2>4
<1>9. SentInTurn(m, network)
  BY DEF OwedInv
<1>10. \A l, k \in network : l.key = k.key => l.ephemeral = k.ephemeral
  BY KeyTellsEphemeral
<1>11. SendsInTurn(r[b], network) /\ HearsPeer(p, r[b], network)
  BY <1>1, <1>2, <1>3, <1>4, <1>7, ReceivedInTurn
<1>12. ASSUME b \notin lost PROVE Owed(p, r[b], network \ (read \union {m}))
  <2>1. Owed(p, s, network \ read)
    BY <1>8, <1>12
  <2>2. \A l \in read : l.from # p /\ l.key.x3dh = s.root.x3dh => Spent(s, l)
    BY <1>8, <1>12
  <2>3. Proper(b, s) /\ s.ephemeral[1] = p /\ Opens(s, m, fresh) /\ r[b] = Received(s, m, fresh)
    BY <1>1
  <2>4. Owed(p, Received(s, m, fresh), network \ (read \union {m}))
    BY ONLY <1>2, <1>3, <1>4, <1>7, <1>9, <1>10, <2>1, <2>2, <2>3, ReceivedOwed
  <2> QED
    BY <2>3, <2>4
<1>13. PartyOwed(p, r, lost, network, network \ (read \union {m}))
  <2>1. \A l \in network \ read : l.key.x3dh.base = b \/ l \in network \ (read \union {m})
    BY DEF b
  <2> QED
    BY <1>1, <1>6, <1>11, <1>12, <2>1, OwedMoved
<1>14. PartyOwed(p, r, lost, network', network' \ read')
  BY <1>2, <1>13
<1>15. \A l \in read' : l \in read \/ l.from # p
  BY <1>2
<1> QED
  BY <1>1, <1>14, <1>15, OwedStep DEF SessionInv

\* The invariant behind KeptForUnread: what was sent in turn, and what every
\* session still waits for.
THEOREM SentInOrder == Spec => []OwedInv
<1>1. Init => OwedInv
  BY EmptyRecordType DEF Init, OwedInv, PartyOwed
<1>2. SessionInv /\ SessionInv' /\ KeysInv /\ ReadingInv /\ OwedInv /\ [Next]_vars => OwedInv'
  <2> SUFFICES ASSUME SessionInv, SessionInv', KeysInv, ReadingInv, OwedInv, [Next]_vars
               PROVE  OwedInv'
    OBVIOUS
  <2>1. CASE Next
    <3>1. PICK p \in Parties :
            \/ Establish(p) \/ Encrypt(p) \/ Delete(p) \/ Reinstall(p)
            \/ \E m \in network : Receive(p, m)
      BY <2>1 DEF Next
    <3>3. CASE Delete(p) \/ Reinstall(p)
      <4>1. PICK r \in {EmptyRecord, record[p]} :
              Save(p, r) /\ network' = network /\ read' = read
        BY <3>3 DEF Delete, Reinstall
      <4> QED
        BY <4>1, ForgetOwed
    <3>4. CASE \E m \in network : Receive(p, m)
      <4>1. PICK m \in network : Receive(p, m)
        BY <3>4
      <4>2. m.from # p /\ network' = network
        BY <4>1 DEF Receive
      <4>3. CASE Decrypt(p, m)
        BY <4>2, <4>3, DecryptOwed
      <4>4. CASE Refuse(p, m)
        <5>1. Save(p, Prepared(p, m)) /\ read' = read
          BY <4>4 DEF Refuse
        <5>2. PICK a : a = Prepared(p, m) /\ a \in {record[p], EmptyRecord}
          BY DEF Prepared
        <5> QED
          BY <4>2, <5>1, <5>2, ForgetOwed
      <4> QED
        BY <4>1, <4>3, <4>4 DEF Receive
    <3> QED
      BY <3>1, <3>3, <3>4, EstablishOwed, EncryptOwed
  <2>2. CASE UNCHANGED vars
    BY <2>2 DEF vars, OwedInv
  <2> QED
    BY <2>1, <2>2
<1> QED
  BY <1>1, <1>2, SessionsWellFormed, KeysStayOwn, ReadKeysAreGone, PTL DEF Spec

\* Keys are kept for messages that were sent and not yet read, and for nothing
\* else, however far numbers are skipped and chains ended before their last.
THEOREM KeptKeysAreOwed == Spec => []KeptForUnread
<1>1. OwedInv => KeptForUnread
  BY DEF OwedInv, PartyOwed, Owed, KeptForUnread
<1> QED
  BY <1>1, SentInOrder, PTL

-----------------------------------------------------------------------------
(* The four things a step may be, for the proof that unread messages stay   *)
(* readable.                                                                 *)

\* p begins a session of its own, ...
Begins(p, b, r, lost) ==
    /\ Moved(p, b, r, lost) /\ b = Fresh(p, 1) /\ b \in DOMAIN r
    /\ \E k \in SUBSET PreKeyIds :
          r[b] = Outgoing(b, SignedPreKey(Peer(p)), k, Fresh(p, 2))
    /\ network' = network /\ read' = read

\* ... sends in the session under b, ...
SendsIn(p, b, r, lost) ==
    /\ Moved(p, b, r, lost) /\ lost = forgotten[p] /\ DOMAIN r = DOMAIN record[p]
    /\ b \in DOMAIN record[p] /\ r[b] = Advanced(record[p][b]) /\ CanSend(record[p][b])
    /\ network' = network \union {Message(p, record[p][b])} /\ read' = read

\* ... reads m, which it tried in session s, ...
ReadsIn(p, m, b, s, r, lost) ==
    /\ Moved(p, b, r, lost) /\ m.from # p /\ b = m.key.x3dh.base
    /\ b \in DOMAIN r /\ r[b] = Received(s, m, Fresh(p, 1))
    /\ Proper(b, s) /\ s.ephemeral[1] = p /\ Opens(s, m, Fresh(p, 1))
    /\ Continued(p, b, s, lost) \/ Begun(p, m, b, s, lost)
    /\ network' = network /\ read' = read \union {m}

\* ... or changes no session, but may forget all.
Forgets(p, b, r, lost) ==
    Moved(p, b, r, lost) /\ b \notin DOMAIN r /\ network' = network /\ read' = read

Step(p, b, r, lost) ==
    \/ Begins(p, b, r, lost) \/ SendsIn(p, b, r, lost) \/ Forgets(p, b, r, lost)
    \/ \E m \in network : \E s : ReadsIn(p, m, b, s, r, lost)

\* A step that keeps all sessions or none.
LEMMA ForgetsStep ==
    ASSUME SessionInv, NEW p \in Parties, NEW r, Save(p, r), r \in {record[p], EmptyRecord},
           network' = network, read' = read
    PROVE  \E b, lost : Forgets(p, b, r, lost)
<1>1. PICK lost : \A b : Moved(p, b, r, lost)
  BY ForgetMoves
<1>2. PICK b : b \notin DOMAIN r
  BY NoSetContainsEverything
<1> QED
  BY <1>1, <1>2 DEF Forgets

\* Every step is one of the four.
LEMMA Steps ==
    ASSUME SessionInv, KeysInv, Next
    PROVE  \E p \in Parties : \E b, r, lost : Step(p, b, r, lost)
<1>1. PICK p \in Parties :
        \/ Establish(p) \/ Encrypt(p) \/ Delete(p) \/ Reinstall(p)
        \/ \E m \in network : Receive(p, m)
  BY DEF Next
<1>2. CASE Establish(p)
  <2>1. PICK k \in SUBSET PreKeyIds : \E r, lost :
           /\ Moved(p, Fresh(p, 1), r, lost)
           /\ Fresh(p, 1) \in DOMAIN r
           /\ r[Fresh(p, 1)] = Outgoing(Fresh(p, 1), SignedPreKey(Peer(p)), k, Fresh(p, 2))
    BY <1>2, EstablishMoves
  <2>2. network' = network /\ read' = read
    BY <1>2 DEF Establish
  <2>3. \E b, r, lost : Begins(p, b, r, lost)
    BY <2>1, <2>2 DEF Begins
  <2> QED
    BY <2>3 DEF Step
<1>3. CASE Encrypt(p)
  <2>1. read' = read
    BY <1>3 DEF Encrypt
  <2>2. \E b, r, lost : SendsIn(p, b, r, lost)
    BY <1>3, <2>1, EncryptMoves DEF SendsIn
  <2> QED
    BY <2>2 DEF Step
<1>4. CASE Delete(p) \/ Reinstall(p)
  <2>1. PICK r \in {EmptyRecord, record[p]} : Save(p, r) /\ network' = network /\ read' = read
    BY <1>4 DEF Delete, Reinstall
  <2>2. \E b, lost : Forgets(p, b, r, lost)
    BY <2>1, ForgetsStep
  <2> QED
    BY <2>2 DEF Step
<1>5. CASE \E m \in network : Receive(p, m)
  <2>1. PICK m \in network : Receive(p, m)
    BY <1>5
  <2>2. m.from # p /\ network' = network
    BY <2>1 DEF Receive
  <2>3. CASE Decrypt(p, m)
    <3>1. read' = read \union {m}
      BY <2>3 DEF Decrypt
    <3>2. PICK s, r, lost :
             LET b == m.key.x3dh.base
             IN  /\ Moved(p, b, r, lost)
                 /\ b \in DOMAIN r /\ r[b] = Received(s, m, Fresh(p, 1))
                 /\ Proper(b, s) /\ s.ephemeral[1] = p /\ Opens(s, m, Fresh(p, 1))
                 /\ Continued(p, b, s, lost) \/ Begun(p, m, b, s, lost)
      BY <2>2, <2>3, DecryptMoves
    <3>3. ReadsIn(p, m, m.key.x3dh.base, s, r, lost)
      BY <2>2, <3>1, <3>2 DEF ReadsIn
    <3> QED
      BY <3>3 DEF Step
  <2>4. CASE Refuse(p, m)
    <3>1. Save(p, Prepared(p, m)) /\ read' = read
      BY <2>4 DEF Refuse
    <3>2. PICK r : r = Prepared(p, m) /\ r \in {record[p], EmptyRecord}
      BY DEF Prepared
    <3>3. \E b, lost : Forgets(p, b, r, lost)
      BY <2>2, <3>1, <3>2, ForgetsStep
    <3> QED
      BY <3>3 DEF Step
  <2> QED
    BY <2>1, <2>3, <2>4 DEF Receive
<1> QED
  BY <1>1, <1>2, <1>3, <1>4, <1>5

-----------------------------------------------------------------------------
(* Where sessions come from.  A base key is generated once, so it tells the *)
(* X3DH secret; and a session that is set up again has no one-time pre-key,  *)
(* for the first time used it up.                                            *)

Secrets ==
    {m.key.x3dh : m \in network} \union
    UNION {{record[p][b].root.x3dh : b \in DOMAIN record[p]} : p \in Parties}

\* The sessions p has or had.
Had(p) == DOMAIN record[p] \union forgotten[p]

\* One base key, one secret.
OneSecret == \A x, y \in Secrets : x.base = y.base => x = y

\* A pre-key message, and a session that waits for an answer, names its secret.
HellosTell ==
    /\ \A m \in network : m.hello \subseteq {m.key.x3dh}
    /\ \A p \in Parties : \A b \in DOMAIN record[p] :
          record[p][b].pending \subseteq {record[p][b].root.x3dh}

\* Base keys were generated, and the sender of a message had its session.
HadAreKnown ==
    /\ \A p \in Parties : \A b \in Had(p) : OwnEphemeral(b[1], b, generated[b[1]])
    /\ \A m \in network : m.key.x3dh.base \in Had(m.from)

\* What p had a session with is used up; what it has again had nothing to use.
HadAreUsed ==
    /\ \A p \in Parties : \A x \in Secrets :
          x.base \in Had(p) => UsedUp(x, SignedPreKey(p), preKeys[p])
    /\ \A p \in Parties : \A b \in DOMAIN record[p] \intersect forgotten[p] :
          record[p][b].root.x3dh.preKey = {}

OriginInv == OneSecret /\ HellosTell /\ HadAreKnown /\ HadAreUsed

\* Key pairs are added, and what is used up stays so.
LEMMA StaysUsed ==
    ASSUME SessionInv, Next
    PROVE  /\ \A q \in Parties : generated'[q] \in Nat /\ generated[q] <= generated'[q]
           /\ \A q \in Parties : \A x :
                 Known(x, generated, installation) /\ UsedUp(x, SignedPreKey(q), preKeys[q])
                 => UsedUp(x, SignedPreKey(q)', preKeys'[q])
<1>1. /\ generated \in [Parties -> Nat] /\ installation \in [Parties -> Nat]
      /\ preKeys \in [Parties -> SUBSET PreKeyIds]
  BY DEF SessionInv, OthersGood
<1>2. ASSUME \A q \in Parties : generated'[q] \in Nat /\ generated[q] <= generated'[q],
             UNCHANGED installation, \A q \in Parties : preKeys'[q] \subseteq preKeys[q]
      PROVE  /\ \A q \in Parties : generated'[q] \in Nat /\ generated[q] <= generated'[q]
             /\ \A q \in Parties : \A x :
                   UsedUp(x, SignedPreKey(q), preKeys[q]) => UsedUp(x, SignedPreKey(q)', preKeys'[q])
  BY <1>2 DEF UsedUp, SignedPreKey
<1>3. PICK p \in Parties :
        \/ Establish(p) \/ Encrypt(p) \/ Delete(p) \/ Reinstall(p)
        \/ \E m \in network : Receive(p, m)
  BY DEF Next
<1>4. CASE Establish(p)
  <2>1. generated' = [generated EXCEPT ![p] = @ + 2] /\ UNCHANGED <<preKeys, installation>>
    BY <1>4 DEF Establish
  <2>2. \A q \in Parties : generated'[q] \in Nat /\ generated[q] <= generated'[q]
    BY <1>1, <2>1
  <2> QED
    BY <1>2, <2>1, <2>2
<1>5. CASE Encrypt(p) \/ Delete(p)
  <2>1. UNCHANGED <<generated, preKeys, installation>>
    BY <1>5 DEF Encrypt, Delete
  <2>2. \A q \in Parties : generated'[q] \in Nat /\ generated[q] <= generated'[q]
    BY <1>1, <2>1
  <2> QED
    BY <1>2, <2>1, <2>2
<1>6. CASE Reinstall(p)
  <2>1. /\ UNCHANGED generated /\ installation' = [installation EXCEPT ![p] = @ + 1]
        /\ preKeys' = [preKeys EXCEPT ![p] = PreKeyIds]
    BY <1>6 DEF Reinstall
  <2>2. \A q \in Parties : generated'[q] \in Nat /\ generated[q] <= generated'[q]
    BY <1>1, <2>1
  <2>3. ASSUME NEW q \in Parties, NEW x, Known(x, generated, installation),
               UsedUp(x, SignedPreKey(q), preKeys[q])
        PROVE  UsedUp(x, SignedPreKey(q)', preKeys'[q])
    <3>1. CASE q = p
      <4>1. installation[p] + 1 \in Nat /\ installation[p] + 1 > installation[p]
        BY <1>1
      <4>2. x.signedPreKey # <<p, "signed", installation[p] + 1>>
        BY <2>3, <4>1 DEF Known
      <4>3. SignedPreKey(q)' = <<p, "signed", installation[p] + 1>>
        BY <1>1, <2>1, <3>1 DEF SignedPreKey
      <4> QED
        BY <4>2, <4>3 DEF UsedUp
    <3>2. CASE q # p
      BY <1>1, <2>1, <2>3, <3>2 DEF UsedUp, SignedPreKey
    <3> QED
      BY <3>1, <3>2
  <2> QED
    BY <2>2, <2>3
<1>7. CASE \E m \in network : Receive(p, m)
  <2>1. PICK m \in network : Receive(p, m)
    BY <1>7
  <2>2. UNCHANGED installation
    BY <2>1 DEF Receive
  <2>3. CASE Decrypt(p, m)
    <3> DEFINE ratcheted == LET q == Decrypted(WithSession(p, m), m, Fresh(p, 1))
                            IN  \E k \in DOMAIN q : q[k].ephemeral = Fresh(p, 1)
    <3>1. /\ generated' = [generated EXCEPT ![p] = IF ratcheted THEN @ + 1 ELSE @]
          /\ preKeys' = [preKeys EXCEPT ![p] = @ \ UsedPreKeys(p, m)]
      BY <2>3 DEF Decrypt
    <3> HIDE DEF ratcheted
    <3>2. /\ \A q \in Parties : generated'[q] \in Nat /\ generated[q] <= generated'[q]
          /\ \A q \in Parties : preKeys'[q] \subseteq preKeys[q]
      BY <1>1, <3>1
    <3> QED
      BY <1>2, <2>2, <3>2
  <2>4. CASE Refuse(p, m)
    <3>1. UNCHANGED <<generated, preKeys>>
      BY <2>4 DEF Refuse
    <3>2. \A q \in Parties : generated'[q] \in Nat /\ generated[q] <= generated'[q]
      BY <1>1, <3>1
    <3> QED
      BY <1>2, <2>2, <3>1, <3>2
  <2> QED
    BY <2>1, <2>3, <2>4 DEF Receive
<1> QED
  BY <1>3, <1>4, <1>5, <1>6, <1>7

\* What a step leaves to the other party, and what p has now.
LEMMA MovedParts ==
    ASSUME SessionInv, NEW p \in Parties, NEW b, NEW r, NEW lost, Moved(p, b, r, lost)
    PROVE  /\ record'[p] = r /\ forgotten'[p] = lost
           /\ \A q \in Parties \ {p} : record'[q] = record[q] /\ forgotten'[q] = forgotten[q]
           /\ \A q \in Parties : forgotten[q] \subseteq forgotten'[q]
           /\ \A q \in Parties : forgotten'[q] \subseteq Had(q) /\ Had(q) \subseteq Had(q)'
<1>1. record \in [Parties -> Records] /\ forgotten \in [Parties -> SUBSET KeyPairs]
  BY DEF SessionInv, RecordsGood, OthersGood
<1>2. /\ record'[p] = r /\ forgotten'[p] = lost
      /\ \A q \in Parties \ {p} : record'[q] = record[q] /\ forgotten'[q] = forgotten[q]
  BY <1>1 DEF Moved
<1>3. forgotten[p] \subseteq lost /\ lost \subseteq forgotten[p] \union DOMAIN record[p]
      /\ DOMAIN record[p] \subseteq DOMAIN r \union lost
  BY DEF Moved
<1>4. ASSUME NEW q \in Parties
      PROVE  /\ forgotten[q] \subseteq forgotten'[q]
             /\ forgotten'[q] \subseteq Had(q) /\ Had(q) \subseteq Had(q)'
  <2>1. CASE q = p
    BY <1>2, <1>3, <2>1 DEF Had
  <2>2. CASE q # p
    BY <1>2, <2>2 DEF Had
  <2> QED
    BY <2>1, <2>2
<1> QED
  BY <1>2, <1>4

\* The session in which m is read: what it has sent and heard, and whose secret
\* it was set up with.
LEMMA ReadParts ==
    ASSUME SessionInv, KeysInv, ReadingInv, OwedInv, NEW p \in Parties, NEW m \in network,
           NEW b, NEW s, NEW r, NEW lost, ReadsIn(p, m, b, s, r, lost)
    PROVE  /\ b \in KeyPairs /\ m \in Messages /\ m.ephemeral[1] = m.from
           /\ Fresh(p, 1) \in KeyPairs /\ Fresh(p, 1)[1] = p
           /\ Whole(s) /\ SendsInTurn(s, network) /\ HearsPeer(p, s, network)
           /\ m.key.x3dh = s.root.x3dh /\ r[b].root.x3dh = s.root.x3dh
           /\ Whole(r[b]) /\ r[b].pending = {}
<1>1. /\ m.from # p /\ b = m.key.x3dh.base /\ r[b] = Received(s, m, Fresh(p, 1))
      /\ Proper(b, s) /\ s.ephemeral[1] = p /\ Opens(s, m, Fresh(p, 1))
      /\ Continued(p, b, s, lost) \/ Begun(p, m, b, s, lost)
  BY DEF ReadsIn
<1>2. m \in Messages
  BY DEF SessionInv, NetworkGood
<1>3. b \in KeyPairs /\ Fresh(p, 1) \in KeyPairs /\ Fresh(p, 1)[1] = p
  BY <1>1, <1>2, KeysType DEF SessionInv, Fresh, Messages, RootKeys, X3DHs
<1>4. m.ephemeral[1] = m.from
  BY AllOwn
<1>5. Whole(s) /\ SendsInTurn(s, network) /\ HearsPeer(p, s, network)
  <2>1. CASE Continued(p, b, s, lost)
    <3>1. b \in DOMAIN record[p] /\ AsBefore(record[p][b], s)
      BY <2>1 DEF Continued
    <3>2. /\ Whole(record[p][b]) /\ SendsInTurn(record[p][b], network)
          /\ HearsPeer(p, record[p][b], network)
      BY <3>1 DEF ReadingInv, OwedInv, PartyReads, PartyOwed
    <3> QED
      BY ONLY <3>1, <3>2, SpentAsBefore, InTurnAsBefore
  <2>2. CASE Begun(p, m, b, s, lost)
    <3>1. DOMAIN s.chains = {} /\ s.previous = 0
      BY <2>2, IncomingParts DEF Begun
    <3> QED
      BY ONLY <3>1 DEF Whole, SendsInTurn, HearsPeer
  <2> QED
    BY <1>1, <2>1, <2>2
<1>6. PICK f : f = Fresh(p, 1)
  OBVIOUS
<1>7. /\ Whole(Received(s, m, f)) /\ Received(s, m, f).root.x3dh = s.root.x3dh
      /\ m.key.x3dh = s.root.x3dh
  <2>1. /\ b \in KeyPairs /\ Proper(b, s) /\ Whole(s) /\ m \in Messages /\ f \in KeyPairs
        /\ Opens(s, m, f) /\ s.ephemeral[1] = p /\ f[1] = p /\ m.ephemeral[1] # p
    BY <1>1, <1>2, <1>3, <1>4, <1>5, <1>6
  <2> QED
    BY ONLY <2>1, ReceivedGone
<1>8. Received(s, m, f).pending = {}
  <2>1. b \in KeyPairs /\ Proper(b, s) /\ m \in Messages /\ f \in KeyPairs
    BY <1>1, <1>2, <1>3, <1>6
  <2> QED
    BY ONLY <2>1, ReceivedParts
<1> QED
  BY <1>1, <1>2, <1>3, <1>4, <1>5, <1>6, <1>7, <1>8

\* A session as it is begun: with secret x, under key pair fresh.
JustBegun(s, x, fresh) ==
    /\ s.root = Mixed(RootKey(x), {fresh, x.signedPreKey}) /\ s.root.x3dh = x
    /\ s.pending = {x} /\ s.ephemeral = fresh
    /\ DOMAIN s.chains = {fresh} /\ s.remote = x.signedPreKey /\ s.previous = 0

\* The session p begins.
LEMMA BeginParts ==
    ASSUME SessionInv, NEW p \in Parties, NEW b, NEW r, NEW lost, Begins(p, b, r, lost)
    PROVE  /\ b \in KeyPairs /\ b = Fresh(p, 1) /\ b \in DOMAIN r
           /\ \E x \in X3DHs : /\ x.base = b /\ x.signedPreKey = SignedPreKey(Peer(p))
                               /\ JustBegun(r[b], x, Fresh(p, 2))
<1>1. /\ b = Fresh(p, 1) /\ b \in DOMAIN r /\ b \in KeyPairs
      /\ SignedPreKey(Peer(p)) \in KeyPairs
  BY KeysType DEF Begins, SessionInv
<1>2. PICK k \in SUBSET PreKeyIds : r[b] = Outgoing(b, SignedPreKey(Peer(p)), k, Fresh(p, 2))
  BY DEF Begins
<1>3. PICK spk : spk = SignedPreKey(Peer(p))
  OBVIOUS
<1>4. PICK x : x = X3DH(b, spk, k)
  OBVIOUS
<1>5. x.base = b /\ x.signedPreKey = spk /\ x \in X3DHs
  BY <1>1, <1>3, <1>4 DEF X3DH, X3DHs
<1>6. JustBegun(r[b], x, Fresh(p, 2))
  BY <1>2, <1>3, <1>4, <1>5 DEF Outgoing, Mixed, RootKey, Agreed, JustBegun
<1> QED
  BY <1>1, <1>3, <1>5, <1>6

\* The message p sends, and what its session is afterwards.
LEMMA SendParts ==
    ASSUME SessionInv, KeysInv, NEW p \in Parties, NEW b, NEW r, NEW lost, SendsIn(p, b, r, lost)
    PROVE  LET s == record[p][b]
               m == Message(p, s)
           IN  /\ b \in KeyPairs /\ Proper(b, s) /\ CanSend(s) /\ m.from = p
               /\ m.key = s.root /\ m.ephemeral = s.ephemeral /\ m.previous = s.previous
               /\ m.hello = s.pending /\ m.counter = s.chains[s.ephemeral].counter
               /\ r[b].root = s.root /\ r[b].ephemeral = s.ephemeral /\ r[b].remote = s.remote
               /\ r[b].previous = s.previous /\ r[b].pending = s.pending
               /\ DOMAIN r[b].chains = DOMAIN s.chains
               /\ \A e \in DOMAIN s.chains \ {s.ephemeral} : r[b].chains[e] = s.chains[e]
<1>1. PICK s : s = record[p][b]
  OBVIOUS
<1>2. b \in DOMAIN record[p] /\ CanSend(s) /\ r[b] = Advanced(s)
  BY <1>1 DEF SendsIn
<1>3. Proper(b, s) /\ b \in KeyPairs
  BY <1>1, <1>2, SecretsType, RecordsType DEF SessionInv, RecordsGood
<1>4. s \in Sessions
  BY <1>3 DEF Proper
<1>5. s.chains[s.ephemeral].key = s.root
  BY <1>1, <1>2 DEF KeysInv, OwnSessions, Sends
<1>6. PICK m : m = Message(p, s)
  OBVIOUS
<1>7. /\ m.from = p /\ m.key = s.root /\ m.ephemeral = s.ephemeral /\ m.previous = s.previous
      /\ m.hello = s.pending /\ m.counter = s.chains[s.ephemeral].counter
  BY <1>5, <1>6 DEF Message
<1>8. PICK t : t = Advanced(s)
  OBVIOUS
<1>9. /\ t.root = s.root /\ t.ephemeral = s.ephemeral /\ t.remote = s.remote
      /\ t.previous = s.previous /\ t.pending = s.pending
      /\ DOMAIN t.chains = DOMAIN s.chains
      /\ \A e \in DOMAIN s.chains \ {s.ephemeral} : t.chains[e] = s.chains[e]
  BY ONLY <1>2, <1>4, <1>8, AdvancedParts
<1> QED
  BY ONLY <1>1, <1>2, <1>3, <1>6, <1>7, <1>8, <1>9, ZenonT(60)

\* A step brings no secret but that of a session p begins.
LEMMA NewSecrets ==
    ASSUME SessionInv, KeysInv, ReadingInv, OwedInv, NEW p \in Parties,
           NEW b, NEW r, NEW lost, Step(p, b, r, lost), NEW x, x \in Secrets'
    PROVE  x \in Secrets \/ (Begins(p, b, r, lost) /\ x = r[b].root.x3dh)
<1>1. Moved(p, b, r, lost)
  BY DEF Step, Begins, SendsIn, Forgets, ReadsIn
<1>2. ASSUME b \in DOMAIN r PROVE r[b].root.x3dh \in Secrets \/ Begins(p, b, r, lost)
  <2>1. CASE SendsIn(p, b, r, lost)
    <3>1. b \in DOMAIN record[p] /\ r[b].root = record[p][b].root
      BY <2>1, SendParts DEF SendsIn
    <3> QED
      BY <3>1 DEF Secrets
  <2>2. CASE \E m \in network : \E s : ReadsIn(p, m, b, s, r, lost)
    <3>1. PICK m \in network : \E s : ReadsIn(p, m, b, s, r, lost)
      BY <2>2
    <3>2. PICK s : ReadsIn(p, m, b, s, r, lost)
      BY <3>1
    <3>3. r[b].root.x3dh = m.key.x3dh
      BY <3>2, ReadParts
    <3> QED
      BY <3>3 DEF Secrets
  <2> QED
    BY <1>2, <2>1, <2>2 DEF Step, Forgets
<1>3. ASSUME NEW m \in network' PROVE m.key.x3dh \in Secrets
  <2>1. CASE m \in network
    BY <2>1 DEF Secrets
  <2>2. CASE m \notin network
    <3>1. SendsIn(p, b, r, lost)
      BY <2>2 DEF Step, Begins, Forgets, ReadsIn
    <3>2. b \in DOMAIN record[p] /\ m.key = record[p][b].root
      BY <2>2, <3>1, SendParts DEF SendsIn
    <3> QED
      BY <3>2 DEF Secrets
  <2> QED
    BY <2>1, <2>2
<1>4. ASSUME NEW q \in Parties, NEW k \in DOMAIN record'[q], x = record'[q][k].root.x3dh
      PROVE  x \in Secrets \/ (Begins(p, b, r, lost) /\ x = r[b].root.x3dh)
  <2>1. CASE q # p
    BY <1>1, <1>4, <2>1, MovedParts, SMTT(30) DEF Secrets
  <2>2. CASE q = p /\ k # b
    <3>1. record'[p] = r
      BY <1>1, MovedParts
    <3>2. k \in DOMAIN record[p] /\ r[k].root = record[p][k].root
      BY <1>1, <1>4, <2>2, <3>1 DEF Moved, AsBefore
    <3> QED
      BY <1>4, <2>2, <3>1, <3>2 DEF Secrets
  <2>3. CASE q = p /\ k = b
    BY <1>1, <1>2, <1>4, <2>3, MovedParts
  <2> QED
    BY <2>1, <2>2, <2>3
<1>5. \/ \E m \in network' : x = m.key.x3dh
      \/ \E q \in Parties : \E k \in DOMAIN record'[q] : x = record'[q][k].root.x3dh
  BY DEF Secrets
<1> QED
  BY <1>3, <1>4, <1>5

\* A session after a step is the one the step was about, or as before.
LEMMA SessionsMoved ==
    ASSUME SessionInv, NEW p \in Parties, NEW b, NEW r, NEW lost, Moved(p, b, r, lost),
           NEW q \in Parties, NEW k, k \in DOMAIN record'[q]
    PROVE  \/ q = p /\ k = b /\ b \in DOMAIN r /\ record'[q][k] = r[b]
           \/ /\ k \in DOMAIN record[q] /\ AsBefore(record[q][k], record'[q][k])
              /\ k \in forgotten'[q] => k \in forgotten[q]
              /\ q # p \/ k # b
<1>1. /\ record'[p] = r /\ forgotten'[p] = lost
      /\ \A i \in Parties \ {p} : record'[i] = record[i] /\ forgotten'[i] = forgotten[i]
  BY MovedParts
<1>2. CASE q # p
  BY <1>1, <1>2, SameAsBefore
<1>3. CASE q = p
  BY <1>1, <1>3 DEF Moved
<1> QED
  BY <1>2, <1>3

\* What p is about to generate is neither a secret's base key nor a session's.
LEMMA FreshUnknown ==
    ASSUME SessionInv, ReadingInv, HadAreKnown, NEW p \in Parties, NEW n \in Nat, n > 0
    PROVE  /\ \A x \in Secrets : x.base # Fresh(p, n)
           /\ \A q \in Parties : Fresh(p, n) \notin Had(q)
<1>1. generated[p] \in Nat /\ generated[p] + n \in Nat /\ generated[p] + n > generated[p]
  BY DEF SessionInv, OthersGood
<1>2. PICK e, k : e = Fresh(p, n) /\ k = generated[p] + n
  OBVIOUS
<1>3. ~OwnEphemeral(p, e, generated[p]) /\ e[1] = p
  <2>1. e = <<p, "ephemeral", k>>
    BY <1>2 DEF Fresh
  <2>2. generated[p] \in Nat /\ k \in Nat /\ k > generated[p]
    BY <1>1, <1>2
  <2> QED
    BY ONLY p \in Parties, <2>1, <2>2, OwnEphemeralFacts
<1>4. \A x \in Secrets : OwnEphemeral(x.base[1], x.base, generated[x.base[1]])
  BY DEF ReadingInv, KeysKnown, Known, Secrets
<1> QED
  BY <1>2, <1>3, <1>4 DEF HadAreKnown

\* Every step keeps it.
LEMMA OriginStep ==
    ASSUME SessionInv, SessionInv', KeysInv, ReadingInv, ReadingInv', OwedInv, OriginInv, Next
    PROVE  OriginInv'
<1>1. PICK p \in Parties : \E b, r, lost : Step(p, b, r, lost)
  BY Steps
<1>2. PICK b, r, lost : Step(p, b, r, lost)
  BY <1>1
<1>3. Moved(p, b, r, lost)
  BY <1>2 DEF Step, Begins, SendsIn, Forgets, ReadsIn
<1>4. OneSecret /\ HellosTell /\ HadAreKnown /\ HadAreUsed
  BY DEF OriginInv
<1>5. /\ \A x \in Secrets : x.base # Fresh(p, 1)
      /\ \A q \in Parties : Fresh(p, 1) \notin Had(q)
  BY <1>4, FreshUnknown
<1>6. ASSUME Begins(p, b, r, lost) PROVE b = Fresh(p, 1) /\ r[b].root.x3dh.base = b
  <2>1. b = Fresh(p, 1) /\ \E x : x.base = b /\ JustBegun(r[b], x, Fresh(p, 2))
    BY <1>6, BeginParts
  <2> QED
    BY <2>1 DEF JustBegun
<1>7. \A x : x \in Secrets' => x \in Secrets \/ (Begins(p, b, r, lost) /\ x = r[b].root.x3dh)
  BY <1>2, NewSecrets
<1>8. \A q \in Parties : /\ forgotten'[q] \subseteq Had(q) /\ Had(q) \subseteq Had(q)'
                         /\ Had(q)' = DOMAIN record'[q] \union forgotten'[q]
  BY <1>3, MovedParts DEF Had
<1>9. OneSecret'
  <2>1. ASSUME NEW x, NEW y, x \in Secrets', y \in Secrets', x.base = y.base PROVE x = y
    BY <1>4, <1>5, <1>6, <1>7, <2>1 DEF OneSecret
  <2> QED
    BY <2>1 DEF OneSecret
<1>10. HellosTell'
  <2>1. ASSUME NEW m \in network' PROVE m.hello \subseteq {m.key.x3dh}
    <3>1. CASE m \in network
      BY <1>4, <3>1 DEF HellosTell
    <3>2. CASE m \notin network
      <4>1. SendsIn(p, b, r, lost) /\ m = Message(p, record[p][b])
        BY <1>2, <3>2 DEF Step, Begins, Forgets, ReadsIn, SendsIn
      <4>2. b \in DOMAIN record[p] /\ m.hello = record[p][b].pending /\ m.key = record[p][b].root
        BY <4>1, SendParts DEF SendsIn
      <4> QED
        BY <1>4, <4>2 DEF HellosTell
    <3> QED
      BY <3>1, <3>2
  <2>2. ASSUME NEW q \in Parties, NEW k \in DOMAIN record'[q]
        PROVE  record'[q][k].pending \subseteq {record'[q][k].root.x3dh}
    <3>1. CASE k \in DOMAIN record[q] /\ AsBefore(record[q][k], record'[q][k])
      BY <1>4, <3>1 DEF HellosTell, AsBefore
    <3>2. CASE q = p /\ k = b /\ b \in DOMAIN r /\ record'[q][k] = r[b]
      <4>1. CASE Begins(p, b, r, lost)
        <5>1. PICK x \in X3DHs : JustBegun(r[b], x, Fresh(p, 2))
          BY <4>1, BeginParts
        <5> QED
          BY <3>2, <5>1 DEF JustBegun
      <4>2. CASE SendsIn(p, b, r, lost)
        <5>1. b \in DOMAIN record[p] /\ r[b].root = record[p][b].root
              /\ r[b].pending = record[p][b].pending
          BY <4>2, SendParts DEF SendsIn
        <5> QED
          BY <1>4, <3>2, <5>1 DEF HellosTell
      <4>3. CASE \E m \in network : \E s : ReadsIn(p, m, b, s, r, lost)
        BY <3>2, <4>3, ReadParts
      <4> QED
        BY <1>2, <3>2, <4>1, <4>2, <4>3 DEF Step, Forgets
    <3> QED
      BY <1>3, <3>1, <3>2, SessionsMoved
  <2> QED
    BY <2>1, <2>2 DEF HellosTell
<1>11. /\ \A q \in Parties : generated[q] \in Nat /\ generated'[q] \in Nat /\ generated[q] <= generated'[q]
       /\ \A q \in Parties : Had(q) \subseteq KeyPairs
  BY StaysUsed, RecordsType DEF SessionInv, OthersGood, RecordsGood, Had
<1>12. HadAreKnown'
  <2>1. ASSUME NEW q \in Parties, NEW k, k \in Had(q)' PROVE OwnEphemeral(k[1], k, generated'[k[1]])
    <3>1. CASE k \in DOMAIN record'[q]
      <4>1. OwnEphemeral(record'[q][k].root.x3dh.base[1], record'[q][k].root.x3dh.base,
                         generated'[record'[q][k].root.x3dh.base[1]])
        BY <3>1 DEF ReadingInv, KeysKnown, Known
      <4>2. record'[q][k].root.x3dh.base = k
        BY <3>1 DEF SessionInv, RecordsGood, Good, Proper, Linked
      <4> QED
        BY <4>1, <4>2
    <3>2. CASE k \in Had(q)
      <4>1. OwnEphemeral(k[1], k, generated[k[1]]) /\ k[1] \in Parties
        BY <1>4, <1>11, <3>2 DEF HadAreKnown, KeyPairs
      <4>2. PICK i, n, j : i = k[1] /\ n = generated[k[1]] /\ j = generated'[k[1]]
        OBVIOUS
      <4>3. i \in Parties /\ n \in Nat /\ j \in Nat /\ n <= j /\ OwnEphemeral(i, k, n)
        BY <1>11, <4>1, <4>2
      <4>4. OwnEphemeral(i, k, j)
        BY ONLY <4>3, OwnEphemeralFacts
      <4> QED
        BY <4>2, <4>4
    <3> QED
      BY <1>8, <2>1, <3>1, <3>2
  <2>2. ASSUME NEW m \in network' PROVE m.key.x3dh.base \in Had(m.from)'
    <3>1. CASE m \in network
      <4>1. m.from \in Parties /\ m.key.x3dh.base \in Had(m.from)
        BY <1>4, <3>1 DEF HadAreKnown, SessionInv, NetworkGood, Messages
      <4> QED
        BY <1>8, <4>1
    <3>2. CASE m \notin network
      <4>1. SendsIn(p, b, r, lost) /\ m = Message(p, record[p][b])
        BY <1>2, <3>2 DEF Step, Begins, Forgets, ReadsIn, SendsIn
      <4>2. m.from = p /\ m.key.x3dh.base = b /\ b \in Had(p)
        BY <4>1, SendParts DEF SendsIn, Proper, Linked, Had
      <4> QED
        BY <1>8, <4>2
    <3> QED
      BY <3>1, <3>2
  <2> QED
    BY <2>1, <2>2 DEF HadAreKnown
<1>13. ASSUME NEW q \in Parties, NEW x, x \in Secrets', x.base \in Had(q)'
       PROVE  UsedUp(x, SignedPreKey(q)', preKeys'[q])
  <2>1. CASE x.base \in DOMAIN record'[q]
    <3>1. PICK y : y = record'[q][x.base].root.x3dh
      OBVIOUS
    <3>2. UsedUp(y, SignedPreKey(q)', preKeys'[q])
      BY <2>1, <3>1 DEF ReadingInv, PartyReads
    <3>3. y.base = x.base
      BY <2>1, <3>1 DEF SessionInv, RecordsGood, Good, Proper, Linked
    <3>4. y \in Secrets'
      BY <2>1, <3>1 DEF Secrets
    <3> QED
      BY <1>9, <1>13, <3>2, <3>3, <3>4 DEF OneSecret
  <2>2. CASE x.base \in Had(q)
    <3>1. x \in Secrets
      BY <1>5, <1>6, <1>7, <1>13, <2>2
    <3>2. UsedUp(x, SignedPreKey(q), preKeys[q])
      BY <1>4, <2>2, <3>1 DEF HadAreUsed
    <3>3. Known(x, generated, installation)
      BY <3>1 DEF ReadingInv, KeysKnown, Secrets
    <3> QED
      BY <3>2, <3>3, StaysUsed
  <2> QED
    BY <1>8, <1>13, <2>1, <2>2
<1>14. ASSUME NEW q \in Parties, NEW k, k \in DOMAIN record'[q], k \in forgotten'[q]
       PROVE  record'[q][k].root.x3dh.preKey = {}
  <2>1. CASE k \in DOMAIN record[q] /\ AsBefore(record[q][k], record'[q][k]) /\ k \in forgotten[q]
    BY <1>4, <2>1 DEF HadAreUsed, AsBefore
  <2>2. CASE q = p /\ k = b /\ b \in DOMAIN r /\ record'[q][k] = r[b]
    <3>1. b \in Had(p) /\ b \in lost
      BY <1>3, <1>8, <1>14, <2>2, MovedParts
    <3>2. CASE SendsIn(p, b, r, lost)
      <4>1. b \in DOMAIN record[p] /\ b \in forgotten[p] /\ r[b].root = record[p][b].root
        BY <3>1, <3>2, SendParts DEF SendsIn
      <4> QED
        BY <1>4, <2>2, <4>1 DEF HadAreUsed
    <3>3. CASE \E m \in network : \E s : ReadsIn(p, m, b, s, r, lost)
      <4>1. PICK m \in network : \E s : ReadsIn(p, m, b, s, r, lost)
        BY <3>3
      <4>2. PICK s : ReadsIn(p, m, b, s, r, lost)
        BY <4>1
      <4>3. /\ r[b].root.x3dh = s.root.x3dh /\ m.key.x3dh = s.root.x3dh
            /\ b = m.key.x3dh.base
        BY <4>2, ReadParts DEF ReadsIn
      <4>4. CASE Continued(p, b, s, lost)
        <5>1. b \in DOMAIN record[p] /\ b \in forgotten[p] /\ s.root = record[p][b].root
          BY <3>1, <4>4 DEF Continued, AsBefore
        <5> QED
          BY <1>4, <2>2, <4>3, <5>1 DEF HadAreUsed
      <4>5. CASE Begun(p, m, b, s, lost)
        <5>1. PICK h \in m.hello : s = Incoming(b, SignedPreKey(p), Loaded(p, h))
          BY <4>5 DEF Begun
        <5>2. s.root.x3dh = X3DH(b, SignedPreKey(p), Loaded(p, h))
          BY <5>1, IncomingParts
        <5>3. UsedUp(s.root.x3dh, SignedPreKey(p), preKeys[p])
          BY <1>4, <3>1, <4>3 DEF HadAreUsed, Secrets
        <5> QED
          BY <2>2, <4>3, <5>2, <5>3 DEF UsedUp, X3DH, Loaded
      <4> QED
        BY <4>2, <4>4, <4>5 DEF ReadsIn
    <3> QED
      BY <1>2, <1>5, <1>6, <2>2, <3>1, <3>2, <3>3 DEF Step, Forgets
  <2> QED
    BY <1>3, <1>14, <2>1, <2>2, SessionsMoved
<1>15. HadAreUsed'
  BY <1>13, <1>14 DEF HadAreUsed
<1> QED
  BY <1>9, <1>10, <1>12, <1>15 DEF OriginInv

\* The invariant of where sessions come from.
THEOREM SessionsHaveOrigin == Spec => []OriginInv
<1>1. Init => OriginInv
  <2> SUFFICES ASSUME Init PROVE OriginInv
    OBVIOUS
  <2>1. \A p \in Parties : record[p] = EmptyRecord /\ DOMAIN record[p] = {} /\ forgotten[p] = {}
    BY EmptyRecordType DEF Init
  <2>2. network = {}
    BY DEF Init
  <2>3. Secrets = {} /\ \A p \in Parties : Had(p) = {}
    BY <2>1, <2>2 DEF Secrets, Had
  <2> QED
    BY <2>1, <2>2, <2>3 DEF OriginInv, OneSecret, HellosTell, HadAreKnown, HadAreUsed
<1>2. SessionInv /\ SessionInv' /\ KeysInv /\ ReadingInv /\ ReadingInv' /\ OwedInv /\ OriginInv
      /\ [Next]_vars => OriginInv'
  <2> SUFFICES ASSUME SessionInv, SessionInv', KeysInv, ReadingInv, ReadingInv', OwedInv, OriginInv,
                      [Next]_vars
               PROVE  OriginInv'
    OBVIOUS
  <2>1. CASE Next
    BY <2>1, OriginStep
  <2>2. CASE UNCHANGED vars
    BY <2>2 DEF vars, OriginInv, OneSecret, HellosTell, HadAreKnown, HadAreUsed, Secrets, Had,
                UsedUp, SignedPreKey
  <2> QED
    BY <2>1, <2>2
<1> QED
  BY <1>1, <1>2, SessionsWellFormed, KeysStayOwn, ReadKeysAreGone, SentInOrder, PTL DEF Spec

-----------------------------------------------------------------------------
(* What one party sends in one session is a line: every key it sends under   *)
(* continues the one before by two secrets, its peer's turn and its own.  A  *)
(* party that holds the session has a chain for every key of the peer's line *)
(* but the one that comes next, and that one it will derive when it ratchets.*)

\* Key l continues key k.
Prefix(k, l) ==
    /\ k.x3dh = l.x3dh /\ Len(k.mixed) <= Len(l.mixed)
    /\ \A i \in 1..Len(k.mixed) : k.mixed[i] = l.mixed[i]

\* The sessions p has had once only.
Original(p) == DOMAIN record[p] \ forgotten[p]

\* Message m is of a session that its sender has had once only.
Straight(m) == m.key.x3dh.preKey # {} \/ m.key.x3dh.base \notin forgotten[m.from]

SentOn(q, b, k, e) ==
    \E m \in network : /\ m.from = q /\ m.key = k /\ m.ephemeral = e /\ k.x3dh.base = b
                       /\ Straight(m)

\* In session b, q has sent with key k and key pair e, or is about to.
OnLine(q, b, k, e) ==
    \/ SentOn(q, b, k, e)
    \/ b \in Original(q) /\ k = record[q][b].root /\ e = record[q][b].ephemeral

\* One key pair, one key.
KeyOfEphemeral ==
    /\ \A m, l \in network : m.ephemeral = l.ephemeral => m.key = l.key
    /\ \A q \in Parties : \A b \in DOMAIN record[q] : \A m \in network :
          m.ephemeral = record[q][b].ephemeral => m.key = record[q][b].root

LinesGrow ==
    \A q \in Parties : \A b, k, e :
        OnLine(q, b, k, e) =>
            /\ \A l, f : OnLine(q, b, l, f) /\ Len(k.mixed) <= Len(l.mixed) => Prefix(k, l)
            /\ b \in Original(q) => Prefix(k, record[q][b].root)

\* Session s has a chain for e, or will derive its key k when it ratchets.
Follows(s, k, e) == e \in DOMAIN s.chains \/ k = Mixed(s.root, Agreed(s.ephemeral, e))

LinesFollowed ==
    \A p, q \in Parties : p # q => \A b \in Original(p) : \A k, e :
        OnLine(q, b, k, e) => Follows(record[p][b], k, e)

\* What a party begins with in a session its peer has never had.
LinesBegin ==
    \A p, q \in Parties : p # q => \A b, k, e :
        OnLine(q, b, k, e) /\ b \notin Had(p)
        => k = Mixed(RootKey(k.x3dh), Agreed(k.x3dh.signedPreKey, e))

\* A session that ratcheted has heard the peer.
HasHeard ==
    \A p \in Parties : \A b \in DOMAIN record[p] :
        Len(record[p][b].root.mixed) = 1 \/ record[p][b].remote \in DOMAIN record[p][b].chains

LineInv == KeyOfEphemeral /\ LinesGrow /\ LinesFollowed /\ LinesBegin /\ HasHeard

\* The invariants before.
Sound == SessionInv /\ KeysInv /\ ReadingInv /\ OwedInv /\ OriginInv

\* Prefix is an order, and mixing continues a key.
LEMMA PrefixFacts ==
    ASSUME NEW k \in RootKeys
    PROVE  /\ Prefix(k, k)
           /\ \A l \in RootKeys : Prefix(k, l) /\ Len(k.mixed) = Len(l.mixed) => k = l
           /\ \A l, n \in RootKeys : Prefix(k, l) /\ Prefix(l, n) => Prefix(k, n)
           /\ \A x \in SUBSET KeyPairs : Prefix(k, Mixed(k, x))
<1>1. k.mixed \in Seq(SUBSET KeyPairs) /\ Len(k.mixed) \in Nat
  BY DEF RootKeys
<1>2. Prefix(k, k)
  BY <1>1 DEF Prefix
<1>3. ASSUME NEW l \in RootKeys, Prefix(k, l), Len(k.mixed) = Len(l.mixed)
      PROVE  k = l
  <2>1. l.mixed \in Seq(SUBSET KeyPairs) /\ Len(l.mixed) \in Nat
    BY DEF RootKeys
  <2>2. k.mixed = l.mixed
    BY <1>1, <1>3, <2>1 DEF Prefix
  <2>3. k.x3dh = l.x3dh
    BY <1>3 DEF Prefix
  <2> QED
    BY <2>2, <2>3 DEF RootKeys
<1>4. ASSUME NEW l \in RootKeys, NEW n \in RootKeys, Prefix(k, l), Prefix(l, n)
      PROVE  Prefix(k, n)
  <2>1. Len(l.mixed) \in Nat /\ Len(n.mixed) \in Nat
    BY DEF RootKeys
  <2> QED
    BY <1>1, <1>4, <2>1 DEF Prefix
<1>5. ASSUME NEW x \in SUBSET KeyPairs
      PROVE  Prefix(k, Mixed(k, x))
  <2>1. Mixed(k, x).x3dh = k.x3dh
    BY MixedType
  <2>2. Mixed(k, x).mixed = Append(k.mixed, x)
    BY DEF Mixed, RootKeys
  <2> QED
    BY <1>1, <2>1, <2>2 DEF Prefix
<1> QED
  BY <1>2, <1>3, <1>4, <1>5

\* There are two parties.
LEMMA TwoParties ==
    /\ \A p, q, i \in Parties : p # q /\ p # i => q = i
    /\ \A p \in Parties : Peer(p) \in Parties /\ Peer(p) # p
<1>1. PICK p, q \in Parties : p # q /\ Parties = {p, q}
  BY PartiesAssumption
<1>2. \A i \in Parties : \E j \in Parties : j # i
  BY <1>1
<1> QED
  BY <1>1, <1>2 DEF Peer

\* What is on q's line is a key q sends with, of a session q has or had.
LEMMA LineFacts ==
    ASSUME Sound, NEW q \in Parties, NEW b, NEW k, NEW e, OnLine(q, b, k, e)
    PROVE  /\ k \in RootKeys /\ k.x3dh.base = b /\ Len(k.mixed) \in Nat /\ Len(k.mixed) > 0
           /\ e \in KeyPairs /\ e[1] = q /\ SendingKey(q, e, k)
           /\ b \in Had(q) /\ k.x3dh \in Secrets /\ b[1] \in Parties
<1>1. CASE SentOn(q, b, k, e)
  <2>1. PICK m \in network : m.from = q /\ m.key = k /\ m.ephemeral = e /\ k.x3dh.base = b
    BY <1>1 DEF SentOn
  <2>2. m \in Messages /\ m.ephemeral[1] = q
    BY <2>1, AllOwn DEF Sound
  <2>3. SendingKey(q, e, k) /\ b \in Had(q) /\ k.x3dh \in Secrets
    BY <2>1 DEF Sound, KeysInv, SentBy, OriginInv, HadAreKnown, Secrets
  <2>4. k \in RootKeys /\ e \in KeyPairs /\ b[1] \in Parties
    BY <2>1, <2>2 DEF Messages, RootKeys, X3DHs, KeyPairs
  <2> QED
    BY <2>1, <2>2, <2>3, <2>4 DEF SendingKey, EndsWith, RootKeys
<1>2. CASE b \in Original(q) /\ k = record[q][b].root /\ e = record[q][b].ephemeral
  <2>1. b \in DOMAIN record[q]
    BY <1>2 DEF Original
  <2>2. Proper(b, record[q][b])
    BY <2>1, SecretsType DEF Sound
  <2>3. k \in RootKeys /\ e \in KeyPairs /\ k.x3dh.base = b
    BY <1>2, <2>2 DEF Proper, Linked, Sessions
  <2>4. OwnEphemeral(q, e, generated[q]) /\ SendingKey(q, e, k)
    BY <1>2, <2>1 DEF Sound, KeysInv, OwnSessions, Sends
  <2>5. generated[q] \in Nat
    BY DEF Sound, SessionInv, OthersGood
  <2>6. e[1] = q
    BY <2>4, <2>5, OwnEphemeralFacts
  <2>7. b \in Had(q) /\ k.x3dh \in Secrets
    BY <1>2, <2>1 DEF Had, Secrets
  <2>8. b[1] \in Parties
    BY <2>3 DEF RootKeys, X3DHs, KeyPairs
  <2> QED
    BY <2>3, <2>4, <2>6, <2>7, <2>8 DEF SendingKey, EndsWith, RootKeys
<1> QED
  BY <1>1, <1>2 DEF OnLine

\* Where one key is on the line all of q's messages in that session are.
LEMMA LineStraight ==
    ASSUME Sound, NEW q \in Parties, NEW b, NEW k, NEW e, OnLine(q, b, k, e),
           NEW m \in network, m.from = q, m.key.x3dh.base = b
    PROVE  Straight(m) /\ m.key.x3dh = k.x3dh /\ OnLine(q, b, m.key, m.ephemeral)
<1>1. k.x3dh \in Secrets /\ k.x3dh.base = b
  BY LineFacts
<1>2. m.key.x3dh \in Secrets
  BY DEF Secrets
<1>3. m.key.x3dh = k.x3dh
  BY <1>1, <1>2 DEF Sound, OriginInv, OneSecret
<1>4. Straight(m)
  BY <1>3 DEF OnLine, SentOn, Straight, Original
<1> QED
  BY <1>3, <1>4 DEF OnLine, SentOn

\* A key of the line tells the key pair.
LEMMA LineEphemeral ==
    ASSUME Sound, NEW q \in Parties, NEW b, NEW k, NEW e, NEW f,
           OnLine(q, b, k, e), OnLine(q, b, k, f)
    PROVE  e = f
<1>1. /\ k \in RootKeys /\ k.x3dh.base[1] \in Parties
      /\ e[1] = q /\ SendingKey(q, e, k) /\ f[1] = q /\ SendingKey(q, f, k)
  BY LineFacts
<1> QED
  BY ONLY <1>1, q \in Parties, OneSender

\* The message was read in a chain s had: no ratchet step.
ReadOn(s, m, t) ==
    /\ t.root = s.root /\ t.ephemeral = s.ephemeral /\ t.remote = s.remote
    /\ t.previous = s.previous /\ DOMAIN t.chains = DOMAIN s.chains
    /\ m.ephemeral \in DOMAIN s.chains
    /\ \A e \in DOMAIN s.chains \ {m.ephemeral} : t.chains[e] = s.chains[e]
    /\ t.chains[m.ephemeral] = Taken(s.chains[m.ephemeral], m.counter)
    /\ HasKey(s.chains[m.ephemeral], m.counter) /\ s.chains[m.ephemeral].key = m.key

\* The message made s take a ratchet step.
Turned(s, m, fresh, t) ==
    /\ m.key = Mixed(s.root, Agreed(s.ephemeral, m.ephemeral))
    /\ t.root = Mixed(m.key, Agreed(fresh, m.ephemeral))
    /\ t.ephemeral = fresh /\ t.remote = m.ephemeral /\ t.previous = PreviousCounter(s)
    /\ m.ephemeral \notin DOMAIN s.chains
    /\ DOMAIN t.chains = (DOMAIN s.chains \ {s.ephemeral}) \union {m.ephemeral, fresh}
    /\ t.chains[m.ephemeral] = Taken(NewChain("receiving", m.key), m.counter)
    /\ \A e \in DOMAIN t.chains \ {m.ephemeral, fresh} :
          t.chains[e] = IF e = s.remote /\ s.chains[e].type = "receiving"
                        THEN ClosedChain(s.chains[e], m.previous) ELSE s.chains[e]

\* What reading does to the session, in either case.
LEMMA ReadShape ==
    ASSUME SessionInv, KeysInv, ReadingInv, OwedInv, NEW p \in Parties, NEW m \in network,
           NEW b, NEW s, NEW r, NEW lost, ReadsIn(p, m, b, s, r, lost)
    PROVE  ReadOn(s, m, r[b]) \/ Turned(s, m, Fresh(p, 1), r[b])
<1>1. PICK f : f = Fresh(p, 1)
  OBVIOUS
<1>2. /\ b \in KeyPairs /\ Proper(b, s) /\ m \in Messages /\ f \in KeyPairs
      /\ r[b] = Received(s, m, f) /\ Opens(s, m, f)
      /\ m.ephemeral # s.ephemeral /\ m.ephemeral # f
  <2>1. m.ephemeral[1] = m.from /\ m.from # p /\ s.ephemeral[1] = p /\ f[1] = p
    BY <1>1, ReadParts DEF ReadsIn
  <2> QED
    BY <1>1, <2>1, ReadParts DEF ReadsIn
<1>3. PICK t : t = Received(s, m, f)
  OBVIOUS
<1>4. PICK g : g = ForMessage(s, m, f)
  OBVIOUS
<1>5. /\ t.root = g.root /\ t.ephemeral = g.ephemeral /\ t.remote = g.remote
      /\ t.previous = g.previous
      /\ DOMAIN t.chains = DOMAIN g.chains
      /\ t.chains[m.ephemeral] = Taken(g.chains[m.ephemeral], m.counter)
      /\ \A e \in DOMAIN g.chains \ {m.ephemeral} : t.chains[e] = g.chains[e]
  <2>1. b \in KeyPairs /\ Proper(b, s) /\ m \in Messages /\ f \in KeyPairs
    BY <1>2
  <2> QED
    BY ONLY <1>3, <1>4, <2>1, ReceivedParts
<1>6. HasKey(g.chains[m.ephemeral], m.counter) /\ g.chains[m.ephemeral].key = m.key
  BY <1>2, <1>4 DEF Opens
<1>7. CASE m.ephemeral \in DOMAIN s.chains
  <2>1. g = s
    BY <1>4, <1>7 DEF ForMessage
  <2> QED
    BY ONLY <1>2, <1>3, <1>5, <1>6, <1>7, <2>1 DEF ReadOn
<1>8. CASE m.ephemeral \notin DOMAIN s.chains
  <2>1. g = Ratcheted(s, m.ephemeral, m.previous, f)
    BY <1>4, <1>8 DEF ForMessage
  <2>2. PICK k : k = Mixed(s.root, Agreed(s.ephemeral, m.ephemeral))
    OBVIOUS
  <2>3. s \in Sessions /\ m.ephemeral \in KeyPairs /\ m.previous \in Nat
    BY <1>2 DEF Proper, Messages
  <2>4. /\ g.root = Mixed(k, Agreed(f, m.ephemeral)) /\ g.ephemeral = f /\ g.remote = m.ephemeral
        /\ g.previous = PreviousCounter(s)
        /\ DOMAIN g.chains = (DOMAIN s.chains \ {s.ephemeral}) \union {m.ephemeral, f}
        /\ \A e \in DOMAIN g.chains :
              g.chains[e] = IF e = f THEN NewChain("sending", g.root)
                            ELSE IF e = m.ephemeral THEN NewChain("receiving", k)
                            ELSE IF e = s.remote /\ s.chains[e].type = "receiving"
                            THEN ClosedChain(s.chains[e], m.previous) ELSE s.chains[e]
    BY ONLY <2>1, <2>2, <2>3, RatchetedParts
  <2>5. g.chains[m.ephemeral] = NewChain("receiving", k)
    BY ONLY <1>2, <2>4
  <2>6. k = m.key
    BY ONLY <1>6, <2>5 DEF NewChain
  <2>7. \A e \in DOMAIN g.chains \ {m.ephemeral, f} :
          t.chains[e] = IF e = s.remote /\ s.chains[e].type = "receiving"
                        THEN ClosedChain(s.chains[e], m.previous) ELSE s.chains[e]
    BY ONLY <1>5, <2>4
  <2> QED
    BY ONLY <1>1, <1>2, <1>3, <1>5, <1>8, <2>2, <2>4, <2>5, <2>6, <2>7 DEF Turned
<1> QED
  BY <1>7, <1>8

\* A line goes on only where p begins a session or reads in one it has had
\* once only; and when p sends, it sends what its line says it is about to.
LEMMA LineMoved ==
    ASSUME Sound, NEW p \in Parties, NEW b, NEW r, NEW lost, Step(p, b, r, lost),
           NEW q \in Parties, NEW c, NEW k, NEW e, OnLine(q, c, k, e)'
    PROVE  \/ OnLine(q, c, k, e)
           \/ /\ q = p /\ c = b /\ b \in DOMAIN r \ lost /\ k = r[b].root /\ e = r[b].ephemeral
              /\ \/ Begins(p, b, r, lost)
                 \/ \E m \in network : \E s : ReadsIn(p, m, b, s, r, lost) /\ Turned(s, m, Fresh(p, 1), r[b])
<1>1. Moved(p, b, r, lost)
  BY DEF Step, Begins, SendsIn, Forgets, ReadsIn
<1>2. /\ record'[p] = r /\ forgotten'[p] = lost
      /\ \A i \in Parties : forgotten[i] \subseteq forgotten'[i]
      /\ \A i \in Parties \ {p} : record'[i] = record[i] /\ forgotten'[i] = forgotten[i]
  BY <1>1, MovedParts DEF Sound
<1>3. \A m \in network : Straight(m)' => Straight(m)
  <2>1. \A m \in network : m.from \in Parties
    BY SecretsType DEF Sound
  <2> QED
    BY <1>2, <2>1 DEF Straight
<1>4. CASE SentOn(q, c, k, e)'
  <2>1. PICK m \in network' : /\ m.from = q /\ m.key = k /\ m.ephemeral = e /\ k.x3dh.base = c
                              /\ Straight(m)'
    BY <1>4 DEF SentOn
  <2>2. CASE m \in network
    BY <1>3, <2>1, <2>2 DEF OnLine, SentOn
  <2>3. CASE m \notin network
    <3>1. SendsIn(p, b, r, lost) /\ m = Message(p, record[p][b])
      BY <2>1, <2>3 DEF Step, Begins, Forgets, ReadsIn, SendsIn
    <3>2. /\ m.from = p /\ m.key = record[p][b].root /\ m.ephemeral = record[p][b].ephemeral
          /\ b \in DOMAIN record[p] /\ b = m.key.x3dh.base
      BY <3>1, SendParts DEF SendsIn, Proper, Linked, Sound
    <3>3. b \notin forgotten[p]
      <4>1. ASSUME b \in forgotten[p] PROVE m.key.x3dh.preKey = {}
        BY <3>2, <4>1 DEF Sound, OriginInv, HadAreUsed
      <4> QED
        BY <1>2, <2>1, <3>2, <4>1 DEF Straight
    <3> QED
      BY <2>1, <3>2, <3>3 DEF OnLine, Original
  <2> QED
    BY <2>2, <2>3
<1>5. CASE c \in Original(q)' /\ k = record'[q][c].root /\ e = record'[q][c].ephemeral
  <2>1. c \in DOMAIN record'[q] /\ c \notin forgotten'[q] /\ c \notin forgotten[q]
    BY <1>2, <1>5 DEF Original
  <2>2. CASE c \in DOMAIN record[q] /\ AsBefore(record[q][c], record'[q][c])
    BY <1>5, <2>1, <2>2 DEF OnLine, Original, AsBefore
  <2>3. CASE q = p /\ c = b /\ b \in DOMAIN r /\ record'[q][c] = r[b]
    <3>1. b \in DOMAIN r \ lost /\ k = r[b].root /\ e = r[b].ephemeral
      BY <1>2, <1>5, <2>1, <2>3
    <3>2. CASE SendsIn(p, b, r, lost)
      <4>1. b \in DOMAIN record[p] /\ r[b].root = record[p][b].root
            /\ r[b].ephemeral = record[p][b].ephemeral
        BY <3>2, SendParts DEF SendsIn, Sound
      <4> QED
        BY <2>1, <2>3, <3>1, <4>1 DEF OnLine, Original
    <3>3. CASE \E m \in network : \E s : ReadsIn(p, m, b, s, r, lost)
      <4>1. PICK m \in network : \E s : ReadsIn(p, m, b, s, r, lost)
        BY <3>3
      <4>2. PICK s : ReadsIn(p, m, b, s, r, lost)
        BY <4>1
      <4>3. CASE ReadOn(s, m, r[b])
        <5>1. CASE Continued(p, b, s, lost)
          BY <2>1, <2>3, <3>1, <4>3, <5>1 DEF OnLine, Original, Continued, AsBefore, ReadOn
        <5>2. CASE Begun(p, m, b, s, lost)
          BY <4>3, <5>2, IncomingParts DEF Begun, ReadOn
        <5> QED
          BY <4>2, <5>1, <5>2 DEF ReadsIn
      <4>4. CASE Turned(s, m, Fresh(p, 1), r[b])
        BY <2>3, <3>1, <4>2, <4>4
      <4> QED
        BY <4>2, <4>3, <4>4, ReadShape DEF Sound
    <3> QED
      BY <2>3, <3>1, <3>2, <3>3 DEF Step, Forgets
  <2> QED
    BY <1>1, <2>1, <2>2, <2>3, SessionsMoved DEF Sound
<1> QED
  BY <1>4, <1>5 DEF OnLine

\* A session begun now and kept is one p never had.
LEMMA FirstTime ==
    ASSUME Sound, NEW p \in Parties, NEW b, NEW r, NEW lost, Moved(p, b, r, lost), b \notin lost,
           \/ Begins(p, b, r, lost)
           \/ \E m \in network : \E s : Begun(p, m, b, s, lost)
    PROVE  b \notin Had(p)
<1>1. CASE Begins(p, b, r, lost)
  BY <1>1, FreshUnknown DEF Begins, Sound, OriginInv
<1>2. CASE \E m \in network : \E s : Begun(p, m, b, s, lost)
  BY <1>2 DEF Begun, Moved, Had
<1> QED
  BY <1>1, <1>2

\* A session p continues and keeps is one it had, and has had once only.
LEMMA SameSession ==
    ASSUME NEW p \in Parties, NEW b, NEW s, NEW r, NEW lost, Moved(p, b, r, lost), b \notin lost,
           Continued(p, b, s, lost)
    PROVE  /\ b \in Original(p) /\ s.root = record[p][b].root /\ s.ephemeral = record[p][b].ephemeral
           /\ s.remote = record[p][b].remote /\ s.previous = record[p][b].previous
           /\ s.chains = record[p][b].chains
BY DEF Moved, Original, Continued, AsBefore

\* Taking a ratchet step adds two secrets.
LEMMA TurnedGrows ==
    ASSUME Sound, NEW p \in Parties, NEW m \in network, NEW b, NEW s, NEW r, NEW lost,
           ReadsIn(p, m, b, s, r, lost), Turned(s, m, Fresh(p, 1), r[b])
    PROVE  /\ s.root \in RootKeys /\ m.key \in RootKeys /\ r[b].root \in RootKeys
           /\ Len(s.root.mixed) \in Nat /\ Len(m.key.mixed) = Len(s.root.mixed) + 1
           /\ Len(r[b].root.mixed) = Len(s.root.mixed) + 2
           /\ Prefix(s.root, m.key) /\ Prefix(m.key, r[b].root) /\ Prefix(s.root, r[b].root)
           /\ s.ephemeral \in KeyPairs /\ s.ephemeral[1] = p
<1>1. /\ s \in Sessions /\ m.ephemeral \in KeyPairs /\ Fresh(p, 1) \in KeyPairs
      /\ s.ephemeral[1] = p
  BY ReadParts DEF ReadsIn, Proper, Messages, Sound
<1>2. s.root \in RootKeys /\ s.ephemeral \in KeyPairs /\ Len(s.root.mixed) \in Nat
  BY <1>1 DEF Sessions, RootKeys
<1>3. PICK x, y : x = Agreed(s.ephemeral, m.ephemeral) /\ y = Agreed(Fresh(p, 1), m.ephemeral)
  OBVIOUS
<1>4. x \in SUBSET KeyPairs /\ y \in SUBSET KeyPairs
  BY <1>1, <1>2, <1>3 DEF Agreed
<1>5. m.key = Mixed(s.root, x) /\ r[b].root = Mixed(m.key, y)
  BY <1>3 DEF Turned
<1>6. m.key \in RootKeys /\ Len(m.key.mixed) = Len(s.root.mixed) + 1 /\ Prefix(s.root, m.key)
  BY ONLY <1>2, <1>4, <1>5, MixedType, MixedLast, PrefixFacts
<1>7. /\ r[b].root \in RootKeys /\ Len(r[b].root.mixed) = Len(m.key.mixed) + 1
      /\ Prefix(m.key, r[b].root)
  BY ONLY <1>4, <1>5, <1>6, MixedType, MixedLast, PrefixFacts
<1>8. Prefix(s.root, r[b].root)
  BY ONLY <1>2, <1>6, <1>7, PrefixFacts
<1> QED
  BY <1>1, <1>2, <1>6, <1>7, <1>8

\* What p's session is afterwards continues p's line so far.
LEMMA RootGrows ==
    ASSUME Sound, LinesGrow, NEW p \in Parties, NEW b, NEW r, NEW lost, Step(p, b, r, lost),
           b \in DOMAIN r \ lost, NEW k, NEW e, OnLine(p, b, k, e)
    PROVE  /\ b \in Original(p) /\ Prefix(k, r[b].root) /\ ~Begins(p, b, r, lost)
           /\ \A m \in network : \A s :
                 ReadsIn(p, m, b, s, r, lost) /\ Turned(s, m, Fresh(p, 1), r[b])
                 => Len(k.mixed) < Len(r[b].root.mixed)
<1>1. Moved(p, b, r, lost)
  BY DEF Step, Begins, SendsIn, Forgets, ReadsIn
<1>2. b \in Had(p) /\ k \in RootKeys /\ Len(k.mixed) \in Nat
  BY LineFacts
<1>3. ~Begins(p, b, r, lost) /\ \A m \in network : \A s : ~Begun(p, m, b, s, lost)
  BY <1>1, <1>2, FirstTime
<1>4. b \in Original(p) => Prefix(k, record[p][b].root)
  BY DEF LinesGrow
<1>5. ASSUME NEW m \in network, NEW s, ReadsIn(p, m, b, s, r, lost)
      PROVE  /\ b \in Original(p) /\ Prefix(k, r[b].root)
             /\ Turned(s, m, Fresh(p, 1), r[b]) => Len(k.mixed) < Len(r[b].root.mixed)
  <2>1. b \in Original(p) /\ s.root = record[p][b].root
    BY <1>1, <1>3, <1>5, SameSession DEF ReadsIn
  <2>2. Prefix(k, s.root)
    BY <1>4, <2>1
  <2>3. CASE ReadOn(s, m, r[b]) /\ ~Turned(s, m, Fresh(p, 1), r[b])
    BY <2>1, <2>2, <2>3 DEF ReadOn
  <2>4. CASE Turned(s, m, Fresh(p, 1), r[b])
    <3>1. /\ s.root \in RootKeys /\ r[b].root \in RootKeys
          /\ Len(s.root.mixed) \in Nat /\ Len(r[b].root.mixed) = Len(s.root.mixed) + 2
          /\ Prefix(s.root, r[b].root)
      BY <1>5, <2>4, TurnedGrows
    <3>2. Prefix(k, r[b].root)
      BY ONLY <1>2, <2>2, <3>1, PrefixFacts
    <3>3. Len(k.mixed) <= Len(s.root.mixed)
      BY <2>2 DEF Prefix
    <3> QED
      BY <1>2, <2>1, <3>1, <3>2, <3>3
  <2> QED
    BY <1>5, <2>3, <2>4, ReadShape DEF Sound
<1>6. CASE SendsIn(p, b, r, lost)
  <2>1. b \in Original(p) /\ r[b].root = record[p][b].root
    BY <1>6, SendParts DEF SendsIn, Sound, Original
  <2> QED
    BY <1>3, <1>4, <1>5, <2>1
<1>7. CASE \E m \in network : \E s : ReadsIn(p, m, b, s, r, lost)
  BY <1>3, <1>5, <1>7
<1> QED
  BY <1>3, <1>5, <1>6, <1>7 DEF Step, Forgets

\* Lines go on growing.
LEMMA LinesGrowStep ==
    ASSUME Sound, SessionInv', LineInv, NEW p \in Parties, NEW b, NEW r, NEW lost,
           Step(p, b, r, lost)
    PROVE  LinesGrow'
<1>1. Moved(p, b, r, lost)
  BY DEF Step, Begins, SendsIn, Forgets, ReadsIn
<1>2. /\ record'[p] = r /\ forgotten'[p] = lost
      /\ \A q \in Parties : forgotten[q] \subseteq forgotten'[q]
  BY <1>1, MovedParts DEF Sound
<1>3. ASSUME b \in DOMAIN r PROVE r[b].root \in RootKeys
  BY <1>2, <1>3 DEF SessionInv, RecordsGood, Good, Proper, Sessions
<1>4. LinesGrow
  BY DEF LineInv
<1>5. ASSUME NEW q \in Parties, NEW c, NEW k, NEW e, OnLine(q, c, k, e)'
      PROVE  /\ \A l, f : OnLine(q, c, l, f)' /\ Len(k.mixed) <= Len(l.mixed) => Prefix(k, l)
             /\ c \in Original(q)' => Prefix(k, record'[q][c].root)
  <2> DEFINE New(i, j) ==
        /\ q = p /\ c = b /\ b \in DOMAIN r \ lost /\ i = r[b].root /\ j = r[b].ephemeral
        /\ \/ Begins(p, b, r, lost)
           \/ \E m \in network : \E s : ReadsIn(p, m, b, s, r, lost) /\ Turned(s, m, Fresh(p, 1), r[b])
  <2>1. \A i, j : OnLine(q, c, i, j)' => OnLine(q, c, i, j) \/ New(i, j)
    BY LineMoved
  <2>2. ASSUME NEW i, NEW j, NEW l, NEW f, OnLine(q, c, i, j), New(l, f)
        PROVE  Prefix(i, l) /\ Len(i.mixed) \in Nat /\ Len(l.mixed) \in Nat /\ Len(i.mixed) < Len(l.mixed)
    <3>1. OnLine(p, b, i, j) /\ b \in DOMAIN r \ lost /\ l = r[b].root
      BY <2>2
    <3>2. Prefix(i, l) /\ Len(i.mixed) < Len(l.mixed)
      BY <1>4, <2>2, <3>1, RootGrows
    <3>3. Len(i.mixed) \in Nat /\ Len(l.mixed) \in Nat
      BY <1>3, <3>1, LineFacts DEF RootKeys
    <3> QED
      BY <3>2, <3>3
  <2>3. ASSUME NEW l, NEW f, OnLine(q, c, l, f)', Len(k.mixed) <= Len(l.mixed)
        PROVE  Prefix(k, l)
    <3>1. CASE OnLine(q, c, k, e) /\ OnLine(q, c, l, f)
      BY <1>4, <2>3, <3>1 DEF LinesGrow
    <3>2. CASE OnLine(q, c, k, e) /\ New(l, f)
      BY <2>2, <3>2
    <3>3. CASE New(k, e) /\ OnLine(q, c, l, f)
      <4>1. Len(l.mixed) \in Nat /\ Len(k.mixed) \in Nat /\ Len(l.mixed) < Len(k.mixed)
        BY <2>2, <3>3
      <4> QED
        BY <2>3, <4>1
    <3>4. CASE New(k, e) /\ New(l, f)
      BY <1>3, <3>4, PrefixFacts
    <3> QED
      BY <1>5, <2>1, <2>3, <3>1, <3>2, <3>3, <3>4
  <2>4. ASSUME c \in Original(q)' PROVE Prefix(k, record'[q][c].root)
    <3>1. c \in DOMAIN record'[q] /\ c \notin forgotten'[q] /\ c \notin forgotten[q]
      BY <1>2, <2>4 DEF Original
    <3>2. CASE c \in DOMAIN record[q] /\ AsBefore(record[q][c], record'[q][c]) /\ (q # p \/ c # b)
      <4>1. OnLine(q, c, k, e) /\ c \in Original(q) /\ record'[q][c].root = record[q][c].root
        BY <1>5, <2>1, <3>1, <3>2 DEF Original, AsBefore
      <4> QED
        BY <1>4, <4>1 DEF LinesGrow
    <3>3. CASE q = p /\ c = b /\ b \in DOMAIN r /\ record'[q][c] = r[b]
      <4>1. b \in DOMAIN r \ lost
        BY <1>2, <3>1, <3>3
      <4>2. CASE OnLine(q, c, k, e)
        BY <1>4, <3>3, <4>1, <4>2, RootGrows
      <4>3. CASE New(k, e)
        BY <1>3, <3>3, <4>1, <4>3, PrefixFacts
      <4> QED
        BY <1>5, <2>1, <4>2, <4>3
    <3> QED
      BY <1>1, <3>1, <3>2, <3>3, SessionsMoved DEF Sound
  <2> QED
    BY <2>3, <2>4
<1> QED
  BY <1>5 DEF LinesGrow

\* Nothing was sent with a key pair still to be generated.
LEMMA FreshUnsent ==
    ASSUME Sound, NEW p \in Parties, NEW n \in Nat, n > 0
    PROVE  \A m \in network : m.ephemeral # Fresh(p, n)
<1>1. generated[p] \in Nat /\ OwnSent(p, generated[p], network)
  BY AllOwn DEF Sound
<1>2. PICK g, k : g = generated[p] /\ k = generated[p] + n
  OBVIOUS
<1>3. g \in Nat /\ k \in Nat /\ k > g /\ OwnSent(p, g, network) /\ Fresh(p, n) = <<p, "ephemeral", k>>
  BY <1>1, <1>2 DEF Fresh
<1>4. \A m \in network : m.ephemeral # <<p, "ephemeral", k>>
  BY ONLY p \in Parties, <1>3, NothingSentYet
<1> QED
  BY ONLY <1>3, <1>4

\* A party sends in its sessions with key pairs of its own.
LEMMA OwnFirst ==
    ASSUME Sound, NEW q \in Parties, NEW c \in DOMAIN record[q]
    PROVE  record[q][c].ephemeral[1] = q
<1>1. PICK e, n : e = record[q][c].ephemeral /\ n = generated[q]
  OBVIOUS
<1>2. OwnEphemeral(q, e, n) /\ n \in Nat
  BY <1>1 DEF Sound, KeysInv, OwnSessions, Sends, SessionInv, OthersGood
<1>3. e[1] = q
  BY ONLY q \in Parties, <1>2, OwnEphemeralFacts
<1> QED
  BY <1>1, <1>3

\* A key pair goes on to tell its key.
LEMMA KeyOfEphemeralStep ==
    ASSUME Sound, LineInv, NEW p \in Parties, NEW b, NEW r, NEW lost, Step(p, b, r, lost)
    PROVE  KeyOfEphemeral'
<1>1. Moved(p, b, r, lost)
  BY DEF Step, Begins, SendsIn, Forgets, ReadsIn
<1>2. ASSUME NEW m \in network', m \notin network
      PROVE  /\ SendsIn(p, b, r, lost) /\ b \in DOMAIN record[p]
             /\ m = Message(p, record[p][b])
             /\ m.key = record[p][b].root /\ m.ephemeral = record[p][b].ephemeral
  <2>1. SendsIn(p, b, r, lost) /\ m = Message(p, record[p][b])
    BY <1>2 DEF Step, Begins, Forgets, ReadsIn, SendsIn
  <2> QED
    BY <2>1, SendParts DEF SendsIn, Sound
<1>3. \A q \in Parties : \A c \in DOMAIN record[q] : record[q][c].ephemeral[1] = q
  BY OwnFirst
<1>4. ASSUME NEW m \in network', NEW l \in network', m.ephemeral = l.ephemeral
      PROVE  m.key = l.key
  BY <1>2, <1>4 DEF LineInv, KeyOfEphemeral
<1>5. ASSUME NEW q \in Parties, NEW c \in DOMAIN record'[q], NEW m \in network',
             m.ephemeral = record'[q][c].ephemeral
      PROVE  m.key = record'[q][c].root
  <2>1. CASE /\ c \in DOMAIN record[q] /\ AsBefore(record[q][c], record'[q][c])
             /\ q # p \/ c # b
    <3>1. CASE m \in network
      BY <1>5, <2>1, <3>1 DEF LineInv, KeyOfEphemeral, AsBefore
    <3>2. CASE m \notin network
      <4>1. record[p][b].ephemeral = record[q][c].ephemeral /\ b \in DOMAIN record[p]
        BY <1>2, <1>5, <2>1, <3>2 DEF AsBefore
      <4>2. q = p
        BY <1>3, <2>1, <4>1
      <4>3. b = c
        BY <2>1, <4>1, <4>2 DEF Sound, KeysInv, OwnSessions
      <4> QED
        BY <2>1, <4>2, <4>3
    <3> QED
      BY <3>1, <3>2
  <2>2. CASE q = p /\ c = b /\ b \in DOMAIN r /\ record'[q][c] = r[b]
    <3>1. CASE Begins(p, b, r, lost)
      <4>1. r[b].ephemeral = Fresh(p, 2) /\ network' = network
        <5>1. PICK x \in X3DHs : JustBegun(r[b], x, Fresh(p, 2))
          BY <3>1, BeginParts DEF Sound
        <5> QED
          BY <3>1, <5>1 DEF Begins, JustBegun
      <4> QED
        BY <1>5, <2>2, <4>1, FreshUnsent
    <3>2. CASE SendsIn(p, b, r, lost)
      <4>1. /\ b \in DOMAIN record[p] /\ r[b].root = record[p][b].root
            /\ r[b].ephemeral = record[p][b].ephemeral
        BY <3>2, SendParts DEF SendsIn, Sound
      <4> QED
        BY <1>2, <1>5, <2>2, <4>1 DEF LineInv, KeyOfEphemeral
    <3>3. CASE \E l \in network : \E s : ReadsIn(p, l, b, s, r, lost)
      <4>1. PICK l \in network : \E s : ReadsIn(p, l, b, s, r, lost)
        BY <3>3
      <4>2. PICK s : ReadsIn(p, l, b, s, r, lost)
        BY <4>1
      <4>3. network' = network
        BY <4>2 DEF ReadsIn
      <4>4. CASE ReadOn(s, l, r[b])
        <5>1. b \in DOMAIN record[p] /\ AsBefore(record[p][b], s)
          <6>1. CASE Begun(p, l, b, s, lost)
            BY <4>4, <6>1, IncomingParts DEF Begun, ReadOn
          <6> QED
            BY <4>2, <6>1 DEF ReadsIn, Continued
        <5> QED
          BY <1>5, <2>2, <4>3, <4>4, <5>1 DEF ReadOn, AsBefore, LineInv, KeyOfEphemeral
      <4>5. CASE Turned(s, l, Fresh(p, 1), r[b])
        <5>1. m.ephemeral = Fresh(p, 1)
          BY <1>5, <2>2, <4>5 DEF Turned
        <5> QED
          BY <4>3, <5>1, FreshUnsent
      <4> QED
        BY <4>2, <4>4, <4>5, ReadShape DEF Sound
    <3> QED
      BY <2>2, <3>1, <3>2, <3>3 DEF Step, Forgets
  <2> QED
    BY <1>1, <2>1, <2>2, SessionsMoved DEF Sound
<1> QED
  BY <1>4, <1>5 DEF KeyOfEphemeral

\* A session that ratchets has heard the peer.
LEMMA HasHeardStep ==
    ASSUME Sound, LineInv, NEW p \in Parties, NEW b, NEW r, NEW lost, Step(p, b, r, lost)
    PROVE  HasHeard'
<1>1. Moved(p, b, r, lost)
  BY DEF Step, Begins, SendsIn, Forgets, ReadsIn
<1> DEFINE Hears(s) == Len(s.root.mixed) = 1 \/ s.remote \in DOMAIN s.chains
<1>2. \A q \in Parties : \A c \in DOMAIN record[q] : Hears(record[q][c])
  BY DEF LineInv, HasHeard
<1>3. \A s, t : AsBefore(s, t) /\ Hears(s) => Hears(t)
  BY DEF AsBefore
<1>4. ASSUME b \in DOMAIN r PROVE Hears(r[b])
  <2>1. CASE Begins(p, b, r, lost)
    <3>1. PICK x \in X3DHs : JustBegun(r[b], x, Fresh(p, 2))
      BY <2>1, BeginParts DEF Sound
    <3>2. r[b].root.mixed = Append(<<>>, {Fresh(p, 2), x.signedPreKey})
      BY <3>1 DEF JustBegun, Mixed, RootKey
    <3>3. Len(r[b].root.mixed) = 1
      BY <3>2
    <3> QED
      BY <3>3
  <2>2. CASE SendsIn(p, b, r, lost)
    <3>1. /\ b \in DOMAIN record[p] /\ r[b].root = record[p][b].root
          /\ r[b].remote = record[p][b].remote
          /\ DOMAIN r[b].chains = DOMAIN record[p][b].chains
      BY <2>2, SendParts DEF SendsIn, Sound
    <3> QED
      BY <1>2, <3>1
  <2>3. CASE \E m \in network : \E s : ReadsIn(p, m, b, s, r, lost)
    <3>1. PICK m \in network : \E s : ReadsIn(p, m, b, s, r, lost)
      BY <2>3
    <3>2. PICK s : ReadsIn(p, m, b, s, r, lost)
      BY <3>1
    <3>3. CASE ReadOn(s, m, r[b])
      <4>1. b \in DOMAIN record[p] /\ AsBefore(record[p][b], s)
        <5>1. CASE Begun(p, m, b, s, lost)
          BY <3>3, <5>1, IncomingParts DEF Begun, ReadOn
        <5> QED
          BY <3>2, <5>1 DEF ReadsIn, Continued
      <4>2. Hears(s)
        BY <1>2, <1>3, <4>1
      <4> QED
        BY <3>3, <4>2 DEF ReadOn
    <3>4. CASE Turned(s, m, Fresh(p, 1), r[b])
      BY <3>4 DEF Turned
    <3> QED
      BY <3>2, <3>3, <3>4, ReadShape DEF Sound
  <2> QED
    BY <1>4, <2>1, <2>2, <2>3 DEF Step, Forgets
<1> HIDE DEF Hears
<1>5. ASSUME NEW q \in Parties, NEW c \in DOMAIN record'[q] PROVE Hears(record'[q][c])
  BY <1>1, <1>2, <1>3, <1>4, SessionsMoved DEF Sound
<1> QED
  BY <1>5 DEF HasHeard, Hears

\* What a party begins with.
LEMMA LinesBeginStep ==
    ASSUME Sound, LineInv, NEW p \in Parties, NEW b, NEW r, NEW lost, Step(p, b, r, lost)
    PROVE  LinesBegin'
<1>1. Moved(p, b, r, lost)
  BY DEF Step, Begins, SendsIn, Forgets, ReadsIn
<1>2. \A q \in Parties : Had(q) \subseteq Had(q)'
  BY <1>1, MovedParts DEF Sound
<1>3. ASSUME NEW o \in Parties, NEW q \in Parties, o # q, NEW c, NEW k, NEW e,
             OnLine(q, c, k, e)', c \notin Had(o)'
      PROVE  k = Mixed(RootKey(k.x3dh), Agreed(k.x3dh.signedPreKey, e))
  <2>1. c \notin Had(o)
    BY <1>2, <1>3
  <2>2. CASE OnLine(q, c, k, e)
    BY <1>3, <2>1, <2>2 DEF LineInv, LinesBegin
  <2>3. CASE q = p /\ c = b /\ k = r[b].root /\ e = r[b].ephemeral /\ Begins(p, b, r, lost)
    <3>1. PICK x \in X3DHs : JustBegun(r[b], x, Fresh(p, 2))
      BY <2>3, BeginParts DEF Sound
    <3> QED
      BY <2>3, <3>1 DEF JustBegun, Agreed
  <2>4. CASE q = p /\ c = b /\ \E m \in network : \E s : ReadsIn(p, m, b, s, r, lost)
    <3>1. PICK m \in network : m.from # p /\ b = m.key.x3dh.base
      BY <2>4 DEF ReadsIn
    <3>2. m.from = o
      BY <1>3, <2>4, <3>1, TwoParties, SecretsType DEF Sound
    <3>3. b \in Had(o)
      BY <3>1, <3>2 DEF Sound, OriginInv, HadAreKnown
    <3> QED
      BY <2>1, <2>4, <3>3
  <2> QED
    BY <1>3, <2>2, <2>3, <2>4, LineMoved
<1> QED
  BY <1>3 DEF LinesBegin

\* The key before has one secret less.
LEMMA UnmixedFacts ==
    ASSUME NEW k \in RootKeys
    PROVE  /\ Unmixed(k) \in RootKeys /\ Unmixed(k).x3dh = k.x3dh
           /\ Len(k.mixed) \in Nat
           /\ Len(k.mixed) > 0 => Len(Unmixed(k).mixed) = Len(k.mixed) - 1
           /\ Len(k.mixed) = 0 => Len(Unmixed(k).mixed) = 0
<1>1. k.mixed \in Seq(SUBSET KeyPairs) /\ Len(k.mixed) \in Nat /\ k.x3dh \in X3DHs
  BY DEF RootKeys
<1>2. PICK n : n = Len(k.mixed)
  OBVIOUS
<1>3. PICK u : u = SubSeq(k.mixed, 1, n - 1)
  OBVIOUS
<1>4. /\ u \in Seq(SUBSET KeyPairs)
      /\ n > 0 => Len(u) = n - 1
      /\ n = 0 => Len(u) = 0
  BY <1>1, <1>2, <1>3
<1>5. Unmixed(k) = [k EXCEPT !.mixed = u]
  BY <1>2, <1>3 DEF Unmixed
<1>6. Unmixed(k) = [x3dh |-> k.x3dh, mixed |-> u]
  BY <1>5 DEF RootKeys
<1> QED
  BY <1>1, <1>2, <1>4, <1>6 DEF RootKeys

\* A chain of o's that is not its own was begun by a message of the other party.
LEMMA PeersChain ==
    ASSUME Sound, NEW o \in Parties, NEW b \in DOMAIN record[o],
           NEW e \in DOMAIN record[o][b].chains, e # record[o][b].ephemeral
    PROVE  /\ \E m \in network : /\ m.from # o /\ m.ephemeral = e
                                 /\ m.key = record[o][b].chains[e].key /\ m.key.x3dh.base = b
           /\ record[o][b].chains[e].type = "receiving" /\ record[o][b].chains[e].counter > 0
           /\ record[o][b].chains[e] \in Chains
<1>1. HearsPeer(o, record[o][b], network)
  BY DEF Sound, OwedInv, PartyOwed
<1>2. BegunByPeer(o, e, record[o][b].chains[e], network)
  BY <1>1 DEF HearsPeer
<1>3. Proper(b, record[o][b])
  BY SecretsType DEF Sound
<1>4. record[o][b].chains[e].key.x3dh.base = b /\ record[o][b].chains[e] \in Chains
  BY <1>3, ChainMapsType DEF Proper, Linked, Sessions
<1> QED
  BY <1>2, <1>4 DEF BegunByPeer

\* Who sends the message that makes p take a ratchet step waits for an answer
\* to just that.
LEMMA PeerWaits ==
    ASSUME Sound, LineInv, NEW p \in Parties, NEW m \in network, NEW b, NEW s, NEW r, NEW lost,
           ReadsIn(p, m, b, s, r, lost), b \notin lost, Turned(s, m, Fresh(p, 1), r[b]),
           NEW o \in Parties, o # p, b \in Original(o)
    PROVE  record[o][b].root = m.key /\ record[o][b].ephemeral = m.ephemeral
<1>1. PICK t : t = record[o][b]
  OBVIOUS
<1>2. /\ Moved(p, b, r, lost) /\ b \in DOMAIN record[o] /\ m.from = o /\ b = m.key.x3dh.base
  BY TwoParties, SecretsType DEF ReadsIn, Original, Sound
<1>3. OnLine(o, b, t.root, t.ephemeral)
  BY <1>1 DEF OnLine
<1>4. OnLine(o, b, m.key, m.ephemeral)
  BY <1>2, <1>3, LineStraight
<1>5. /\ t.root \in RootKeys /\ Len(t.root.mixed) \in Nat /\ Len(t.root.mixed) > 0
      /\ m.key \in RootKeys /\ Len(m.key.mixed) \in Nat /\ Len(m.key.mixed) > 0
  BY <1>3, <1>4, LineFacts
<1>6. Prefix(m.key, t.root)
  BY <1>1, <1>4 DEF LineInv, LinesGrow
<1>7. ASSUME Len(m.key.mixed) < Len(t.root.mixed) PROVE FALSE
  <2>1. t.remote \in DOMAIN t.chains
    <3>1. Len(t.root.mixed) = 1 \/ t.remote \in DOMAIN t.chains
      BY <1>1, <1>2 DEF LineInv, HasHeard
    <3>2. PICK i, j : i = Len(m.key.mixed) /\ j = Len(t.root.mixed)
      OBVIOUS
    <3>3. i \in Nat /\ j \in Nat /\ i > 0 /\ i < j
      BY <1>5, <1>7, <3>2
    <3>4. j # 1
      BY ONLY <3>3
    <3> QED
      BY <3>1, <3>2, <3>4
  <2>2. t.chains[t.remote].key = Unmixed(t.root)
    BY <1>1, <1>2, <2>1 DEF Sound, OwedInv, PartyOwed, HearsPeer
  <2>3. Len(Unmixed(t.root).mixed) = Len(t.root.mixed) - 1
    BY <1>5, UnmixedFacts
  <2>4. t.remote # t.ephemeral
    <3>1. t.chains[t.ephemeral].key = t.root
      BY <1>1, <1>2 DEF Sound, KeysInv, OwnSessions, Sends
    <3> QED
      BY <1>5, <2>2, <2>3, <3>1
  <2>5. PICK l \in network : l.from # o /\ l.key = Unmixed(t.root) /\ l.key.x3dh.base = b
    <3>1. PICK e : e = t.remote
      OBVIOUS
    <3>2. /\ b \in DOMAIN record[o] /\ e \in DOMAIN record[o][b].chains
          /\ e # record[o][b].ephemeral /\ record[o][b].chains[e].key = Unmixed(t.root)
      BY <1>1, <1>2, <2>1, <2>2, <2>4, <3>1
    <3> QED
      BY ONLY Sound, o \in Parties, <3>2, PeersChain
  <2>6. l.from = p /\ b \in Had(p)
    BY <2>5, TwoParties, SecretsType DEF Sound, OriginInv, HadAreKnown
  <2>7. Continued(p, b, s, lost)
    BY <1>2, <2>6, FirstTime DEF ReadsIn
  <2>8. b \in Original(p) /\ s.root = record[p][b].root
    BY <1>2, <2>7, SameSession
  <2>9. OnLine(p, b, l.key, l.ephemeral)
    BY <2>5, <2>6, <2>8 DEF OnLine, SentOn, Straight, Original
  <2>10. Prefix(l.key, s.root)
    BY <2>8, <2>9 DEF LineInv, LinesGrow
  <2>11. Len(s.root.mixed) \in Nat /\ Len(m.key.mixed) = Len(s.root.mixed) + 1
    BY TurnedGrows
  <2>12. Len(l.key.mixed) <= Len(s.root.mixed) /\ Len(l.key.mixed) = Len(t.root.mixed) - 1
    BY <2>3, <2>5, <2>10 DEF Prefix
  <2> QED
    BY <1>5, <1>7, <2>11, <2>12
<1>8. Len(m.key.mixed) = Len(t.root.mixed)
  BY <1>5, <1>6, <1>7 DEF Prefix
<1>9. m.key = t.root
  BY <1>5, <1>6, <1>8, PrefixFacts
<1>10. OnLine(o, b, m.key, t.ephemeral)
  BY <1>3, <1>9
<1>11. m.ephemeral = t.ephemeral
  BY <1>4, <1>10, LineEphemeral
<1> QED
  BY <1>1, <1>9, <1>11

\* The session in which p tries a message follows the line of its sender.
LEMMA TriedFollows ==
    ASSUME Sound, LineInv, NEW p \in Parties, NEW m \in network, NEW b, NEW s, NEW r, NEW lost,
           ReadsIn(p, m, b, s, r, lost), b \notin lost,
           NEW q \in Parties, q # p, NEW k, NEW e, OnLine(q, b, k, e)
    PROVE  Follows(s, k, e)
<1>1. Moved(p, b, r, lost) /\ m.from = q /\ m.key.x3dh.base = b
  BY TwoParties, SecretsType DEF ReadsIn, Sound
<1>2. CASE Continued(p, b, s, lost)
  BY <1>1, <1>2, SameSession DEF LineInv, LinesFollowed, Follows
<1>3. CASE Begun(p, m, b, s, lost)
  <2>1. b \notin Had(p)
    BY <1>1, <1>3, FirstTime
  <2>2. k = Mixed(RootKey(k.x3dh), Agreed(k.x3dh.signedPreKey, e))
    BY <2>1 DEF LineInv, LinesBegin
  <2>3. m.key.x3dh = k.x3dh
    BY <1>1, LineStraight
  <2>4. m.key.x3dh = s.root.x3dh
    BY ReadParts DEF Sound
  <2>5. PICK h : s = Incoming(b, SignedPreKey(p), Loaded(p, h))
    BY <1>3 DEF Begun
  <2>6. PICK x : /\ x = X3DH(b, SignedPreKey(p), Loaded(p, h)) /\ s.root = RootKey(x)
                 /\ s.root.x3dh = x /\ s.ephemeral = SignedPreKey(p)
    BY <2>5, IncomingParts
  <2>7. x.signedPreKey = SignedPreKey(p)
    BY <2>6 DEF X3DH
  <2> QED
    BY <2>2, <2>3, <2>4, <2>6, <2>7 DEF Follows
<1> QED
  BY <1>2, <1>3 DEF ReadsIn

\* After a ratchet step it goes on to follow it.
LEMMA TurnedFollows ==
    ASSUME Sound, LineInv, NEW p \in Parties, NEW m \in network, NEW b, NEW s, NEW r, NEW lost,
           ReadsIn(p, m, b, s, r, lost), b \notin lost, Turned(s, m, Fresh(p, 1), r[b]),
           NEW q \in Parties, q # p, NEW k, NEW e, OnLine(q, b, k, e)
    PROVE  e \in DOMAIN r[b].chains
<1>1. m.from = q /\ m.key.x3dh.base = b
  BY TwoParties, SecretsType DEF ReadsIn, Sound
<1>2. /\ k \in RootKeys /\ e[1] = q /\ Len(k.mixed) \in Nat /\ e \in KeyPairs
  BY LineFacts
<1>3. /\ s.root \in RootKeys /\ m.key \in RootKeys /\ Len(s.root.mixed) \in Nat
      /\ Len(m.key.mixed) = Len(s.root.mixed) + 1
      /\ s.ephemeral \in KeyPairs /\ s.ephemeral[1] = p
  BY TurnedGrows
<1>4. OnLine(q, b, m.key, m.ephemeral)
  BY <1>1, LineStraight
<1>5. CASE e \in DOMAIN s.chains
  BY <1>2, <1>3, <1>5 DEF Turned
<1>6. CASE k = Mixed(s.root, Agreed(s.ephemeral, e))
  <2>1. Len(k.mixed) = Len(s.root.mixed) + 1
    <3>1. Agreed(s.ephemeral, e) \in SUBSET KeyPairs
      BY <1>2, <1>3 DEF Agreed
    <3> QED
      BY <1>3, <1>6, <3>1, MixedLast
  <2>2. Prefix(k, m.key)
    BY <1>3, <1>4, <2>1 DEF LineInv, LinesGrow
  <2>3. k = m.key
    BY <1>2, <1>3, <2>1, <2>2, PrefixFacts
  <2>4. e = m.ephemeral
    BY <1>4, <2>3, LineEphemeral
  <2> QED
    BY <2>4 DEF Turned
<1>7. Follows(s, k, e)
  BY TriedFollows
<1> QED
  BY <1>5, <1>6, <1>7 DEF Follows

\* Lines go on to be followed.
LEMMA LinesFollowedStep ==
    ASSUME Sound, LineInv, NEW p \in Parties, NEW b, NEW r, NEW lost, Step(p, b, r, lost)
    PROVE  LinesFollowed'
<1>1. Moved(p, b, r, lost)
  BY DEF Step, Begins, SendsIn, Forgets, ReadsIn
<1>2. /\ record'[p] = r /\ forgotten'[p] = lost
      /\ \A i \in Parties : forgotten[i] \subseteq forgotten'[i]
      /\ \A i \in Parties \ {p} : record'[i] = record[i] /\ forgotten'[i] = forgotten[i]
  BY <1>1, MovedParts DEF Sound
<1>3. ASSUME NEW o \in Parties, NEW q \in Parties, o # q, NEW c \in Original(o)',
             NEW k, NEW e, OnLine(q, c, k, e)'
      PROVE  Follows(record'[o][c], k, e)
  <2>1. c \in DOMAIN record'[o] /\ c \notin forgotten'[o] /\ c \notin forgotten[o]
    BY <1>2, <1>3 DEF Original
  <2>2. CASE OnLine(q, c, k, e)
    <3>1. CASE c \in DOMAIN record[o] /\ AsBefore(record[o][c], record'[o][c])
      <4>1. c \in Original(o)
        BY <2>1, <3>1 DEF Original
      <4>2. Follows(record[o][c], k, e)
        BY <1>3, <2>2, <4>1 DEF LineInv, LinesFollowed
      <4> QED
        BY <3>1, <4>2 DEF Follows, AsBefore
    <3>2. CASE o = p /\ c = b /\ b \in DOMAIN r /\ record'[o][c] = r[b]
      <4>1. b \notin lost /\ OnLine(q, b, k, e) /\ b \in Had(q)
        BY <1>2, <2>1, <2>2, <3>2, LineFacts
      <4>2. CASE Begins(p, b, r, lost)
        BY <4>1, <4>2, FreshUnknown DEF Begins, Sound, OriginInv
      <4>3. CASE SendsIn(p, b, r, lost)
        <5>1. /\ b \in DOMAIN record[p] /\ r[b].root = record[p][b].root
              /\ r[b].ephemeral = record[p][b].ephemeral
              /\ DOMAIN r[b].chains = DOMAIN record[p][b].chains
          BY <4>3, SendParts DEF SendsIn, Sound
        <5>2. Follows(record[p][b], k, e)
          BY <1>3, <2>1, <2>2, <3>2, <5>1 DEF LineInv, LinesFollowed, Original
        <5> QED
          BY <3>2, <5>1, <5>2 DEF Follows
      <4>4. CASE \E m \in network : \E s : ReadsIn(p, m, b, s, r, lost)
        <5>1. PICK m \in network : \E s : ReadsIn(p, m, b, s, r, lost)
          BY <4>4
        <5>2. PICK s : ReadsIn(p, m, b, s, r, lost)
          BY <5>1
        <5>3. CASE ReadOn(s, m, r[b])
          <6>1. Follows(s, k, e)
            BY <1>3, <3>2, <4>1, <5>2, TriedFollows
          <6> QED
            BY <3>2, <5>3, <6>1 DEF Follows, ReadOn
        <5>4. CASE Turned(s, m, Fresh(p, 1), r[b])
          <6>1. e \in DOMAIN r[b].chains
            BY <1>3, <3>2, <4>1, <5>2, <5>4, TurnedFollows
          <6> QED
            BY <3>2, <6>1 DEF Follows
        <5> QED
          BY <5>2, <5>3, <5>4, ReadShape DEF Sound
      <4> QED
        BY <3>2, <4>2, <4>3, <4>4 DEF Step, Forgets
    <3> QED
      BY <1>1, <2>1, <3>1, <3>2, SessionsMoved DEF Sound
  <2>3. CASE /\ q = p /\ c = b /\ b \in DOMAIN r \ lost /\ k = r[b].root /\ e = r[b].ephemeral
             /\ Begins(p, b, r, lost)
    <3>1. b \notin Had(o)
      BY <1>3, <2>3, FreshUnknown DEF Begins, Sound, OriginInv
    <3> QED
      BY <1>2, <1>3, <2>1, <2>3, <3>1 DEF Had
  <2>4. CASE /\ q = p /\ c = b /\ b \in DOMAIN r \ lost /\ k = r[b].root /\ e = r[b].ephemeral
             /\ \E m \in network : \E s :
                   ReadsIn(p, m, b, s, r, lost) /\ Turned(s, m, Fresh(p, 1), r[b])
    <3>1. PICK m \in network :
             \E s : ReadsIn(p, m, b, s, r, lost) /\ Turned(s, m, Fresh(p, 1), r[b])
      BY <2>4
    <3>2. PICK s : ReadsIn(p, m, b, s, r, lost) /\ Turned(s, m, Fresh(p, 1), r[b])
      BY <3>1
    <3>3. b \in Original(o) /\ record'[o] = record[o]
      BY <1>2, <1>3, <2>1, <2>4 DEF Original
    <3>4. record[o][b].root = m.key /\ record[o][b].ephemeral = m.ephemeral
      BY <1>3, <2>4, <3>2, <3>3, PeerWaits
    <3>5. k = Mixed(m.key, Agreed(Fresh(p, 1), m.ephemeral)) /\ e = Fresh(p, 1)
      BY <2>4, <3>2 DEF Turned
    <3>6. Agreed(Fresh(p, 1), m.ephemeral) = Agreed(m.ephemeral, Fresh(p, 1))
      BY DEF Agreed
    <3> QED
      BY <2>4, <3>3, <3>4, <3>5, <3>6 DEF Follows
  <2> QED
    BY <1>3, <2>2, <2>3, <2>4, LineMoved
<1> QED
  BY <1>3 DEF LinesFollowed

\* The invariants so far, together.
LEMMA AllSound == Spec => []Sound
BY SessionsWellFormed, KeysStayOwn, ReadKeysAreGone, SentInOrder, SessionsHaveOrigin, PTL DEF Sound

\* Nobody has a line yet.
LEMMA NoLinesYet == Init => LineInv /\ network = {} /\ \A p \in Parties : DOMAIN record[p] = {}
<1> SUFFICES ASSUME Init PROVE LineInv /\ network = {} /\ \A p \in Parties : DOMAIN record[p] = {}
  OBVIOUS
<1>1. \A p \in Parties : record[p] = EmptyRecord /\ DOMAIN record[p] = {}
  BY EmptyRecordType DEF Init
<1>2. network = {}
  BY DEF Init
<1>3. ASSUME NEW q \in Parties, NEW b, NEW k, NEW e PROVE ~OnLine(q, b, k, e)
  BY <1>1, <1>2 DEF OnLine, SentOn, Original
<1>4. \A p \in Parties : Original(p) = {}
  BY <1>1 DEF Original
<1> QED
  BY <1>1, <1>2, <1>3, <1>4 DEF LineInv, KeyOfEphemeral, LinesGrow, LinesFollowed, LinesBegin, HasHeard

\* How each party's keys go on, and that the other can follow.
THEOREM LinesAreFollowed == Spec => []LineInv
<1>1. Init => LineInv
  BY NoLinesYet
<1>2. Sound /\ Sound' /\ LineInv /\ [Next]_vars => LineInv'
  <2> SUFFICES ASSUME Sound, Sound', LineInv, [Next]_vars PROVE LineInv'
    OBVIOUS
  <2>1. CASE Next
    <3>1. PICK p \in Parties : \E b, r, lost : Step(p, b, r, lost)
      BY <2>1, Steps DEF Sound
    <3>2. PICK b, r, lost : Step(p, b, r, lost)
      BY <3>1
    <3>3. SessionInv'
      BY DEF Sound
    <3>4. KeyOfEphemeral'
      BY <3>2, KeyOfEphemeralStep
    <3>5. LinesGrow'
      BY <3>2, <3>3, LinesGrowStep
    <3>6. LinesFollowed'
      BY <3>2, LinesFollowedStep
    <3>7. LinesBegin'
      BY <3>2, LinesBeginStep
    <3>8. HasHeard'
      BY <3>2, HasHeardStep
    <3> QED
      BY <3>4, <3>5, <3>6, <3>7, <3>8 DEF LineInv
  <2>2. CASE UNCHANGED vars
    <3>1. record' = record /\ forgotten' = forgotten /\ network' = network
      BY <2>2 DEF vars
    <3>2. \A q, b, k, e : OnLine(q, b, k, e)' = OnLine(q, b, k, e)
      BY <3>1 DEF OnLine, SentOn, Original, Straight
    <3>3. \A q : Original(q)' = Original(q) /\ Had(q)' = Had(q)
      BY <3>1 DEF Original, Had
    <3>4. KeyOfEphemeral' /\ HasHeard'
      BY <3>1 DEF LineInv, KeyOfEphemeral, HasHeard
    <3>5. LinesGrow'
      BY <3>1, <3>2, <3>3 DEF LineInv, LinesGrow
    <3>6. LinesFollowed'
      BY <3>1, <3>2, <3>3 DEF LineInv, LinesFollowed
    <3>7. LinesBegin'
      BY <3>2, <3>3 DEF LineInv, LinesBegin
    <3> QED
      BY <3>4, <3>5, <3>6, <3>7 DEF LineInv
  <2> QED
    BY <2>1, <2>2
<1> QED
  BY <1>1, <1>2, AllSound, PTL DEF Spec

-----------------------------------------------------------------------------
(* Every key of an unread message is kept or still to be derived.  A chain   *)
(* has come as far as some message sent under it, and ends with the message  *)
(* that the sender's next chain names as the last of it.                      *)

\* Chain c of session b has come as far as a message, and ends when one of the
\* peer's chain after the next is there.
ChainSent(p, b, c, sent) ==
    /\ Sent(sent, c.key, c.counter - 1)
    /\ ~c.live => \E m \in sent : /\ m.from # p /\ m.key.x3dh.base = b
                                  /\ Len(m.key.mixed) >= Len(c.key.mixed) + 2

ChainsSent ==
    \A p \in Parties : \A b \in DOMAIN record[p] :
        \A e \in DOMAIN record[p][b].chains \ {record[p][b].ephemeral} :
            ChainSent(p, b, record[p][b].chains[e], network)

\* No message of a chain is numbered above what the next chain calls its last.
ChainsEnd ==
    /\ \A l, m \in network :
          l.from = m.from /\ Straight(m) /\ l.key = Unmixed(Unmixed(m.key))
          => l.counter <= m.previous
    /\ \A q \in Parties : \A b \in Original(q) : \A l \in network :
          l.from = q /\ l.key = Unmixed(Unmixed(record[q][b].root))
          => l.counter <= record[q][b].previous

\* Chain c has the key of number n, or is still to derive it.
Awaits(c, n) ==
    /\ n < c.counter => n \in c.kept
    /\ ~c.live => n < c.counter

KeysThere ==
    \A p \in Parties : \A b \in Original(p) : \A l \in network \ read :
        l.from # p /\ Straight(l) /\ l.ephemeral \in DOMAIN record[p][b].chains
        => Awaits(record[p][b].chains[l.ephemeral], l.counter)

HeldInv == ChainsSent /\ ChainsEnd /\ KeysThere

\* The fields of a chain after a key was taken.
LEMMA TakenParts ==
    ASSUME NEW c \in Chains, NEW n \in Nat
    PROVE  LET d == Taken(c, n)
           IN  /\ d.key = c.key /\ d.live = c.live /\ d.type = c.type
               /\ n \in c.kept => d.counter = c.counter /\ d.kept = c.kept \ {n}
               /\ n \notin c.kept => d.counter = n + 1 /\ d.kept = c.kept \union c.counter..(n - 1)
BY DEF Taken, Chains

\* A key taken out of a new chain.
LEMMA TakenNew ==
    ASSUME NEW k \in RootKeys, NEW n \in Nat
    PROVE  LET d == Taken(NewChain("receiving", k), n)
           IN  d.key = k /\ d.live /\ d.counter = n + 1 /\ d.kept = 0..(n - 1)
<1>1. PICK c : c = NewChain("receiving", k)
  OBVIOUS
<1>2. c \in Chains /\ c.key = k /\ c.live = TRUE /\ c.counter = 0 /\ c.kept = {}
  BY <1>1, NewChainType DEF NewChain
<1>3. PICK d : d = Taken(c, n)
  OBVIOUS
<1>4. n \notin c.kept
  BY <1>2
<1>5. /\ d.key = c.key /\ d.live = c.live /\ d.counter = n + 1
      /\ d.kept = c.kept \union c.counter..(n - 1)
  BY ONLY n \in Nat, <1>2, <1>3, <1>4, TakenParts
<1>6. d.kept = 0..(n - 1)
  BY <1>2, <1>5
<1> QED
  BY <1>1, <1>2, <1>3, <1>5, <1>6

\* The fields of a chain that ended.
LEMMA ClosedParts ==
    ASSUME NEW c \in Chains, NEW previous \in Nat
    PROVE  LET d == ClosedChain(c, previous)
           IN  /\ d.key = c.key /\ d.live = FALSE /\ d.type = c.type
               /\ c.live /\ c.counter <= previous =>
                     d.counter = previous + 1 /\ d.kept = c.kept \union c.counter..previous
               /\ ~(c.live /\ c.counter <= previous) => d.counter = c.counter /\ d.kept = c.kept
<1>1. c.live \in BOOLEAN /\ c.counter \in Nat /\ c.kept \subseteq Nat
  BY DEF Chains
<1>2. PICK d : d = ClosedChain(c, previous)
  OBVIOUS
<1>3. d = [c EXCEPT !.kept = @ \union {n \in c.counter..previous : c.live},
                    !.counter = IF c.live /\ @ <= previous THEN previous + 1 ELSE @,
                    !.live = FALSE]
  BY <1>2 DEF ClosedChain
<1>4. /\ d.key = c.key /\ d.live = FALSE /\ d.type = c.type
      /\ d.counter = (IF c.live /\ c.counter <= previous THEN previous + 1 ELSE c.counter)
      /\ d.kept = c.kept \union {n \in c.counter..previous : c.live}
  BY <1>3 DEF Chains
<1>5. CASE c.live /\ c.counter <= previous
  <2>1. {n \in c.counter..previous : c.live} = c.counter..previous
    BY <1>5
  <2> QED
    BY <1>1, <1>2, <1>4, <1>5, <2>1
<1>6. CASE ~(c.live /\ c.counter <= previous)
  <2>1. {n \in c.counter..previous : c.live} = {}
    BY <1>1, <1>6
  <2> QED
    BY <1>2, <1>4, <1>6, <2>1
<1> QED
  BY <1>5, <1>6

\* Reading m in chain c, it comes as far as m at least.
LEMMA TakenSent ==
    ASSUME NEW p, NEW b, NEW c \in Chains, NEW sent, ChainSent(p, b, c, sent) \/ (c.live /\ c.kept = {}),
           NEW m \in sent, m.counter \in Nat, m.key = c.key
    PROVE  ChainSent(p, b, Taken(c, m.counter), sent)
<1>1. PICK n, d : n = m.counter /\ d = Taken(c, n)
  OBVIOUS
<1>2. /\ d.key = c.key /\ d.live = c.live
      /\ n \in c.kept => d.counter = c.counter
      /\ n \notin c.kept => d.counter = n + 1
  BY <1>1, TakenParts
<1>3. ASSUME n \notin c.kept PROVE Sent(sent, d.key, d.counter - 1)
  <2>1. d.counter - 1 = n
    BY <1>1, <1>2, <1>3
  <2> QED
    BY <1>1, <1>2, <2>1 DEF Sent
<1>4. ASSUME n \in c.kept PROVE Sent(sent, d.key, d.counter - 1)
  BY <1>2, <1>4 DEF ChainSent
<1> QED
  BY <1>1, <1>2, <1>3, <1>4 DEF ChainSent

\* ... and ending the chain before it, that one comes as far as its last message.
LEMMA ClosedSent ==
    ASSUME Sound, NEW p \in Parties, NEW m \in network, m.from # p,
           NEW b, m.key.x3dh.base = b, NEW root \in RootKeys, Len(root.mixed) > 0,
           Unmixed(m.key) = root, Len(m.key.mixed) = Len(root.mixed) + 1,
           NEW c \in Chains, c.counter > 0, c.key = Unmixed(root),
           ChainSent(p, b, c, network)
    PROVE  ChainSent(p, b, ClosedChain(c, m.previous), network)
<1>1. m.previous \in Nat /\ c.counter \in Nat
  BY SecretsType DEF Sound, Messages, Chains
<1>2. PICK v, d : v = m.previous /\ d = ClosedChain(c, v)
  OBVIOUS
<1>3. /\ d.key = c.key
      /\ c.live /\ c.counter <= v => d.counter = v + 1
      /\ ~(c.live /\ c.counter <= v) => d.counter = c.counter
  BY <1>1, <1>2, ClosedParts
<1>4. Len(m.key.mixed) >= Len(c.key.mixed) + 2
  <2>1. Len(c.key.mixed) = Len(root.mixed) - 1 /\ Len(root.mixed) \in Nat
    BY UnmixedFacts
  <2> QED
    BY <2>1
<1>5. CASE c.live /\ c.counter <= v
  <2>1. v \in 1..v /\ (v + 1) - 1 = v
    BY <1>1, <1>2, <1>5
  <2>2. Sent(network, Unmixed(Unmixed(m.key)), v)
    BY <1>2, <2>1 DEF Sound, OwedInv, SentInTurn
  <2>3. Sent(network, d.key, d.counter - 1)
    BY <1>3, <1>5, <2>1, <2>2
  <2> QED
    BY <1>2, <1>3, <1>4, <2>3 DEF ChainSent
<1>6. CASE ~(c.live /\ c.counter <= v)
  <2>1. Sent(network, d.key, d.counter - 1)
    BY <1>3, <1>6 DEF ChainSent
  <2> QED
    BY <1>2, <1>3, <1>4, <2>1 DEF ChainSent
<1> QED
  BY <1>5, <1>6

\* More messages, and a chain has still come as far.
LEMMA ChainSentMore ==
    ASSUME NEW p, NEW b, NEW c, NEW sent, NEW more, sent \subseteq more, ChainSent(p, b, c, sent)
    PROVE  ChainSent(p, b, c, more)
BY DEF ChainSent, Sent

\* Steps send messages and take none back.
LEMMA NetworkGrows ==
    ASSUME NEW p, NEW b, NEW r, NEW lost, Step(p, b, r, lost)
    PROVE  network \subseteq network'
BY DEF Step, Begins, SendsIn, Forgets, ReadsIn

\* A ratchet step ends the chain heard last and leaves the others.
LEMMA TurnedSent ==
    ASSUME Sound, ChainsSent, NEW p \in Parties, NEW m \in network, NEW b, NEW s, NEW r, NEW lost,
           ReadsIn(p, m, b, s, r, lost), Turned(s, m, Fresh(p, 1), r[b]),
           NEW e \in DOMAIN r[b].chains \ {r[b].ephemeral}
    PROVE  ChainSent(p, b, r[b].chains[e], network)
<1>1. /\ s.root \in RootKeys /\ m.key \in RootKeys /\ Len(s.root.mixed) \in Nat
      /\ Len(m.key.mixed) = Len(s.root.mixed) + 1
  BY TurnedGrows
<1>2. /\ m \in Messages /\ m.counter \in Nat /\ m.previous \in Nat /\ m.from # p
      /\ m.key.x3dh.base = b
  BY SecretsType DEF Sound, ReadsIn, Messages
<1>3. CASE e = m.ephemeral
  <2>1. PICK c : c = NewChain("receiving", m.key)
    OBVIOUS
  <2>2. c \in Chains /\ c.key = m.key /\ c.live /\ c.kept = {}
    BY <1>1, <2>1, NewChainType DEF NewChain
  <2>3. ChainSent(p, b, Taken(c, m.counter), network)
    BY <1>2, <2>2, TakenSent
  <2> QED
    BY <1>3, <2>1, <2>3 DEF Turned
<1>4. CASE e # m.ephemeral
  <2>1. /\ e \in DOMAIN s.chains \ {s.ephemeral}
        /\ r[b].chains[e] = IF e = s.remote /\ s.chains[e].type = "receiving"
                            THEN ClosedChain(s.chains[e], m.previous) ELSE s.chains[e]
    BY <1>4 DEF Turned
  <2>2. Continued(p, b, s, lost)
    <3>1. CASE Begun(p, m, b, s, lost)
      BY <2>1, <3>1, IncomingParts DEF Begun
    <3> QED
      BY <3>1 DEF ReadsIn
  <2>3. /\ b \in DOMAIN record[p] /\ s.root = record[p][b].root
        /\ s.ephemeral = record[p][b].ephemeral /\ s.remote = record[p][b].remote
        /\ s.chains = record[p][b].chains
    BY <2>2 DEF Continued, AsBefore
  <2>4. ChainSent(p, b, s.chains[e], network)
    BY <2>1, <2>3 DEF ChainsSent
  <2>5. CASE e = s.remote /\ s.chains[e].type = "receiving"
    <3>1. s.chains[e] \in Chains /\ s.chains[e].counter > 0
      BY <2>1, <2>3, PeersChain, SMTT(30)
    <3>2. Len(s.root.mixed) > 0
      BY <2>3 DEF Sound, KeysInv, OwnSessions, Sends, SendingKey, EndsWith
    <3>3. s.chains[e].key = Unmixed(s.root)
      BY <2>1, <2>3, <2>5 DEF Sound, OwedInv, PartyOwed, HearsPeer
    <3>4. PICK x : x = Agreed(s.ephemeral, m.ephemeral)
      OBVIOUS
    <3>5. x \in SUBSET KeyPairs /\ m.key = Mixed(s.root, x)
      <4>1. s.ephemeral \in KeyPairs
        BY TurnedGrows
      <4>2. m.ephemeral \in KeyPairs
        BY <1>2 DEF Messages
      <4> QED
        BY <3>4, <4>1, <4>2 DEF Agreed, Turned
    <3>6. Unmixed(m.key) = s.root
      BY <1>1, <3>5, UnmixedMixed
    <3>7. PICK c : c = s.chains[e]
      OBVIOUS
    <3>8. ChainSent(p, b, ClosedChain(c, m.previous), network)
      BY <1>1, <1>2, <2>4, <3>1, <3>2, <3>3, <3>6, <3>7, ClosedSent
    <3> QED
      BY <2>1, <2>5, <3>7, <3>8
  <2> QED
    BY <2>1, <2>4, <2>5
<1> QED
  BY <1>3, <1>4

\* Chains go on to come as far as messages.
LEMMA ChainsSentStep ==
    ASSUME Sound, ChainsSent, NEW p \in Parties, NEW b, NEW r, NEW lost, Step(p, b, r, lost)
    PROVE  ChainsSent'
<1>1. Moved(p, b, r, lost) /\ network \subseteq network'
  BY NetworkGrows DEF Step, Begins, SendsIn, Forgets, ReadsIn
<1>2. ASSUME b \in DOMAIN r, NEW e \in DOMAIN r[b].chains \ {r[b].ephemeral}
      PROVE  ChainSent(p, b, r[b].chains[e], network)
  <2>1. CASE Begins(p, b, r, lost)
    <3>1. PICK x \in X3DHs : JustBegun(r[b], x, Fresh(p, 2))
      BY <2>1, BeginParts DEF Sound
    <3> QED
      BY <1>2, <3>1 DEF JustBegun
  <2>2. CASE SendsIn(p, b, r, lost)
    <3>1. /\ b \in DOMAIN record[p] /\ r[b].ephemeral = record[p][b].ephemeral
          /\ DOMAIN r[b].chains = DOMAIN record[p][b].chains
          /\ \A f \in DOMAIN record[p][b].chains \ {record[p][b].ephemeral} :
                r[b].chains[f] = record[p][b].chains[f]
      BY <2>2, SendParts DEF SendsIn, Sound
    <3> QED
      BY <1>2, <3>1 DEF ChainsSent
  <2>3. CASE \E m \in network : \E s : ReadsIn(p, m, b, s, r, lost)
    <3>1. PICK m \in network : \E s : ReadsIn(p, m, b, s, r, lost)
      BY <2>3
    <3>2. PICK s : ReadsIn(p, m, b, s, r, lost)
      BY <3>1
    <3>3. CASE ReadOn(s, m, r[b])
      <4>1. b \in DOMAIN record[p] /\ AsBefore(record[p][b], s)
        <5>1. CASE Begun(p, m, b, s, lost)
          BY <3>3, <5>1, IncomingParts DEF Begun, ReadOn
        <5> QED
          BY <3>2, <5>1 DEF ReadsIn, Continued
      <4>2. /\ e \in DOMAIN record[p][b].chains \ {record[p][b].ephemeral}
            /\ s.chains = record[p][b].chains
        BY <1>2, <3>3, <4>1 DEF AsBefore, ReadOn
      <4>3. ChainSent(p, b, s.chains[e], network) /\ s.chains[e] \in Chains
        BY <4>1, <4>2, PeersChain DEF ChainsSent
      <4>4. CASE e = m.ephemeral
        <5>1. m.counter \in Nat
          BY SecretsType DEF Sound, Messages
        <5>2. PICK c : c = s.chains[e]
          OBVIOUS
        <5>3. c \in Chains /\ ChainSent(p, b, c, network) /\ m.key = c.key
          BY <3>3, <4>3, <4>4, <5>2 DEF ReadOn
        <5>4. ChainSent(p, b, Taken(c, m.counter), network)
          BY <5>1, <5>3, TakenSent
        <5> QED
          BY <3>3, <4>4, <5>2, <5>4 DEF ReadOn
      <4>5. CASE e # m.ephemeral
        BY <3>3, <4>2, <4>3, <4>5 DEF ReadOn
      <4> QED
        BY <4>4, <4>5
    <3>4. CASE Turned(s, m, Fresh(p, 1), r[b])
      BY <1>2, <3>2, <3>4, TurnedSent
    <3> QED
      BY <3>2, <3>3, <3>4, ReadShape DEF Sound
  <2> QED
    BY <1>2, <2>1, <2>2, <2>3 DEF Step, Forgets
<1>3. ASSUME NEW q \in Parties, NEW c \in DOMAIN record'[q],
             NEW e \in DOMAIN record'[q][c].chains \ {record'[q][c].ephemeral}
      PROVE  ChainSent(q, c, record'[q][c].chains[e], network)
  <2>1. CASE c \in DOMAIN record[q] /\ AsBefore(record[q][c], record'[q][c])
    BY <1>3, <2>1 DEF ChainsSent, AsBefore
  <2>2. CASE q = p /\ c = b /\ b \in DOMAIN r /\ record'[q][c] = r[b]
    BY <1>2, <1>3, <2>2
  <2> QED
    BY <1>1, <2>1, <2>2, SessionsMoved DEF Sound
<1>4. ASSUME NEW q \in Parties, NEW c \in DOMAIN record'[q],
             NEW e \in DOMAIN record'[q][c].chains \ {record'[q][c].ephemeral}
      PROVE  ChainSent(q, c, record'[q][c].chains[e], network')
  BY <1>1, <1>3, ChainSentMore
<1> QED
  BY <1>4 DEF ChainsSent

\* A key is longer than the one two secrets before it, and so is not that one.
LEMMA TwoBefore ==
    ASSUME NEW k \in RootKeys, Len(k.mixed) > 0
    PROVE  /\ Unmixed(Unmixed(k)).x3dh = k.x3dh /\ Len(k.mixed) \in Nat
           /\ Len(Unmixed(Unmixed(k)).mixed) \in Nat
           /\ Len(Unmixed(Unmixed(k)).mixed) < Len(k.mixed)
<1>1. PICK u : u = Unmixed(k)
  OBVIOUS
<1>2. /\ u \in RootKeys /\ u.x3dh = k.x3dh /\ Len(k.mixed) \in Nat
      /\ Len(u.mixed) = Len(k.mixed) - 1 /\ Len(u.mixed) \in Nat
  BY <1>1, UnmixedFacts
<1>3. PICK v : v = Unmixed(u)
  OBVIOUS
<1>4. /\ v.x3dh = u.x3dh /\ v \in RootKeys
      /\ Len(u.mixed) > 0 => Len(v.mixed) = Len(u.mixed) - 1
      /\ Len(u.mixed) = 0 => Len(v.mixed) = 0
  BY ONLY <1>2, <1>3, UnmixedFacts
<1>5. Len(v.mixed) \in Nat /\ Len(v.mixed) < Len(k.mixed)
  <2>1. PICK i, j, h : i = Len(k.mixed) /\ j = Len(u.mixed) /\ h = Len(v.mixed)
    OBVIOUS
  <2>2. i \in Nat /\ j \in Nat /\ j = i - 1 /\ (j > 0 => h = j - 1) /\ (j = 0 => h = 0)
    BY <1>2, <1>4, <2>1
  <2>3. h \in Nat /\ h < i
    BY ONLY <2>2
  <2> QED
    BY <2>1, <2>3
<1> QED
  BY ONLY <1>1, <1>2, <1>3, <1>4, <1>5

\* The session p sends in: it has had it once only, if the message is straight.
LEMMA SendsStraight ==
    ASSUME Sound, NEW p \in Parties, NEW b, NEW r, NEW lost, SendsIn(p, b, r, lost),
           NEW m, m.from = p, m.key.x3dh = record[p][b].root.x3dh, Straight(m)
    PROVE  b \in Original(p)
<1>1. b \in DOMAIN record[p] /\ record[p][b].root.x3dh.base = b
  BY SecretsType DEF SendsIn, Sound, Proper, Linked
<1>2. ASSUME b \in forgotten[p] PROVE m.key.x3dh.preKey = {}
  BY <1>1, <1>2 DEF Sound, OriginInv, HadAreUsed
<1> QED
  BY <1>1, <1>2 DEF Straight, Original

\* A ratchet step mixes two secrets in.
LEMMA TurnedBack ==
    ASSUME Sound, NEW p \in Parties, NEW m \in network, NEW b, NEW s, NEW r, NEW lost,
           ReadsIn(p, m, b, s, r, lost), Turned(s, m, Fresh(p, 1), r[b])
    PROVE  Unmixed(m.key) = s.root /\ Unmixed(Unmixed(r[b].root)) = s.root
<1>1. s.root \in RootKeys /\ m.key \in RootKeys /\ s.ephemeral \in KeyPairs
  BY TurnedGrows
<1>2. m.ephemeral \in KeyPairs /\ Fresh(p, 1) \in KeyPairs
  BY ReadParts DEF Messages, Sound
<1>3. PICK x, y : x = Agreed(s.ephemeral, m.ephemeral) /\ y = Agreed(Fresh(p, 1), m.ephemeral)
  OBVIOUS
<1>4. x \in SUBSET KeyPairs /\ y \in SUBSET KeyPairs
  BY <1>1, <1>2, <1>3 DEF Agreed
<1>5. m.key = Mixed(s.root, x) /\ r[b].root = Mixed(m.key, y)
  BY <1>3 DEF Turned
<1>6. Unmixed(m.key) = s.root /\ Unmixed(r[b].root) = m.key
  BY ONLY <1>1, <1>4, <1>5, UnmixedMixed
<1> QED
  BY <1>6

\* What a session names as its last message goes on to be that.
LEMMA ChainsEndStep ==
    ASSUME Sound, Sound', LineInv, ChainsEnd, NEW p \in Parties, NEW b, NEW r, NEW lost,
           Step(p, b, r, lost)
    PROVE  ChainsEnd'
<1>1. Moved(p, b, r, lost)
  BY DEF Step, Begins, SendsIn, Forgets, ReadsIn
<1>2. /\ record'[p] = r /\ forgotten'[p] = lost
      /\ \A i \in Parties : forgotten[i] \subseteq forgotten'[i]
      /\ \A i \in Parties \ {p} : record'[i] = record[i] /\ forgotten'[i] = forgotten[i]
  BY <1>1, MovedParts DEF Sound
<1>3. ASSUME NEW m \in network', m \notin network
      PROVE  /\ SendsIn(p, b, r, lost) /\ b \in DOMAIN record[p] /\ m.from = p
             /\ m.key = record[p][b].root /\ m.previous = record[p][b].previous
             /\ m.key.x3dh.base = b /\ m.key \in RootKeys /\ Len(m.key.mixed) > 0
  <2>1. SendsIn(p, b, r, lost) /\ m = Message(p, record[p][b])
    BY <1>3 DEF Step, Begins, Forgets, ReadsIn, SendsIn
  <2>2. b \in DOMAIN record[p] /\ Proper(b, record[p][b])
    BY <2>1, SecretsType DEF SendsIn, Sound
  <2>3. Len(record[p][b].root.mixed) > 0
    BY <2>2 DEF Sound, KeysInv, OwnSessions, Sends, SendingKey, EndsWith
  <2> QED
    BY <2>1, <2>2, <2>3, SendParts DEF Sound, Proper, Linked, Sessions
<1>4. \A m : m.from \in Parties /\ Straight(m)' => Straight(m)
  BY <1>2 DEF Straight
<1>5. \A m \in network : /\ m \in Messages /\ m.from \in Parties /\ m.key \in RootKeys
                         /\ Len(m.key.mixed) > 0 /\ SendingKey(m.from, m.ephemeral, m.key)
  BY SecretsType DEF Sound, Messages, KeysInv, SentBy, SendingKey, EndsWith
<1>6. ASSUME NEW l \in network', NEW m \in network', l.from = m.from, Straight(m)',
             l.key = Unmixed(Unmixed(m.key))
      PROVE  l.counter <= m.previous
  <2>1. /\ m.key \in RootKeys /\ Len(m.key.mixed) > 0 /\ m.from \in Parties /\ Straight(m)
    BY <1>3, <1>4, <1>5, <1>6
  <2>2. l.key.x3dh = m.key.x3dh /\ Len(l.key.mixed) < Len(m.key.mixed)
        /\ Len(l.key.mixed) \in Nat /\ Len(m.key.mixed) \in Nat
    BY <1>6, <2>1, TwoBefore
  <2>3. CASE l \in network /\ m \in network
    BY <1>6, <2>1, <2>3 DEF ChainsEnd
  <2>4. CASE m \notin network
    <3>1. /\ SendsIn(p, b, r, lost) /\ m.from = p /\ m.key = record[p][b].root
          /\ m.previous = record[p][b].previous
      BY <1>3, <2>4
    <3>2. b \in Original(p)
      BY <2>1, <3>1, SendsStraight
    <3>3. l \in network
      BY <1>3, <2>2, <3>1
    <3> QED
      BY <1>6, <3>1, <3>2, <3>3 DEF ChainsEnd
  <2>5. CASE m \in network /\ l \notin network
    <3>1. SendsIn(p, b, r, lost) /\ l.from = p /\ l.key = record[p][b].root /\ l.key.x3dh.base = b
      BY <1>3, <2>5
    <3>2. m.from = p /\ m.key.x3dh = record[p][b].root.x3dh /\ m.key.x3dh.base = b
      BY <1>6, <2>2, <3>1
    <3>3. b \in Original(p)
      BY <2>1, <3>1, <3>2, SendsStraight
    <3>4. OnLine(p, b, m.key, m.ephemeral)
      BY <2>1, <2>5, <3>2 DEF OnLine, SentOn
    <3>5. Len(m.key.mixed) <= Len(l.key.mixed)
      BY <3>1, <3>3, <3>4 DEF LineInv, LinesGrow, Prefix
    <3> QED
      BY <2>2, <3>5
  <2> QED
    BY <2>3, <2>4, <2>5
<1>7. ASSUME NEW q \in Parties, NEW c \in Original(q)', NEW l \in network', l.from = q,
             l.key = Unmixed(Unmixed(record'[q][c].root))
      PROVE  l.counter <= record'[q][c].previous
  <2>1. c \in DOMAIN record'[q] /\ c \notin forgotten'[q] /\ c \notin forgotten[q]
    BY <1>2, <1>7 DEF Original
  <2>2. CASE c \in DOMAIN record[q] /\ AsBefore(record[q][c], record'[q][c]) /\ (q # p \/ c # b)
    <3>1. /\ Proper(c, record[q][c]) /\ record[q][c].root = record'[q][c].root
          /\ record[q][c].previous = record'[q][c].previous /\ c \in Original(q)
      BY <2>1, <2>2, SecretsType DEF Sound, AsBefore, Original
    <3>2. /\ record[q][c].root \in RootKeys /\ record[q][c].root.x3dh.base = c
          /\ Len(record[q][c].root.mixed) > 0
      BY <2>2, <3>1 DEF Proper, Linked, Sessions, Sound, KeysInv, OwnSessions, Sends, SendingKey,
                        EndsWith
    <3>3. l.key.x3dh.base = c
      BY <1>7, <3>1, <3>2, TwoBefore
    <3>4. l \in network
      BY <1>3, <1>7, <2>2, <3>3
    <3> QED
      BY <1>7, <3>1, <3>4 DEF ChainsEnd
  <2>3. CASE q = p /\ c = b /\ b \in DOMAIN r /\ record'[q][c] = r[b]
    <3>1. Proper(b, r[b]) /\ SendingKey(p, r[b].ephemeral, r[b].root) /\ b \notin lost
      BY <1>2, <2>1, <2>3 DEF Sound, SessionInv, RecordsGood, Good, KeysInv, OwnSessions, Sends
    <3>2. r[b].root \in RootKeys /\ r[b].root.x3dh.base = b /\ Len(r[b].root.mixed) > 0
      BY <3>1 DEF Proper, Linked, Sessions, SendingKey, EndsWith
    <3>3. l.from = p /\ l.key = Unmixed(Unmixed(r[b].root)) /\ l.key.x3dh.base = b
          /\ Len(l.key.mixed) \in Nat /\ Len(r[b].root.mixed) \in Nat
          /\ Len(l.key.mixed) < Len(r[b].root.mixed)
      BY <1>7, <2>3, <3>2, TwoBefore
    <3>4. CASE Begins(p, b, r, lost)
      <4>1. l \in network
        BY <3>4 DEF Begins
      <4>2. l.key.x3dh \in Secrets
        BY <4>1 DEF Secrets
      <4> QED
        BY <3>3, <3>4, <4>2, FreshUnknown DEF Begins, Sound, OriginInv
    <3>5. CASE SendsIn(p, b, r, lost)
      <4>1. /\ b \in DOMAIN record[p] /\ r[b].root = record[p][b].root
            /\ r[b].previous = record[p][b].previous
        BY <3>5, SendParts DEF SendsIn, Sound
      <4>2. b \in Original(p)
        BY <2>1, <2>3, <4>1 DEF Original
      <4>3. l \in network
        BY <1>3, <3>3, <4>1
      <4> QED
        BY <2>3, <3>3, <4>1, <4>2, <4>3 DEF ChainsEnd
    <3>6. CASE \E m \in network : \E s : ReadsIn(p, m, b, s, r, lost)
      <4>1. PICK m \in network : \E s : ReadsIn(p, m, b, s, r, lost)
        BY <3>6
      <4>2. PICK s : ReadsIn(p, m, b, s, r, lost)
        BY <4>1
      <4>3. l \in network /\ b \in Had(p)
        BY <3>3, <4>2 DEF ReadsIn, Sound, OriginInv, HadAreKnown
      <4>4. Continued(p, b, s, lost)
        BY <1>1, <3>1, <4>2, <4>3, FirstTime DEF ReadsIn
      <4>5. /\ b \in Original(p) /\ s.root = record[p][b].root
            /\ s.ephemeral = record[p][b].ephemeral /\ s.previous = record[p][b].previous
            /\ s.chains = record[p][b].chains
        BY <1>1, <3>1, <4>4, SameSession
      <4>6. CASE ReadOn(s, m, r[b])
        BY <2>3, <3>3, <4>3, <4>5, <4>6 DEF ReadOn, ChainsEnd
      <4>7. CASE Turned(s, m, Fresh(p, 1), r[b])
        <5>1. Unmixed(Unmixed(r[b].root)) = s.root
          BY <4>2, <4>7, TurnedBack
        <5>2. OnLine(p, b, s.root, l.ephemeral)
          BY <2>1, <2>3, <3>3, <4>3, <5>1 DEF OnLine, SentOn, Straight
        <5>3. OnLine(p, b, s.root, s.ephemeral)
          BY <4>5 DEF OnLine
        <5>4. l.ephemeral = s.ephemeral
          BY <5>2, <5>3, LineEphemeral
        <5>5. b \in DOMAIN record[p] /\ Proper(b, s) /\ l.counter \in Nat
          BY <1>5, <4>2, <4>3, <4>5 DEF Original, ReadsIn, Messages
        <5>6. CanSend(s) /\ Ahead(s, network)
          BY <4>5, <5>5 DEF Sound, SessionInv, RecordsGood, Good, CanSend, KeysInv, OwnSessions,
                            Sends, Ahead
        <5>7. l.counter < s.chains[s.ephemeral].counter
          BY <4>3, <5>4, <5>6 DEF Ahead
        <5>8. s.ephemeral \in DOMAIN s.chains /\ s.chains[s.ephemeral].counter \in Nat
          BY <5>5, <5>6, ChainMapsType DEF CanSend, Proper, Sessions, Chains
        <5>9. PreviousCounter(s) = s.chains[s.ephemeral].counter - 1
          BY <5>5, <5>7, <5>8 DEF PreviousCounter
        <5>10. l.counter <= PreviousCounter(s)
          BY <5>5, <5>7, <5>8, <5>9
        <5> QED
          BY <2>3, <4>7, <5>10 DEF Turned
      <4> QED
        BY <4>2, <4>6, <4>7, ReadShape DEF Sound
    <3> QED
      BY <2>3, <3>4, <3>5, <3>6 DEF Step, Forgets
  <2> QED
    BY <1>1, <2>1, <2>2, <2>3, SessionsMoved DEF Sound
<1> QED
  BY <1>6, <1>7 DEF ChainsEnd

\* Taking one key leaves the others.
LEMMA TakenAwaits ==
    ASSUME NEW c \in Chains, NEW n \in Nat, HasKey(c, n), NEW k \in Nat, k # n, Awaits(c, k)
    PROVE  Awaits(Taken(c, n), k)
<1>1. PICK d : d = Taken(c, n)
  OBVIOUS
<1>2. /\ d.live = c.live
      /\ n \in c.kept => d.counter = c.counter /\ d.kept = c.kept \ {n}
      /\ n \notin c.kept => d.counter = n + 1 /\ d.kept = c.kept \union c.counter..(n - 1)
  BY <1>1, TakenParts
<1>3. c.counter \in Nat
  BY DEF Chains
<1>4. CASE n \in c.kept
  BY <1>1, <1>2, <1>4 DEF Awaits
<1>5. CASE n \notin c.kept
  <2>1. c.live
    BY <1>5 DEF HasKey
  <2>2. k < n + 1 => k \in d.kept
    BY <1>2, <1>3, <1>5 DEF Awaits
  <2> QED
    BY <1>1, <1>2, <1>5, <2>1, <2>2 DEF Awaits
<1> QED
  BY <1>4, <1>5

\* Ending a chain leaves the keys up to its last message.
LEMMA ClosedAwaits ==
    ASSUME NEW c \in Chains, NEW previous \in Nat, NEW k \in Nat, k <= previous, Awaits(c, k)
    PROVE  Awaits(ClosedChain(c, previous), k)
<1>1. PICK d : d = ClosedChain(c, previous)
  OBVIOUS
<1>2. /\ c.live /\ c.counter <= previous =>
             d.counter = previous + 1 /\ d.kept = c.kept \union c.counter..previous
      /\ ~(c.live /\ c.counter <= previous) => d.counter = c.counter /\ d.kept = c.kept
  BY <1>1, ClosedParts
<1>3. c.counter \in Nat
  BY DEF Chains
<1>4. CASE c.live /\ c.counter <= previous
  BY <1>1, <1>2, <1>3, <1>4 DEF Awaits
<1>5. CASE ~(c.live /\ c.counter <= previous)
  <2>1. k < c.counter
    BY <1>3, <1>5 DEF Awaits
  <2> QED
    BY <1>1, <1>2, <1>5, <2>1 DEF Awaits
<1> QED
  BY <1>4, <1>5

\* The session p reads in keeps the keys of what it has not read.
LEMMA ReadingAwaits ==
    ASSUME Sound, LineInv, HeldInv, NEW p \in Parties, NEW m \in network,
           NEW b, NEW s, NEW r, NEW lost, ReadsIn(p, m, b, s, r, lost), b \notin lost,
           NEW l \in network \ read, l # m, l.from # p, Straight(l), l.ephemeral \in DOMAIN r[b].chains
    PROVE  Awaits(r[b].chains[l.ephemeral], l.counter)
<1>1. /\ l.counter \in Nat /\ m.counter \in Nat /\ m.previous \in Nat
      /\ l.ephemeral[1] = l.from /\ l.from = m.from /\ m.key.x3dh.base = b /\ l.from \in Parties
  <2>1. l \in Messages /\ m \in Messages /\ l.ephemeral[1] = l.from
    BY AllOwn DEF Sound
  <2> QED
    BY <2>1, TwoParties DEF Messages, ReadsIn
<1>2. s.ephemeral[1] = p /\ Fresh(p, 1) # l.ephemeral /\ Moved(p, b, r, lost)
  BY FreshUnsent DEF ReadsIn
<1>3. l.ephemeral = m.ephemeral => l.counter # m.counter
  BY DEF Sound, KeysInv, Numbered
<1>4. ASSUME l.ephemeral \in DOMAIN s.chains
      PROVE  /\ b \in Original(p) /\ s.root = record[p][b].root
             /\ s.ephemeral = record[p][b].ephemeral /\ s.remote = record[p][b].remote
             /\ s.chains = record[p][b].chains
             /\ Awaits(s.chains[l.ephemeral], l.counter) /\ s.chains[l.ephemeral] \in Chains
             /\ l.key = s.chains[l.ephemeral].key /\ l.key.x3dh.base = b
  <2>1. Continued(p, b, s, lost)
    <3>1. CASE Begun(p, m, b, s, lost)
      BY <1>4, <3>1, IncomingParts DEF Begun
    <3> QED
      BY <3>1 DEF ReadsIn
  <2>2. /\ b \in Original(p) /\ s.root = record[p][b].root
        /\ s.ephemeral = record[p][b].ephemeral /\ s.remote = record[p][b].remote
        /\ s.chains = record[p][b].chains
    BY <1>2, <2>1, SameSession
  <2>3. Awaits(s.chains[l.ephemeral], l.counter)
    BY <1>4, <2>2 DEF HeldInv, KeysThere
  <2>4. PICK e : e = l.ephemeral
    OBVIOUS
  <2>5. /\ b \in DOMAIN record[p] /\ e \in DOMAIN record[p][b].chains
        /\ e # record[p][b].ephemeral
    BY <1>1, <1>2, <1>4, <2>2, <2>4 DEF Original
  <2>6. /\ record[p][b].chains[e] \in Chains
        /\ \E i \in network : /\ i.ephemeral = e /\ i.key = record[p][b].chains[e].key
                              /\ i.key.x3dh.base = b
    BY ONLY Sound, p \in Parties, <2>5, PeersChain
  <2>7. l.key = record[p][b].chains[e].key /\ l.key.x3dh.base = b
    BY <2>4, <2>6 DEF LineInv, KeyOfEphemeral
  <2> QED
    BY <2>2, <2>3, <2>4, <2>6, <2>7
<1>5. CASE ReadOn(s, m, r[b])
  <2>1. l.ephemeral \in DOMAIN s.chains
    BY <1>5 DEF ReadOn
  <2>2. CASE l.ephemeral = m.ephemeral
    <3>1. PICK c : c = s.chains[m.ephemeral]
      OBVIOUS
    <3>2. /\ c \in Chains /\ HasKey(c, m.counter) /\ Awaits(c, l.counter)
          /\ r[b].chains[m.ephemeral] = Taken(c, m.counter)
      BY <1>4, <1>5, <2>1, <2>2, <3>1 DEF ReadOn
    <3>3. Awaits(Taken(c, m.counter), l.counter)
      BY <1>1, <1>3, <2>2, <3>2, TakenAwaits
    <3> QED
      BY <2>2, <3>2, <3>3
  <2>3. CASE l.ephemeral # m.ephemeral
    BY <1>4, <1>5, <2>1, <2>3 DEF ReadOn
  <2> QED
    BY <2>2, <2>3
<1>6. CASE Turned(s, m, Fresh(p, 1), r[b])
  <2>1. CASE l.ephemeral = m.ephemeral
    <3>1. PICK d : d = Taken(NewChain("receiving", m.key), m.counter)
      OBVIOUS
    <3>2. m.key \in RootKeys
      BY <1>6, TurnedGrows
    <3>3. d.live /\ d.counter = m.counter + 1 /\ d.kept = 0..(m.counter - 1)
      BY <1>1, <3>1, <3>2, TakenNew
    <3>4. l.counter < m.counter + 1 => l.counter \in 0..(m.counter - 1)
      BY <1>1, <1>3, <2>1
    <3>5. Awaits(d, l.counter)
      BY <3>3, <3>4 DEF Awaits
    <3> QED
      BY <1>6, <2>1, <3>1, <3>5 DEF Turned
  <2>2. CASE l.ephemeral # m.ephemeral
    <3>1. /\ l.ephemeral \in DOMAIN s.chains
          /\ r[b].chains[l.ephemeral] =
                IF l.ephemeral = s.remote /\ s.chains[l.ephemeral].type = "receiving"
                THEN ClosedChain(s.chains[l.ephemeral], m.previous) ELSE s.chains[l.ephemeral]
      BY <1>2, <1>6, <2>2 DEF Turned
    <3>2. CASE l.ephemeral = s.remote
      <4>1. s.remote \in DOMAIN record[p][b].chains /\ b \in DOMAIN record[p]
        BY <1>4, <3>1, <3>2 DEF Original
      <4>2. record[p][b].chains[record[p][b].remote].key = Unmixed(record[p][b].root)
        BY <1>4, <3>1, <4>1 DEF Sound, OwedInv, PartyOwed, HearsPeer
      <4>3. l.key = Unmixed(s.root)
        BY <1>4, <3>1, <3>2, <4>2
      <4>4. Unmixed(m.key) = s.root
        BY <1>6, TurnedBack
      <4>5. OnLine(l.from, b, l.key, l.ephemeral)
        BY <1>4, <3>1 DEF OnLine, SentOn
      <4>6. Straight(m)
        BY <1>1, <4>5, LineStraight
      <4>7. l.counter <= m.previous
        BY <1>1, <4>3, <4>4, <4>6 DEF HeldInv, ChainsEnd
      <4>8. PICK c : c = s.chains[l.ephemeral]
        OBVIOUS
      <4>9. c \in Chains /\ Awaits(c, l.counter)
        BY <1>4, <3>1, <4>8
      <4>10. Awaits(ClosedChain(c, m.previous), l.counter)
        BY <1>1, <4>7, <4>9, ClosedAwaits
      <4> QED
        BY <3>1, <4>8, <4>9, <4>10
    <3>3. CASE l.ephemeral # s.remote
      BY <1>4, <3>1, <3>3
    <3> QED
      BY <3>2, <3>3
  <2> QED
    BY <2>1, <2>2
<1> QED
  BY <1>5, <1>6, ReadShape DEF Sound

\* What p sends now, the other party has still to derive the key of.
LEMMA SentAwaits ==
    ASSUME Sound, LineInv, HeldInv, NEW p \in Parties, NEW b, NEW r, NEW lost,
           SendsIn(p, b, r, lost), NEW l, l = Message(p, record[p][b]), Straight(l),
           NEW q \in Parties, q # p, NEW c \in DOMAIN record[q],
           l.ephemeral \in DOMAIN record[q][c].chains
    PROVE  Awaits(record[q][c].chains[l.ephemeral], l.counter)
<1>1. PICK s, e, d : s = record[p][b] /\ e = l.ephemeral /\ d = record[q][c].chains[e]
  OBVIOUS
<1>2. /\ b \in DOMAIN record[p] /\ Proper(b, s) /\ l.from = p /\ l.key = s.root
      /\ e = s.ephemeral /\ l.counter = s.chains[e].counter /\ CanSend(s)
  BY <1>1, SendParts DEF SendsIn, Sound
<1>3. /\ e # record[q][c].ephemeral /\ l.counter \in Nat /\ Ahead(s, network)
  <2>1. s.ephemeral[1] = p /\ record[q][c].ephemeral[1] = q
    BY <1>1, <1>2, OwnFirst
  <2>2. l.counter \in Nat
    BY <1>2, ChainMapsType DEF CanSend, Proper, Sessions, Chains
  <2> QED
    BY <1>1, <1>2, <2>1, <2>2 DEF Sound, KeysInv, OwnSessions, Sends
<1>4. /\ e \in DOMAIN record[q][c].chains /\ d \in Chains
      /\ \E m \in network : m.ephemeral = e /\ m.key = d.key /\ m.key.x3dh.base = c
  <2>1. e \in DOMAIN record[q][c].chains /\ e # record[q][c].ephemeral
    BY <1>1, <1>3
  <2> QED
    BY ONLY Sound, q \in Parties, c \in DOMAIN record[q], <1>1, <2>1, PeersChain
<1>5. PICK m \in network : m.ephemeral = e /\ m.key = d.key /\ m.key.x3dh.base = c
  BY <1>4
<1>6. d.key = l.key
  BY <1>1, <1>2, <1>5, ZenonT(60) DEF LineInv, KeyOfEphemeral
<1>7. ChainSent(q, c, d, network)
  BY <1>1, <1>3, <1>4 DEF HeldInv, ChainsSent
<1>8. d.counter <= l.counter
  <2>1. PICK i \in network : i.key = d.key /\ i.counter = d.counter - 1
    BY <1>7 DEF ChainSent, Sent
  <2>2. i.ephemeral = m.ephemeral
    BY <1>5, <2>1, KeyTellsEphemeral DEF Sound
  <2>3. i.counter < l.counter
    BY <1>2, <1>3, <1>5, <2>2 DEF Ahead
  <2> QED
    BY <1>3, <1>4, <2>1, <2>3 DEF Chains
<1>9. d.live
  <2> SUFFICES ASSUME ~d.live PROVE FALSE
    OBVIOUS
  <2>1. PICK i \in network : /\ i.from # q /\ i.key.x3dh.base = c
                             /\ Len(i.key.mixed) >= Len(d.key.mixed) + 2
    BY <1>7 DEF ChainSent
  <2>2. i.from = p
    BY <2>1, TwoParties, SecretsType DEF Sound
  <2>3. c = b
    BY <1>2, <1>5, <1>6 DEF Proper, Linked
  <2>4. b \in Original(p)
    BY <1>1, <1>2, SendsStraight
  <2>5. OnLine(p, b, s.root, s.ephemeral)
    BY <1>1, <2>4 DEF OnLine
  <2>6. OnLine(p, b, i.key, i.ephemeral)
    BY <2>1, <2>2, <2>3, <2>5, LineStraight
  <2>7. Len(i.key.mixed) <= Len(s.root.mixed)
    BY <1>1, <2>4, <2>6 DEF LineInv, LinesGrow, Prefix
  <2>8. Len(i.key.mixed) \in Nat /\ Len(s.root.mixed) \in Nat
    BY <2>5, <2>6, LineFacts
  <2> QED
    BY <1>2, <1>6, <2>1, <2>7, <2>8
<1>10. ~(l.counter < d.counter)
  BY <1>3, <1>4, <1>8 DEF Chains
<1> QED
  BY <1>1, <1>9, <1>10 DEF Awaits

\* Unread messages go on to have their keys.
LEMMA KeysThereStep ==
    ASSUME Sound, LineInv, HeldInv, NEW p \in Parties, NEW b, NEW r, NEW lost, Step(p, b, r, lost)
    PROVE  KeysThere'
<1>1. Moved(p, b, r, lost)
  BY DEF Step, Begins, SendsIn, Forgets, ReadsIn
<1>2. /\ record'[p] = r /\ forgotten'[p] = lost
      /\ \A i \in Parties : forgotten[i] \subseteq forgotten'[i]
      /\ \A i \in Parties \ {p} : record'[i] = record[i] /\ forgotten'[i] = forgotten[i]
  BY <1>1, MovedParts DEF Sound
<1>3. \A m : m.from \in Parties /\ Straight(m)' => Straight(m)
  BY <1>2 DEF Straight
<1>4. read \subseteq read'
  BY DEF Step, Begins, SendsIn, Forgets, ReadsIn
<1>5. ASSUME NEW q \in Parties, NEW c \in Original(q)', NEW l \in network' \ read',
             l.from # q, Straight(l)', l.ephemeral \in DOMAIN record'[q][c].chains
      PROVE  Awaits(record'[q][c].chains[l.ephemeral], l.counter)
  <2>1. c \in DOMAIN record'[q] /\ c \notin forgotten'[q] /\ c \notin forgotten[q]
    BY <1>2, <1>5 DEF Original
  <2>2. CASE l \notin network
    <3>1. SendsIn(p, b, r, lost) /\ l = Message(p, record[p][b]) /\ l.from = p
      BY <1>5, <2>2, SendParts DEF Step, Begins, Forgets, ReadsIn, SendsIn, Sound
    <3>2. Straight(l) /\ q # p /\ record'[q] = record[q]
      BY <1>2, <1>3, <1>5, <3>1
    <3> QED
      BY <1>5, <2>1, <3>1, <3>2, SentAwaits
  <2>3. CASE l \in network
    <3>1. l \in network \ read /\ Straight(l) /\ l.ephemeral[1] = l.from
      BY <1>3, <1>4, <1>5, <2>3, AllOwn DEF Sound
    <3>2. CASE c \in DOMAIN record[q] /\ AsBefore(record[q][c], record'[q][c])
      BY <1>5, <2>1, <3>1, <3>2 DEF HeldInv, KeysThere, Original, AsBefore
    <3>3. CASE q = p /\ c = b /\ b \in DOMAIN r /\ record'[q][c] = r[b]
      <4>1. b \notin lost
        BY <1>2, <2>1, <3>3
      <4>2. CASE Begins(p, b, r, lost)
        <5>1. PICK x \in X3DHs : JustBegun(r[b], x, Fresh(p, 2))
          BY <4>2, BeginParts DEF Sound
        <5> QED
          BY <1>5, <3>1, <3>3, <5>1, FreshUnsent DEF JustBegun
      <4>3. CASE SendsIn(p, b, r, lost)
        <5>1. /\ b \in DOMAIN record[p] /\ DOMAIN r[b].chains = DOMAIN record[p][b].chains
              /\ \A e \in DOMAIN record[p][b].chains \ {record[p][b].ephemeral} :
                    r[b].chains[e] = record[p][b].chains[e]
          BY <4>3, SendParts DEF SendsIn, Sound
        <5>2. l.ephemeral # record[p][b].ephemeral /\ b \in Original(p)
          BY <1>5, <2>1, <3>1, <3>3, <5>1, OwnFirst DEF Original
        <5> QED
          BY <1>5, <3>1, <3>3, <5>1, <5>2 DEF HeldInv, KeysThere
      <4>4. CASE \E m \in network : \E s : ReadsIn(p, m, b, s, r, lost)
        <5>1. PICK m \in network : \E s : ReadsIn(p, m, b, s, r, lost)
          BY <4>4
        <5>2. PICK s : ReadsIn(p, m, b, s, r, lost)
          BY <5>1
        <5>3. l # m
          BY <1>5, <5>2 DEF ReadsIn
        <5> QED
          BY <1>5, <3>1, <3>3, <4>1, <5>2, <5>3, ReadingAwaits
      <4> QED
        BY <3>3, <4>2, <4>3, <4>4 DEF Step, Forgets
    <3> QED
      BY <1>1, <2>1, <3>2, <3>3, SessionsMoved DEF Sound
  <2> QED
    BY <2>2, <2>3
<1> QED
  BY <1>5 DEF KeysThere

\* Unread messages have their keys.
THEOREM KeysAreThere == Spec => []HeldInv
<1>1. Init => HeldInv
  <2> SUFFICES ASSUME Init PROVE HeldInv
    OBVIOUS
  <2>1. network = {} /\ \A p \in Parties : DOMAIN record[p] = {}
    BY NoLinesYet
  <2>2. \A p \in Parties : Original(p) = {}
    BY <2>1 DEF Original
  <2> QED
    BY <2>1, <2>2 DEF HeldInv, ChainsSent, ChainsEnd, KeysThere
<1>2. Sound /\ Sound' /\ LineInv /\ HeldInv /\ [Next]_vars => HeldInv'
  <2> SUFFICES ASSUME Sound, Sound', LineInv, HeldInv, [Next]_vars PROVE HeldInv'
    OBVIOUS
  <2>1. CASE Next
    <3>1. PICK p \in Parties : \E b, r, lost : Step(p, b, r, lost)
      BY <2>1, Steps DEF Sound
    <3>2. PICK b, r, lost : Step(p, b, r, lost)
      BY <3>1
    <3>3. ChainsSent'
      BY <3>2, ChainsSentStep DEF HeldInv
    <3>4. ChainsEnd'
      BY <3>2, ChainsEndStep DEF HeldInv
    <3>5. KeysThere'
      BY <3>2, KeysThereStep
    <3> QED
      BY <3>3, <3>4, <3>5 DEF HeldInv
  <2>2. CASE UNCHANGED vars
    <3>1. record' = record /\ forgotten' = forgotten /\ network' = network /\ read' = read
      BY <2>2 DEF vars
    <3>2. \A q : Original(q)' = Original(q)
      BY <3>1 DEF Original
    <3>3. \A m : Straight(m)' = Straight(m)
      BY <3>1 DEF Straight
    <3>4. ChainsSent'
      BY <3>1 DEF HeldInv, ChainsSent
    <3>5. ChainsEnd'
      BY <3>1, <3>2, <3>3 DEF HeldInv, ChainsEnd
    <3>6. KeysThere'
      BY <3>1, <3>2, <3>3 DEF HeldInv, KeysThere
    <3> QED
      BY <3>4, <3>5, <3>6 DEF HeldInv
  <2> QED
    BY <2>1, <2>2
<1> QED
  BY <1>1, <1>2, AllSound, LinesAreFollowed, PTL DEF Spec

\* A chain for a message's key pair is that of its key, in its session.
LEMMA OwnChain ==
    ASSUME Sound, LineInv, NEW p \in Parties, NEW m \in network, m.from # p,
           NEW c \in DOMAIN record[p], m.ephemeral \in DOMAIN record[p][c].chains
    PROVE  /\ c = m.key.x3dh.base /\ record[p][c].chains[m.ephemeral].key = m.key
           /\ record[p][c].chains[m.ephemeral] \in Chains
<1>1. PICK e : e = m.ephemeral
  OBVIOUS
<1>2. e # record[p][c].ephemeral
  BY <1>1, OwnFirst, AllOwn DEF Sound
<1>3. /\ record[p][c].chains[e] \in Chains
      /\ \E l \in network : /\ l.ephemeral = e /\ l.key = record[p][c].chains[e].key
                            /\ l.key.x3dh.base = c
  BY <1>1, <1>2, PeersChain
<1> QED
  BY <1>1, <1>3 DEF LineInv, KeyOfEphemeral

\* A session opens the message that comes next on the line.
LEMMA NextOpens ==
    ASSUME NEW s \in Sessions, NEW m \in Messages, NEW f, f # m.ephemeral,
           m.ephemeral \notin DOMAIN s.chains,
           m.key = Mixed(s.root, Agreed(s.ephemeral, m.ephemeral)), m.counter <= MaxSkipped
    PROVE  Opens(s, m, f)
<1>1. m.ephemeral \in KeyPairs /\ m.previous \in Nat /\ m.counter \in Nat
  BY DEF Messages
<1>2. PICK g : g = ForMessage(s, m, f)
  OBVIOUS
<1>3. g = Ratcheted(s, m.ephemeral, m.previous, f)
  BY <1>2 DEF ForMessage
<1>4. g.chains[m.ephemeral] = NewChain("receiving", m.key)
  <2>1. PICK k : k = Mixed(s.root, Agreed(s.ephemeral, m.ephemeral))
    OBVIOUS
  <2>2. m.ephemeral \in DOMAIN g.chains /\ g.chains[m.ephemeral] = NewChain("receiving", k)
    BY ONLY f # m.ephemeral, s \in Sessions, <1>1, <1>3, <2>1, RatchetedParts
  <2> QED
    BY <2>1, <2>2
<1>5. PICK c : c = NewChain("receiving", m.key)
  OBVIOUS
<1>6. c.key = m.key /\ c.live = TRUE /\ c.counter = 0 /\ c.kept = {}
  BY <1>5 DEF NewChain
<1>7. HasKey(c, m.counter)
  BY <1>1, <1>6 DEF HasKey
<1> QED
  BY <1>2, <1>4, <1>5, <1>6, <1>7 DEF Opens

\* What p tries m with, if it has m's session or m sets it up.
LEMMA TriedWith ==
    ASSUME Sound, NEW p \in Parties, NEW m \in network, Familiar(p, m),
           Held(p, m) \/ Welcome(p, m)
    PROVE  LET w == WithSession(p, m)
               b == m.key.x3dh.base
               x == m.key.x3dh
           IN  /\ b \in Tried(w)
               /\ Held(p, m) => w[b] = record[p][b]
               /\ ~Held(p, m) => /\ w[b] = Incoming(b, x.signedPreKey, x.preKey)
                                 /\ x.signedPreKey = SignedPreKey(p)
<1>1. PICK w, b, x : w = WithSession(p, m) /\ b = m.key.x3dh.base /\ x = m.key.x3dh
  OBVIOUS
<1>2. /\ Good(record[p]) /\ x \in X3DHs /\ b \in KeyPairs /\ m.hello \subseteq {x}
      /\ SignedPreKey(p) \in KeyPairs /\ Now(p) \in Nat \ {0} /\ x.base = b
  <2>1. Good(record[p]) /\ x \in X3DHs /\ m.hello \subseteq {x}
    BY <1>1, SecretsType DEF Sound, SessionInv, RecordsGood, OriginInv, HellosTell
  <2> QED
    BY <1>1, <2>1, KeysType DEF Sound, SessionInv, X3DHs
<1>3. AtMostOneOpen(record[p])
  BY <1>2 DEF Good
<1>4. ASSUME NEW r, AtMostOneOpen(r) PROVE Tried(r) = DOMAIN r
  <2>1. OpenSession(r) = OpenSessions(r)
    BY <1>4 DEF AtMostOneOpen, OpenSession
  <2> QED
    BY <2>1 DEF Tried, ClosedSessions, OpenSessions
<1>5. m.hello # {} => m.hello = {x} /\ (CHOOSE h \in m.hello : TRUE) = x
  BY <1>2
<1>6. m.hello # {} => Prepared(p, m) = record[p]
  BY DEF Familiar, Prepared
<1>7. m.hello # {} => w = WithIncoming(record[p], x, SignedPreKey(p), Loaded(p, x), Now(p))
  BY <1>1, <1>5, <1>6 DEF WithSession
<1>8. CASE Held(p, m)
  <2>1. b \in DOMAIN record[p]
    BY <1>1, <1>8 DEF Held
  <2>2. w = record[p]
    <3>1. CASE m.hello = {}
      BY <1>1, <3>1 DEF WithSession
    <3>2. CASE m.hello # {}
      BY <1>2, <1>7, <2>1, <3>2 DEF WithIncoming
    <3> QED
      BY <3>1, <3>2
  <2> QED
    BY <1>1, <1>3, <1>4, <1>8, <2>1, <2>2
<1>9. CASE ~Held(p, m)
  <2>1. b \notin DOMAIN record[p]
    BY <1>1, <1>9 DEF Held
  <2>2. PICK h \in m.hello : h.signedPreKey = SignedPreKey(p) /\ h.preKey \subseteq preKeys[p]
    BY <1>9 DEF Welcome
  <2>3. m.hello # {} /\ x.signedPreKey = SignedPreKey(p) /\ Loaded(p, x) = x.preKey
    BY <1>2, <2>2 DEF Loaded
  <2>4. PICK s : s = Incoming(b, SignedPreKey(p), x.preKey)
    OBVIOUS
  <2>5. w = PutSession(CloseOpenSession(record[p], Now(p)), b, s)
    BY <1>2, <1>7, <2>1, <2>3, <2>4 DEF WithIncoming
  <2>6. Proper(b, s) /\ s.closed = 0
    <3>1. x.preKey \in SUBSET PreKeyIds
      BY <1>2 DEF X3DHs
    <3> QED
      BY <1>2, <2>4, <3>1, IncomingProper
  <2>7. w[b] = s /\ b \in DOMAIN w /\ OpenSessions(w) = {b}
    BY <1>2, <2>5, <2>6, OpeningGood
  <2>8. AtMostOneOpen(w)
    BY <2>7 DEF AtMostOneOpen
  <2> QED
    BY <1>1, <1>4, <1>9, <2>3, <2>4, <2>7, <2>8
<1> QED
  BY <1>8, <1>9

\* Unread messages can be read.
LEMMA ReadableNow == Sound /\ LineInv /\ HeldInv => UnreadReadable
<1> SUFFICES ASSUME Sound, LineInv, HeldInv, NEW p \in Parties, NEW m \in network \ read,
                    m.from # p, m.key.x3dh.base \notin forgotten[p], ~Recreated(m.from, m),
                    Held(p, m) \/ Welcome(p, m), Familiar(p, m), WithinReach(p, m)
             PROVE  Readable(p, m)
  BY DEF UnreadReadable
<1>1. PICK w, b, x, f : /\ w = WithSession(p, m) /\ b = m.key.x3dh.base /\ x = m.key.x3dh
                        /\ f = Fresh(p, 1)
  OBVIOUS
<1>2. /\ m \in Messages /\ m.counter \in Nat /\ m.ephemeral[1] = m.from /\ m.ephemeral # f
      /\ m.from \in Parties /\ MaxSkipped \in Nat
  BY <1>1, AllOwn, FreshUnsent, MaxSkippedAssumption DEF Sound, Messages
<1>3. OnLine(m.from, b, m.key, m.ephemeral)
  BY <1>1 DEF Recreated, Straight, OnLine, SentOn
<1>4. /\ b \in Tried(w)
      /\ Held(p, m) => w[b] = record[p][b]
      /\ ~Held(p, m) => w[b] = Incoming(b, x.signedPreKey, x.preKey)
  BY <1>1, TriedWith
<1>5. ASSUME \A c \in DOMAIN record[p] : m.ephemeral \notin DOMAIN record[p][c].chains
      PROVE  m.counter <= MaxSkipped
  BY <1>5 DEF WithinReach
<1>6. Opens(w[b], m, f)
  <2>1. CASE Held(p, m)
    <3>1. PICK s : s = record[p][b]
      OBVIOUS
    <3>2. b \in Original(p) /\ b \in DOMAIN record[p] /\ w[b] = s
      BY <1>1, <1>4, <2>1, <3>1 DEF Held, Original
    <3>3. s \in Sessions
      BY <3>1, <3>2, SecretsType DEF Sound, Proper
    <3>4. Follows(s, m.key, m.ephemeral)
      BY <1>2, <1>3, <3>1, <3>2 DEF LineInv, LinesFollowed
    <3>5. CASE m.ephemeral \in DOMAIN s.chains
      <4>1. PICK c : c = s.chains[m.ephemeral]
        OBVIOUS
      <4>2. c.key = m.key /\ c \in Chains
        BY <3>1, <3>2, <3>5, <4>1, OwnChain
      <4>3. Awaits(c, m.counter)
        BY <1>3, <3>1, <3>2, <3>5, <4>1 DEF HeldInv, KeysThere, Recreated, Straight
      <4>4. m.counter <= MaxSkipped \/ m.counter - c.counter <= MaxSkipped
        <5>1. \A k \in DOMAIN record[p] : m.ephemeral \in DOMAIN record[p][k].chains => k = b
          BY <1>1, OwnChain
        <5> QED
          BY <3>1, <4>1, <5>1 DEF WithinReach
      <4>5. HasKey(c, m.counter)
        <5>1. c.counter \in Nat /\ c.live \in BOOLEAN
          BY <4>2 DEF Chains
        <5>2. m.counter < c.counter => m.counter \in c.kept
          BY <4>3 DEF Awaits
        <5>3. ~(m.counter < c.counter) => c.live
          BY <4>3 DEF Awaits
        <5>4. ~(m.counter < c.counter) => c.counter <= m.counter /\ m.counter - c.counter <= MaxSkipped
          BY <1>2, <4>4, <5>1
        <5> QED
          BY <5>2, <5>3, <5>4 DEF HasKey
      <4> QED
        BY <3>2, <3>5, <4>1, <4>2, <4>5 DEF Opens, ForMessage
    <3>6. CASE m.ephemeral \notin DOMAIN s.chains
      <4>1. m.counter <= MaxSkipped
        <5>1. \A k \in DOMAIN record[p] : m.ephemeral \in DOMAIN record[p][k].chains => k = b
          BY <1>1, OwnChain
        <5> QED
          BY <1>5, <3>1, <3>6, <5>1
      <4>2. m.key = Mixed(s.root, Agreed(s.ephemeral, m.ephemeral))
        BY <3>4, <3>6 DEF Follows
      <4> QED
        BY <1>2, <3>2, <3>3, <3>6, <4>1, <4>2, NextOpens
    <3> QED
      BY <3>5, <3>6
  <2>2. CASE ~Held(p, m)
    <3>1. PICK s : s = Incoming(b, x.signedPreKey, x.preKey)
      OBVIOUS
    <3>2. b \notin DOMAIN record[p] /\ b \notin Had(p) /\ w[b] = s
      BY <1>1, <1>4, <2>2, <3>1 DEF Held, Had
    <3>3. x \in X3DHs /\ b \in KeyPairs /\ x.signedPreKey \in KeyPairs /\ x.preKey \in SUBSET PreKeyIds
      BY <1>1, SecretsType DEF Sound, X3DHs
    <3>4. s \in Sessions
      BY <3>1, <3>3, IncomingProper DEF Proper
    <3>5. x = X3DH(b, x.signedPreKey, x.preKey)
      BY <1>1, <3>3 DEF X3DH, X3DHs
    <3>6. s.root = RootKey(x) /\ s.ephemeral = x.signedPreKey /\ DOMAIN s.chains = {}
      BY <3>1, <3>5, IncomingParts
    <3>7. m.key = Mixed(s.root, Agreed(s.ephemeral, m.ephemeral))
      BY <1>1, <1>2, <1>3, <3>2, <3>6 DEF LineInv, LinesBegin
    <3>8. m.counter <= MaxSkipped
      BY <1>1, <1>5, <3>2, OwnChain
    <3> QED
      BY <1>2, <3>2, <3>4, <3>6, <3>7, <3>8, NextOpens
  <2> QED
    BY <2>1, <2>2
<1> QED
  BY <1>1, <1>4, <1>6 DEF Readable, Openers

\* A message that has not been read can be, in whatever order messages come, while
\* its session is there or can still be set up by it: no ratchet step, no closing
\* of a session and no other message takes its key away.
THEOREM UnreadStaysReadable == Spec => []UnreadReadable
BY ReadableNow, AllSound, LinesAreFollowed, KeysAreThere, PTL
=============================================================================
