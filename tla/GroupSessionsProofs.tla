------------------------ MODULE GroupSessionsProofs ------------------------
(***************************************************************************)
(* A sender of a group and its readers, for any devices, limits and bounds: *)
(* no sender key encrypts twice, and what the memory of distributions holds *)
(* has been distributed; a device reads nothing from before its first       *)
(* distribution, everything after it, and everything once.                  *)
(***************************************************************************)
EXTENDS GroupSessions, FiniteSetTheorems, SequenceTheorems, TLAPS

\* Records with some fields changed, named so that a step can speak of them.
Sender(r, i, n) == [record |-> r, installation |-> i, sent |-> n]

States == [id : Nat, iteration : Nat, kept : SUBSET Nat]

-----------------------------------------------------------------------------
(* The record of a sender: one state, which only moves on. *)

With(s, keys, i) == [s EXCEPT !.kept = keys, !.iteration = i]

\* A state with its keys and its iteration changed.
LEMMA StateWith ==
    ASSUME NEW s \in States, NEW K \in SUBSET Nat, NEW i \in Nat
    PROVE  With(s, K, i) \in States /\ With(s, K, i).id = s.id /\ With(s, K, i).iteration = i
<1> DEFINE v == [s EXCEPT !.kept = K]
<1>1. v \in States /\ v.id = s.id
  BY DEF States
<1> HIDE DEF v
<1>2. /\ [v EXCEPT !.iteration = i] \in States
      /\ [v EXCEPT !.iteration = i].id = s.id
      /\ [v EXCEPT !.iteration = i].iteration = i
  BY <1>1 DEF States
<1> QED BY <1>2, Zenon DEF v, With

Sent(u, r, n) == [u EXCEPT !.record = r, !.sent = n]

Installed(u, r, i) == [u EXCEPT !.record = r, !.installation = i]

\* A sender with its record and one more field changed.
LEMMA SenderWith ==
    ASSUME NEW u, u = Sender(u.record, u.installation, u.sent), NEW r, NEW i, NEW n
    PROVE  Sent(u, r, n) = Sender(r, u.installation, n) /\ Installed(u, r, i) = Sender(r, i, u.sent)
<1> DEFINE v == [u EXCEPT !.record = r]
<1>1. v = Sender(r, u.installation, u.sent)
  BY DEF Sender
<1> HIDE DEF v
<1>2. /\ [v EXCEPT !.sent = n] = Sender(r, u.installation, n)
      /\ [v EXCEPT !.installation = i] = Sender(r, i, u.sent)
  BY <1>1 DEF Sender
<1> QED BY <1>2, Zenon DEF v, Sent, Installed

\* Taking a key at or past the iteration moves the state past it.
LEMMA TakenMovesOn ==
    ASSUME NEW s \in States, NEW n \in Nat, n >= s.iteration
    PROVE  /\ Taken(s, n) \in States
           /\ Taken(s, n).id = s.id
           /\ Taken(s, n).iteration = n + 1
<1> DEFINE K == KeepLast(s.kept \union s.iteration..(n - 1))
<1>1. K \in SUBSET Nat
  BY DEF KeepLast, States
<1>2. ~(n < s.iteration)
  BY DEF States
<1>3. Taken(s, n) = With(s, K, n + 1)
  BY <1>2, Zenon DEF Taken, With
<1> HIDE DEF K
<1>4. n + 1 \in Nat
  OBVIOUS
<1> QED BY <1>1, <1>3, <1>4, StateWith

\* A record of one state has no other.
LEMMA NobodyElse == ASSUME NEW s PROVE Others(<<s>>, s.id) = <<>>
<1>1. DOMAIN <<s>> \ Positions(<<s>>, s.id) = {}
  BY DEF Positions
<1>2. Cardinality({}) = 0
  BY FS_EmptySet
<1>3. \A f : f = [x \in DOMAIN f |-> f[x]] /\ DOMAIN f = {} => f = <<>>
  OBVIOUS
<1>4. DOMAIN Others(<<s>>, s.id) = {}
  BY <1>1, <1>2 DEF Others
<1>5. Others(<<s>>, s.id) = [x \in DOMAIN Others(<<s>>, s.id) |-> Others(<<s>>, s.id)[x]]
  BY DEF Others
<1> QED BY <1>3, <1>4, <1>5

\* Encryption under a record of one state leaves that state, moved on.
LEMMA EncryptedSingle ==
    ASSUME NEW s \in States
    PROVE  LET t == Taken(s, EncryptIteration(s))
           IN  /\ Encrypted(<<s>>) = <<t>>
               /\ t \in States /\ t.id = s.id
               /\ t.iteration = EncryptIteration(s) + 1
               /\ EncryptIteration(s) \in Nat
               /\ s.iteration <= EncryptIteration(s)
<1> DEFINE t == Taken(s, EncryptIteration(s))
<1>1. EncryptIteration(s) \in Nat /\ s.iteration <= EncryptIteration(s)
  BY DEF EncryptIteration, States
<1>2. t \in States /\ t.id = s.id /\ t.iteration = EncryptIteration(s) + 1
  BY <1>1, TakenMovesOn
<1>3. PutState(<<s>>, t) = AppendBounded(<<>>, t)
  BY <1>2, NobodyElse DEF PutState
<1>4. AppendBounded(<<>>, t) = <<t>>
  <2>1. Len(<<>>) < MaxStates
    BY SenderKeysAssumption
  <2>2. AppendBounded(<<>>, t) = Append(<<>>, t)
    BY <2>1, Zenon DEF AppendBounded
  <2>3. Append(<<>>, t) = <<t>>
    BY <1>2
  <2> QED BY <2>2, <2>3
<1>5. Current(<<s>>) = s
  BY DEF Current
<1> QED BY <1>1, <1>2, <1>3, <1>4, <1>5 DEF Encrypted

-----------------------------------------------------------------------------
(* The inductive invariant of the sending side. *)

(* The sender's record is empty, or one state under its installation's id.  *)
SenderOK ==
    /\ sender = Sender(sender.record, sender.installation, sender.sent)
    /\ sender.installation \in Nat
    /\ sender.record # <<>> =>
          /\ sender.record = <<sender.record[1]>>
          /\ sender.record[1] \in States
          /\ sender.record[1].id = sender.installation

(* An id and an iteration that the sender has passed.                       *)
Passed(m) ==
    /\ m.id \in Nat /\ m.iteration \in Nat /\ m.id <= sender.installation
    /\ m.id = sender.installation =>
          sender.record # <<>> /\ m.iteration < sender.record[1].iteration

(* What the send task carries: a message newer than any under its id, the   *)
(* distribution of the present key, later what goes to the new devices.     *)
TaskOK ==
    /\ task.phase \in {"idle", "encrypted", "remembered"}
    /\ task.phase # "idle" =>
          /\ task.message.type = "skmsg"
          /\ Passed(task.message)
          /\ \A m \in Messages : m.id = task.message.id => m.iteration < task.message.iteration
    /\ task.phase = "encrypted" =>
          /\ task.distribution.id = sender.installation
          /\ task.participants \subseteq Devices
    /\ task.phase = "remembered" =>
          \A k \in task.distributions : k.type = "skdm" /\ k.id = sender.installation

SendingInv ==
    /\ SenderOK
    /\ TaskOK
    /\ known \subseteq Devices
    /\ \A m \in Messages : Passed(m)
    /\ KeysUsedOnce
    /\ MemoryIsDistributed

\* Nothing has been sent.
LEMMA InitSending == ASSUME Init PROVE SendingInv
  BY DEF Init, Idle, SendingInv, SenderOK, Sender, TaskOK, Messages, KeysUsedOnce, MemoryIsDistributed

\* What sends neither a message nor moves the sender keeps the messages.
LEMMA MessagesStay ==
    ASSUME Messages' = Messages, UNCHANGED sender, SendingInv
    PROVE  /\ SenderOK'
           /\ \A m : Passed(m) => Passed(m)'
           /\ \A m \in Messages' : Passed(m)'
           /\ KeysUsedOnce'
  BY DEF SendingInv, SenderOK, Passed, KeysUsedOnce

(* Encryption takes the next iteration of the record, or the first of a new *)
(* one, before anything is sent.                                            *)
LEMMA EncryptKeeps ==
    ASSUME SendingInv, NEW participants \in SUBSET Devices, Encrypt(participants)
    PROVE  SendingInv'
<1> DEFINE r == Created(sender.record, sender.installation)
           s == r[1]
           t == Taken(s, EncryptIteration(s))
<1> USE DEF SendingInv
<1>1. r = <<s>> /\ s \in States /\ s.id = sender.installation
  BY DEF Created, SenderOK, NewState, States
<1>2. sender.record # <<>> => s = sender.record[1]
  BY DEF Created
<1>3. Current(r) = s
  BY <1>1 DEF Current
<1> HIDE DEF r, s
<1>4. /\ Encrypted(r) = <<t>>
      /\ t \in States /\ t.id = s.id
      /\ t.iteration = EncryptIteration(s) + 1
      /\ EncryptIteration(s) \in Nat
      /\ s.iteration <= EncryptIteration(s)
  BY <1>1, EncryptedSingle
<1> HIDE DEF t
<1>5. /\ sender' = Sent(sender, Encrypted(r), sender.sent + 1)
      /\ task' = [phase |-> "encrypted", participants |-> participants,
                  distribution |-> Distribution(r),
                  message |-> [type |-> "skmsg", n |-> sender.sent + 1, id |-> Current(r).id,
                               iteration |-> EncryptIteration(Current(r))]]
      /\ UNCHANGED <<known, network, unsent>>
  BY Zenon DEF Encrypt, r, Sent
<1>6. /\ sender' = Sender(<<t>>, sender.installation, sender.sent + 1)
      /\ sender'.record = <<t>> /\ sender'.installation = sender.installation
  <2>1. sender' = Sender(<<t>>, sender.installation, sender.sent + 1)
    <3>1. sender = Sender(sender.record, sender.installation, sender.sent)
      BY DEF SenderOK
    <3>2. Sent(sender, Encrypted(r), sender.sent + 1)
              = Sender(Encrypted(r), sender.installation, sender.sent + 1)
      BY <3>1, SenderWith
    <3> QED BY <3>2, <1>4, <1>5
  <2> QED BY <2>1 DEF Sender
<1>7. SenderOK'
  BY <1>1, <1>4, <1>6 DEF SenderOK, Sender
<1>8. \A m : Passed(m) => Passed(m)'
  BY <1>1, <1>2, <1>4, <1>6 DEF Passed, States, SenderOK
<1>9. Messages' = Messages
  BY <1>5 DEF Messages
<1>10. TaskOK'
  <2>1. task'.message.id = sender.installation /\ task'.message.iteration = EncryptIteration(s)
    BY <1>1, <1>3, <1>5
  <2>4. Passed(task.message)'
    BY <1>1, <1>4, <1>6, <2>1 DEF Passed, SenderOK
  <2>2. \A m \in Messages' : m.id = task'.message.id => m.iteration < task'.message.iteration
    BY <1>1, <1>2, <1>3, <1>4, <1>5, <1>9 DEF Passed, States, SenderOK
  <2>3. task'.distribution.id = sender'.installation
    BY <1>1, <1>3, <1>5, <1>6 DEF Distribution
  <2> QED BY <1>5, <2>2, <2>3, <2>4 DEF TaskOK
<1>11. KeysUsedOnce'
  BY <1>9 DEF KeysUsedOnce
<1>12. MemoryIsDistributed'
  BY <1>5, <1>6 DEF MemoryIsDistributed, Distributions, Encrypt, Idle
<1>13. known' \subseteq Devices
  BY <1>5
<1> QED BY <1>13, <1>7, <1>8, <1>9, <1>10, <1>11, <1>12 DEF SendingInv

(* The memory is written with the distributions made for what it lacked.    *)
LEMMA RememberKeeps == ASSUME SendingInv, Remember PROVE SendingInv'
<1> USE DEF SendingInv, Remember
<1>1. Messages' = Messages /\ Distributions' = Distributions
  BY DEF Messages, Distributions
<1>2. SenderOK' /\ (\A m : Passed(m) => Passed(m)') /\ KeysUsedOnce'
  BY <1>1, MessagesStay
<1>3. \A d \in NewDevices(task.participants) :
         DistributionTo(d, task.distribution, task.message.n).to = d
  BY DEF DistributionTo
<1>4. \A k \in task'.distributions : k.type = "skdm" /\ k.id = sender'.installation
  BY DEF DistributionTo, TaskOK
<1>5. TaskOK'
  BY <1>1, <1>2, <1>4 DEF TaskOK
<1>6. known' \subseteq Devices
  BY DEF TaskOK
<1>7. MemoryIsDistributed'
  <2> SUFFICES ASSUME NEW d \in known', d \notin unsent,
                      ~ \E k \in Distributions : k.to = d /\ k.id = sender.installation
               PROVE  \E k \in task'.distributions : k.to = d
    BY <1>1 DEF MemoryIsDistributed
  <2>1. d \notin known
    BY DEF MemoryIsDistributed
  <2>2. d \in NewDevices(task.participants)
    BY <2>1 DEF NewDevices
  <2> QED BY <2>2, <1>3
<1> QED BY <1>1, <1>2, <1>5, <1>6, <1>7

(* The stanza goes out: what was in the task's hands is in the network.     *)
LEMMA RelayKeeps == ASSUME SendingInv, Relay PROVE SendingInv'
<1> USE DEF SendingInv, Relay
<1>1. Messages' = Messages \union {task.message}
  BY DEF Messages, TaskOK
<1>2. Distributions \union task.distributions \subseteq Distributions'
  BY DEF Distributions, TaskOK
<1>3. SenderOK' /\ (\A m : Passed(m) => Passed(m)')
  BY DEF SenderOK, Passed
<1>4. \A m \in Messages' : Passed(m)'
  BY <1>1, <1>3 DEF TaskOK
<1>5. KeysUsedOnce'
  BY <1>1 DEF KeysUsedOnce, TaskOK, Passed
<1>6. TaskOK'
  BY DEF TaskOK, Idle
<1>7. MemoryIsDistributed'
  BY <1>2 DEF MemoryIsDistributed, TaskOK
<1> QED BY <1>3, <1>4, <1>5, <1>6, <1>7

(* What a failed send had remembered went under with it.                    *)
LEMMA FailKeeps == ASSUME SendingInv, Fail PROVE SendingInv'
<1> USE DEF SendingInv, Fail
<1>1. Messages' = Messages /\ Distributions' = Distributions
  BY DEF Messages, Distributions
<1>2. SenderOK' /\ (\A m \in Messages' : Passed(m)') /\ KeysUsedOnce'
  BY <1>1, MessagesStay
<1>3. TaskOK'
  BY DEF TaskOK, Idle
<1>4. MemoryIsDistributed'
  BY <1>1 DEF MemoryIsDistributed
<1> QED BY <1>2, <1>3, <1>4

\* One more distribution of the present key.
LEMMA RedistributeKeeps ==
    ASSUME SendingInv, NEW d \in Devices, Redistribute(d) PROVE SendingInv'
<1> USE DEF SendingInv, Redistribute
<1>1. Messages' = Messages /\ Distributions \subseteq Distributions'
  BY DEF Messages, Distributions, DistributionTo
<1>2. SenderOK' /\ (\A m : Passed(m) => Passed(m)') /\ (\A m \in Messages' : Passed(m)') /\ KeysUsedOnce'
  BY <1>1, MessagesStay
<1>3. TaskOK'
  BY <1>1, <1>2 DEF TaskOK
<1>4. MemoryIsDistributed'
  BY <1>1 DEF MemoryIsDistributed
<1> QED BY <1>2, <1>3, <1>4

(* A new installation has an id above every message's.                      *)
LEMMA ReinstallSenderKeeps == ASSUME SendingInv, ReinstallSender PROVE SendingInv'
<1>1. /\ sender' = Installed(sender, <<>>, sender.installation + 1)
      /\ known' = {} /\ task' = Idle /\ network' = network
  BY Zenon DEF ReinstallSender, Installed
<1>2. /\ sender' = Sender(<<>>, sender.installation + 1, sender.sent)
      /\ sender'.record = <<>> /\ sender'.installation = sender.installation + 1
  <2>1. sender = Sender(sender.record, sender.installation, sender.sent)
    BY DEF SendingInv, SenderOK
  <2>2. Installed(sender, <<>>, sender.installation + 1)
            = Sender(<<>>, sender.installation + 1, sender.sent)
    BY <2>1, SenderWith
  <2>3. sender' = Sender(<<>>, sender.installation + 1, sender.sent)
    BY <2>2, <1>1
  <2> QED BY <2>3 DEF Sender
<1>3. SenderOK'
  BY <1>2 DEF SendingInv, SenderOK, Sender
<1>4. Messages' = Messages
  BY <1>1 DEF Messages
<1>5. \A m \in Messages' : Passed(m)'
  BY <1>2, <1>4 DEF SendingInv, SenderOK, Passed
<1>6. TaskOK' /\ MemoryIsDistributed'
  BY <1>1 DEF TaskOK, Idle, MemoryIsDistributed
<1>7. KeysUsedOnce'
  BY <1>4 DEF SendingInv, KeysUsedOnce
<1> QED BY <1>1, <1>3, <1>5, <1>6, <1>7 DEF SendingInv

\* The steps of the devices, which write to none of this.
LEMMA ReadingKeeps ==
    ASSUME SendingInv, UNCHANGED <<sender, known, task, network, unsent>> PROVE SendingInv'
  BY DEF SendingInv, SenderOK, TaskOK, Passed, Messages, Distributions, KeysUsedOnce,
         MemoryIsDistributed

\* The invariant is inductive.
LEMMA NextSending == ASSUME SendingInv, [Next]_vars PROVE SendingInv'
<1>1. ASSUME NEW participants \in SUBSET Devices, Encrypt(participants) PROVE SendingInv'
  BY <1>1, EncryptKeeps
<1>2. ASSUME NEW d \in Devices, ReceiveDistribution(d) \/ ReceiveMessage(d) \/ Reinstall(d)
      PROVE  SendingInv'
  BY <1>2, ReadingKeeps DEF ReceiveDistribution, ReceiveMessage, Reinstall
<1>3. CASE UNCHANGED vars
  BY <1>3, ReadingKeeps DEF vars
<1> QED BY <1>1, <1>2, <1>3, RememberKeeps, RelayKeeps, FailKeeps, RedistributeKeeps,
           ReinstallSenderKeeps DEF Next

-----------------------------------------------------------------------------
(* The types. *)

\* The counters of the sender stay in their bounds.
LEMMA NextCounters ==
    ASSUME SendingInv, TypeOK, [Next]_vars
    PROVE  sender'.installation \in 1..MaxInstallations /\ sender'.sent \in 0..MaxSent
<1>1. sender = Sender(sender.record, sender.installation, sender.sent)
  BY DEF SendingInv, SenderOK
<1>2. ASSUME NEW participants \in SUBSET Devices, Encrypt(participants)
      PROVE  sender'.installation = sender.installation /\ sender'.sent \in 0..MaxSent
  <2> DEFINE r == Encrypted(Created(sender.record, sender.installation))
             n == sender.sent + 1
  <2>1. sender' = Sent(sender, r, n) /\ n <= MaxSent
    BY <1>2, Zenon DEF Encrypt, Sent
  <2>2. n \in 0..MaxSent
    BY <2>1, GroupAssumption DEF TypeOK
  <2> HIDE DEF r, n
  <2>3. Sent(sender, r, n) = Sender(r, sender.installation, n)
    BY <1>1, SenderWith
  <2>4. sender' = Sender(r, sender.installation, n)
    BY <2>1, <2>3
  <2> QED BY <2>2, <2>4 DEF Sender
<1>3. ASSUME ReinstallSender
      PROVE  sender'.installation \in 1..MaxInstallations /\ sender'.sent = sender.sent
  <2> DEFINE i == sender.installation + 1
  <2>1. sender' = Installed(sender, <<>>, i) /\ sender.installation < MaxInstallations
    BY <1>3, Zenon DEF ReinstallSender, Installed
  <2>2. i \in 1..MaxInstallations
    BY <2>1, GroupAssumption DEF TypeOK
  <2> HIDE DEF i
  <2>3. Installed(sender, <<>>, i) = Sender(<<>>, i, sender.sent)
    BY <1>1, SenderWith
  <2>4. sender' = Sender(<<>>, i, sender.sent)
    BY <2>1, <2>3
  <2> QED BY <2>2, <2>4 DEF Sender
<1>4. (Remember \/ Relay \/ Fail \/ UNCHANGED vars) => UNCHANGED sender
  BY DEF Remember, Relay, Fail, vars
<1>5. \A d \in Devices :
         Redistribute(d) \/ ReceiveDistribution(d) \/ ReceiveMessage(d) \/ Reinstall(d)
             => UNCHANGED sender
  BY DEF Redistribute, ReceiveDistribution, ReceiveMessage, Reinstall
<1> QED BY <1>2, <1>3, <1>4, <1>5 DEF Next, TypeOK

\* Nothing leaves the network, and what is read is in it.
LEMMA NextRead ==
    ASSUME TypeOK, [Next]_vars
    PROVE  processed' \in [Devices -> SUBSET Distributions'] /\ read' \in [Devices -> SUBSET Messages']
<1>1. network \subseteq network'
  BY DEF Next, vars, Encrypt, Remember, Relay, Fail, ReinstallSender, Redistribute,
         ReceiveDistribution, ReceiveMessage, Reinstall
<1>2. Distributions \subseteq Distributions' /\ Messages \subseteq Messages'
  BY <1>1 DEF Distributions, Messages
<1>3. ASSUME UNCHANGED <<processed, read>>
      PROVE  /\ processed' \in [Devices -> SUBSET Distributions']
             /\ read' \in [Devices -> SUBSET Messages']
  BY <1>2, <1>3 DEF TypeOK
<1>4. ASSUME NEW d \in Devices, ReceiveDistribution(d)
      PROVE  /\ processed' \in [Devices -> SUBSET Distributions']
             /\ read' \in [Devices -> SUBSET Messages']
  <2>1. PICK k \in Distributions : processed' = [processed EXCEPT ![d] = @ \union {k}]
    BY <1>4 DEF ReceiveDistribution
  <2> QED BY <1>2, <1>4, <2>1 DEF TypeOK, ReceiveDistribution
<1>5. ASSUME NEW d \in Devices, ReceiveMessage(d)
      PROVE  /\ processed' \in [Devices -> SUBSET Distributions']
             /\ read' \in [Devices -> SUBSET Messages']
  <2>1. PICK m \in Messages : read' = [read EXCEPT ![d] = @ \union {m}]
    BY <1>5 DEF ReceiveMessage
  <2> QED BY <1>2, <1>5, <2>1 DEF TypeOK, ReceiveMessage
<1>6. ASSUME NEW d \in Devices, Reinstall(d)
      PROVE  /\ processed' \in [Devices -> SUBSET Distributions']
             /\ read' \in [Devices -> SUBSET Messages']
  BY <1>2, <1>6 DEF TypeOK, Reinstall
<1>7. ASSUME NEW participants, Encrypt(participants) PROVE UNCHANGED <<processed, read>>
  BY <1>7 DEF Encrypt
<1>8. (Remember \/ Relay \/ Fail \/ ReinstallSender \/ UNCHANGED vars)
          => UNCHANGED <<processed, read>>
  BY DEF Remember, Relay, Fail, ReinstallSender, vars
<1>9. \A d \in Devices : Redistribute(d) => UNCHANGED <<processed, read>>
  BY DEF Redistribute
<1> QED BY <1>3, <1>4, <1>5, <1>6, <1>7, <1>8, <1>9 DEF Next

(* The state keeps its types: the sender's record holds one state, the      *)
(* memory devices of the group, a device what was sent.                     *)
THEOREM TypeCorrect == Spec => []TypeOK
<1>1. ASSUME Init PROVE TypeOK
  BY <1>1, GroupAssumption DEF Init, TypeOK, Idle, Distributions, Messages
<1>2. ASSUME SendingInv, TypeOK, [Next]_vars PROVE TypeOK'
  <2>1. SendingInv'
    BY <1>2, NextSending
  <2>2. Len(sender'.record) <= 1
    <3>1. sender'.record = <<>> \/ sender'.record = <<sender'.record[1]>>
      BY <2>1 DEF SendingInv, SenderOK
    <3>2. Len(<<>>) = 0 /\ \A s : Len(<<s>>) = 1
      OBVIOUS
    <3> DEFINE length == Len(sender'.record)
    <3>3. length \in {0, 1}
      BY <3>1, <3>2, Zenon
    <3> HIDE DEF length
    <3>4. length <= 1
      BY <3>3
    <3> QED BY <3>4 DEF length
  <2>3. known' \subseteq Devices /\ task'.phase \in {"idle", "encrypted", "remembered"}
    BY <2>1 DEF SendingInv, TaskOK
  <2> QED BY <1>2, <2>2, <2>3, NextCounters, NextRead DEF TypeOK
<1> QED BY <1>1, <1>2, InitSending, NextSending, PTL DEF Spec

(* For any number of devices, installations and failed sends: the record is *)
(* saved past a message before its stanza goes out, so no key of a sender   *)
(* encrypts two messages.                                                   *)
THEOREM KeyEncryptsOnce == Spec => []KeysUsedOnce
<1>1. SendingInv => KeysUsedOnce
  BY DEF SendingInv
<1> QED BY <1>1, InitSending, NextSending, PTL DEF Spec

(* A device that sender-key-memory holds has its distribution relayed, in   *)
(* the hands of the running send, or lost with a stanza that failed.        *)
THEOREM RememberedHaveKey == Spec => []MemoryIsDistributed
<1>1. SendingInv => MemoryIsDistributed
  BY DEF SendingInv
<1> QED BY <1>1, InitSending, NextSending, PTL DEF Spec
-----------------------------------------------------------------------------
(* Counting the numbers of a set. *)

\* How many elements of a set of numbers are at most n.
Rank(S, n) == Cardinality({j \in S : j <= n})

Above(S, n) == {j \in S : j > n}

FiniteNumbers(S) == S \in SUBSET Nat /\ IsFiniteSet(S)

LEMMA Subsets ==
    ASSUME NEW S, FiniteNumbers(S), NEW T \in SUBSET S
    PROVE  /\ FiniteNumbers(T) /\ Cardinality(T) \in Nat /\ Cardinality(S) \in Nat
           /\ Cardinality(T) <= Cardinality(S)
           /\ Cardinality(T) = Cardinality(S) => T = S
  BY FS_Subset, FS_CardinalityType DEF FiniteNumbers

\* A rank is a number up to the size of the set, and rises with the element.
LEMMA Ranks ==
    ASSUME NEW S, FiniteNumbers(S)
    PROVE  /\ Cardinality(S) \in Nat
           /\ \A i \in S : Rank(S, i) \in 1..Cardinality(S)
           /\ \A i, j \in S : i < j => Rank(S, i) < Rank(S, j)
           /\ \A i, j \in S : Rank(S, i) = Rank(S, j) => i = j
<1>1. Cardinality(S) \in Nat
  BY FS_CardinalityType DEF FiniteNumbers
<1>2. ASSUME NEW i \in S PROVE Rank(S, i) \in 1..Cardinality(S)
  <2> DEFINE T == {j \in S : j <= i}
  <2>1. i \in T
    BY DEF FiniteNumbers
  <2>2. IsFiniteSet(T) /\ Cardinality(T) \in Nat /\ Cardinality(T) <= Cardinality(S)
    BY Subsets DEF FiniteNumbers
  <2>3. Cardinality(T) # 0
    BY <2>1, <2>2, FS_EmptySet
  <2> QED BY <1>1, <2>2, <2>3 DEF Rank
<1>3. ASSUME NEW i \in S, NEW j \in S, i < j PROVE Rank(S, i) < Rank(S, j)
  <2> DEFINE T == {k \in S : k <= i}
             U == {k \in S : k <= j}
  <2>4. \A k \in S : k \in Nat
    BY DEF FiniteNumbers
  <2>1. T \subseteq U /\ j \in U /\ j \notin T
    BY <1>3, <2>4
  <2>2. FiniteNumbers(U)
    BY Subsets
  <2>3. Cardinality(T) \in Nat /\ Cardinality(U) \in Nat /\ Cardinality(T) <= Cardinality(U)
        /\ Cardinality(T) # Cardinality(U)
    BY <2>1, <2>2, Subsets
  <2> QED BY <2>3 DEF Rank
<1>4. ASSUME NEW i \in S, NEW j \in S, Rank(S, i) = Rank(S, j) PROVE i = j
  <2>1. ~(i < j) /\ ~(j < i)
    BY <1>2, <1>3, <1>4
  <2> QED BY <2>1 DEF FiniteNumbers
<1> QED BY <1>1, <1>2, <1>3, <1>4

\* Every rank up to the size of the set is some element's.
LEMMA RanksCover ==
    ASSUME NEW S, FiniteNumbers(S), NEW n \in 1..Cardinality(S)
    PROVE  \E i \in S : Rank(S, i) = n
<1> DEFINE f == [i \in S |-> Rank(S, i)]
           T == 1..Cardinality(S)
<1>1. Cardinality(S) \in Nat
  BY Ranks
<1>2. f \in Injection(S, T)
  <2>1. f \in [S -> T]
    BY Ranks
  <2>2. \A i, j \in S : f[i] = f[j] => i = j
    BY Ranks
  <2> QED BY <2>1, <2>2 DEF Injection, IsInjective
<1>3. IsFiniteSet(T) /\ Cardinality(T) = Cardinality(S)
  <2>1. 1 \in Int /\ Cardinality(S) \in Int /\ (1 > Cardinality(S) => Cardinality(S) = 0)
    BY <1>1
  <2>2. IsFiniteSet(T) /\ Cardinality(T) = IF 1 > Cardinality(S) THEN 0 ELSE Cardinality(S) - 1 + 1
    BY <2>1, FS_Interval
  <2> QED BY <1>1, <2>1, <2>2
<1> HIDE DEF f, T
<1>4. f \in Surjection(S, T)
  BY <1>2, <1>3, FS_Injection
<1>5. PICK i \in S : f[i] = n
  BY <1>4 DEF Surjection, T
<1> QED BY <1>5 DEF f

\* A set that is not empty has a least element.
LEMMA LeastElement ==
    ASSUME NEW S, FiniteNumbers(S), S # {}
    PROVE  \E i \in S : \A j \in S : i <= j
<1>1. PICK k \in S : TRUE
  OBVIOUS
<1>2. 1 \in 1..Cardinality(S)
  BY <1>1, Ranks
<1>3. PICK i \in S : Rank(S, i) = 1
  BY <1>2, RanksCover
<1>4. ASSUME NEW j \in S PROVE i <= j
  <2>1. ~(j < i)
    BY <1>3, Ranks
  <2> QED BY <2>1 DEF FiniteNumbers
<1> QED BY <1>4

\* The elements above one are those its rank leaves.
LEMMA AboveRank ==
    ASSUME NEW S, FiniteNumbers(S), NEW n \in S
    PROVE  /\ FiniteNumbers(Above(S, n))
           /\ Cardinality(Above(S, n)) = Cardinality(S) - Rank(S, n)
<1> DEFINE T == {j \in S : j <= n}
<1>1. FiniteNumbers(T) /\ FiniteNumbers(Above(S, n))
  BY Subsets DEF Above
<1>2. T \union Above(S, n) = S /\ T \intersect Above(S, n) = {}
  <2>1. \A j \in S : j \in Nat
    BY DEF FiniteNumbers
  <2>2. \A j \in S : j <= n <=> ~(j > n)
    BY <2>1
  <2> QED BY <2>2 DEF Above
<1> HIDE DEF T
<1>3. Cardinality(S) = Cardinality(T) + Cardinality(Above(S, n)) - Cardinality({})
  BY <1>1, <1>2, FS_Union DEF FiniteNumbers
<1>4. /\ Cardinality(T) \in Nat /\ Cardinality(Above(S, n)) \in Nat
      /\ Cardinality({}) = 0
  BY <1>1, FS_CardinalityType, FS_EmptySet DEF FiniteNumbers
<1>5. Cardinality(T) = Rank(S, n)
  BY DEF T, Rank
<1> QED BY <1>1, <1>3, <1>4, <1>5

(* What add_sender_message_key/2 keeps: no more than MaxKept, all of a set  *)
(* that small, and MaxKept above whatever went.                             *)
LEMMA KeptLast ==
    ASSUME NEW S, FiniteNumbers(S)
    PROVE  /\ KeepLast(S) \subseteq S
           /\ FiniteNumbers(KeepLast(S)) /\ Cardinality(KeepLast(S)) <= MaxKept
           /\ Cardinality(S) <= MaxKept => KeepLast(S) = S
           /\ \A n \in S \ KeepLast(S) : Cardinality(Above(KeepLast(S), n)) >= MaxKept
<1> DEFINE K == KeepLast(S)
           size == Cardinality(S)
           lowest == size - MaxKept
           T == (lowest + 1)..size
<1>1. K \subseteq S /\ FiniteNumbers(K) /\ size \in Nat /\ MaxKept \in Nat
  BY Subsets, Ranks, SenderKeysAssumption DEF KeepLast
<1>2. \A n \in S : Rank(S, n) \in 1..size /\ Cardinality(Above(S, n)) = size - Rank(S, n)
  BY Ranks, AboveRank
<1>3. \A n \in S : n \in K <=> Cardinality(Above(S, n)) < MaxKept
  BY DEF KeepLast, Above
<1> HIDE DEF K, size
<1>4. \A n \in S : n \in K <=> Rank(S, n) > lowest
  BY <1>1, <1>2, <1>3
<1>5. size <= MaxKept => K = S
  BY <1>1, <1>2, <1>4
<1>6. lowest >= 0 => IsFiniteSet(T) /\ Cardinality(T) = MaxKept
  <2>1. /\ lowest + 1 \in Int /\ size \in Int
        /\ lowest + 1 > size => MaxKept = 0
        /\ size - (lowest + 1) + 1 = MaxKept
    BY <1>1
  <2> HIDE DEF lowest
  <2>2. /\ IsFiniteSet(T)
        /\ Cardinality(T) = IF lowest + 1 > size THEN 0 ELSE size - (lowest + 1) + 1
    BY <2>1, FS_Interval
  <2> QED BY <2>1, <2>2
<1>7. Cardinality(K) <= MaxKept
  <2>1. CASE size <= MaxKept
    BY <1>1, <1>5, <2>1 DEF size
  <2>2. CASE size > MaxKept
    <3> DEFINE f == [i \in K |-> Rank(S, i)]
    <3>1. f \in Injection(K, T)
      <4>1. f \in [K -> T]
        BY <1>1, <1>2, <1>4
      <4>2. \A i, j \in K : f[i] = f[j] => i = j
        BY <1>1, Ranks
      <4> QED BY <4>1, <4>2 DEF Injection, IsInjective
    <3>2. IsFiniteSet(T) /\ Cardinality(T) = MaxKept
      BY <1>1, <1>6, <2>2
    <3> HIDE DEF f, T
    <3> QED BY <3>1, <3>2, FS_Injection
  <2> QED BY <1>1, <2>1, <2>2
<1>8. ASSUME NEW n \in S \ K PROVE Cardinality(Above(K, n)) >= MaxKept
  <2> DEFINE U == Above(K, n)
             f == [i \in U |-> Rank(S, i)]
  <2>1. Rank(S, n) \in 1..size /\ Rank(S, n) <= lowest /\ lowest >= 0
    BY <1>1, <1>2, <1>4
  <2>2. FiniteNumbers(U)
    BY <1>1, Subsets DEF Above
  <2>3. \A i \in U : i \in S /\ Rank(S, i) \in T
    <3>1. \A i \in U : i \in S /\ i \in K
      BY <1>1 DEF Above
    <3>2. \A i \in K : Rank(S, i) \in 1..size /\ Rank(S, i) > lowest
      BY <1>1, <1>2, <1>4
    <3>3. size \in Int /\ lowest \in Int
      BY <1>1
    <3> QED BY <3>1, <3>2, <3>3
  <2>4. ASSUME NEW v \in T PROVE \E i \in U : f[i] = v
    <3>1. v \in 1..size /\ v > lowest
      BY <1>1, <2>1
    <3>2. PICK i \in S : Rank(S, i) = v
      BY <3>1, RanksCover DEF size
    <3>3. i \in K
      BY <1>4, <3>1, <3>2
    <3>4. i # n /\ ~(i < n)
      <4>1. i < n => Rank(S, i) < Rank(S, n)
        BY Ranks
      <4> QED BY <1>1, <2>1, <3>1, <3>2, <4>1
    <3>5. i \in U
      BY <3>3, <3>4 DEF Above, FiniteNumbers
    <3> QED BY <3>2, <3>5
  <2>5. f \in Surjection(U, T)
    BY <2>3, <2>4 DEF Surjection
  <2> HIDE DEF U, f, T
  <2>6. Cardinality(T) <= Cardinality(U)
    BY <2>2, <2>5, FS_Surjection DEF FiniteNumbers
  <2> QED BY <2>6, <1>6, <2>1 DEF U
<1> QED BY <1>1, <1>5, <1>7, <1>8 DEF K, size

-----------------------------------------------------------------------------
(* The records of a device. *)

Holds(r, id) == Positions(r, id) # {}

SameFor(q, r, id) == (Holds(q, id) <=> Holds(r, id)) /\ (Holds(r, id) => StateFor(q, id) = StateFor(r, id))

LEMMA PositionsCount ==
    ASSUME NEW r \in Seq(States), NEW id
    PROVE  /\ Len(r) \in Nat /\ DOMAIN r = 1..Len(r)
           /\ FiniteNumbers(DOMAIN r) /\ Cardinality(DOMAIN r) = Len(r)
           /\ FiniteNumbers(Positions(r, id))
           /\ Positions(r, id) \subseteq DOMAIN r
<1>1. Len(r) \in Nat /\ DOMAIN r = 1..Len(r)
  OBVIOUS
<1>2. IsFiniteSet(DOMAIN r) /\ Cardinality(DOMAIN r) = Len(r)
  <2>1. 1 \in Int /\ Len(r) \in Int /\ (1 > Len(r) => Len(r) = 0)
    BY <1>1
  <2> DEFINE n == Len(r)
  <2> HIDE DEF n
  <2>2. IsFiniteSet(1..n) /\ Cardinality(1..n) = IF 1 > n THEN 0 ELSE n - 1 + 1
    BY <2>1, FS_Interval DEF n
  <2>3. IsFiniteSet(1..n) /\ Cardinality(1..n) = n
    BY <1>1, <2>1, <2>2 DEF n
  <2> QED BY <1>1, <2>3 DEF n
<1>3. FiniteNumbers(DOMAIN r)
  BY <1>1, <1>2 DEF FiniteNumbers
<1>4. Positions(r, id) \subseteq DOMAIN r
  BY DEF Positions
<1> QED BY <1>1, <1>2, <1>3, <1>4, Subsets

\* What state_for_key_id/2 finds is the first of its id.
LEMMA FirstFound ==
    ASSUME NEW r \in Seq(States), NEW id, Holds(r, id)
    PROVE  /\ FirstPosition(r, id) \in Positions(r, id)
           /\ FirstPosition(r, id) \in DOMAIN r
           /\ \A j \in Positions(r, id) : FirstPosition(r, id) <= j
           /\ StateFor(r, id) \in States /\ StateFor(r, id).id = id
<1>1. \E i \in Positions(r, id) : \A j \in Positions(r, id) : i <= j
  BY PositionsCount, LeastElement DEF Holds
<1>2. /\ FirstPosition(r, id) \in Positions(r, id)
      /\ \A j \in Positions(r, id) : FirstPosition(r, id) <= j
  BY <1>1 DEF FirstPosition
<1>3. FirstPosition(r, id) \in DOMAIN r /\ r[FirstPosition(r, id)].id = id
  BY <1>2 DEF Positions
<1>4. r[FirstPosition(r, id)] \in States
  BY <1>3, PositionsCount, ElementOfSeq
<1> QED BY <1>2, <1>3, <1>4 DEF StateFor

\* Two records whose states of an id correspond, in order, find the same.
LEMMA SameFound ==
    ASSUME NEW q \in Seq(States), NEW r \in Seq(States), NEW id, NEW f,
           \A i \in Positions(q, id) : f[i] \in Positions(r, id) /\ q[i] = r[f[i]],
           \A j \in Positions(r, id) : \E i \in Positions(q, id) : f[i] = j,
           \A i, j \in Positions(q, id) : i <= j => f[i] <= f[j]
    PROVE  SameFor(q, r, id)
<1>1. Holds(q, id) <=> Holds(r, id)
  BY DEF Holds
<1>2. ASSUME Holds(r, id) PROVE StateFor(q, id) = StateFor(r, id)
  <2> DEFINE i == FirstPosition(q, id)
             j == FirstPosition(r, id)
  <2>1. i \in Positions(q, id) /\ \A k \in Positions(q, id) : i <= k
    BY <1>1, <1>2, FirstFound
  <2>2. j \in Positions(r, id) /\ \A k \in Positions(r, id) : j <= k
    BY <1>2, FirstFound
  <2> HIDE DEF i, j
  <2>3. PICK k \in Positions(q, id) : f[k] = j
    BY <2>2
  <2>4. f[i] <= j /\ j <= f[i]
    BY <2>1, <2>2, <2>3
  <2>5. f[i] \in Nat /\ j \in Nat
    BY <2>1, <2>2, PositionsCount DEF FiniteNumbers
  <2>6. f[i] = j
    BY <2>4, <2>5
  <2>7. q[i] = r[j]
    BY <2>1, <2>6
  <2> QED BY <2>7 DEF StateFor, i, j
<1> QED BY <1>1, <1>2 DEF SameFor

\* One more state is found when there was none of its id.
LEMMA OneMore ==
    ASSUME NEW r \in Seq(States), NEW s \in States
    PROVE  /\ Append(r, s) \in Seq(States) /\ Len(Append(r, s)) = Len(r) + 1
           /\ \A i \in DOMAIN Append(r, s) :
                 Append(r, s)[i] = s \/ (i \in DOMAIN r /\ Append(r, s)[i] = r[i])
           /\ \A id : id # s.id \/ Holds(r, id) => SameFor(Append(r, s), r, id)
           /\ Holds(Append(r, s), s.id)
           /\ ~Holds(r, s.id) => StateFor(Append(r, s), s.id) = s
<1> DEFINE q == Append(r, s)
           n == Len(r)
<1>1. /\ q \in Seq(States) /\ Len(q) = n + 1 /\ n \in Nat
      /\ \A i \in 1..n : q[i] = r[i]
      /\ q[n + 1] = s
      /\ DOMAIN q = 1..(n + 1) /\ DOMAIN r = 1..n
  BY AppendProperties, PositionsCount
<1> HIDE DEF q, n
<1>2. \A i \in DOMAIN q : i \in DOMAIN r \/ i = n + 1
  BY <1>1
<1>3. \A id : Positions(r, id) \subseteq Positions(q, id)
  BY <1>1 DEF Positions
<1>4. ASSUME NEW id, NEW i \in Positions(q, id)
      PROVE  i \in Positions(r, id) \/ (i = n + 1 /\ id = s.id)
  <2>1. i \in DOMAIN q /\ q[i].id = id
    BY DEF Positions
  <2>2. CASE i = n + 1
    BY <1>1, <2>1, <2>2
  <2>3. CASE i \in DOMAIN r
    <3>1. q[i] = r[i]
      BY <1>1, <2>3
    <3> QED BY <2>1, <2>3, <3>1 DEF Positions
  <2> QED BY <1>2, <2>1, <2>2, <2>3
<1>5. n + 1 \in Positions(q, s.id)
  BY <1>1 DEF Positions
<1>6. ASSUME NEW id, id # s.id PROVE SameFor(q, r, id)
  <2>4. \A i \in Positions(q, id) : i \in Positions(r, id)
    BY <1>4, <1>6, Zenon
  <2>5. Positions(r, id) \subseteq Positions(q, id)
    BY <1>3
  <2>1. Positions(q, id) = Positions(r, id)
    BY ONLY <2>4, <2>5
  <2>2. Holds(q, id) <=> Holds(r, id)
    BY <2>1 DEF Holds
  <2>3. FirstPosition(q, id) = FirstPosition(r, id)
    BY <2>1 DEF FirstPosition
  <2>6. Holds(r, id) => FirstPosition(r, id) \in 1..n
    BY <1>1, FirstFound
  <2> QED BY <1>1, <2>2, <2>3, <2>6 DEF SameFor, StateFor
<1>7. ASSUME NEW id, Holds(r, id) PROVE SameFor(q, r, id)
  <2> DEFINE i == FirstPosition(q, id)
             j == FirstPosition(r, id)
  <2>1. j \in Positions(r, id) /\ j \in 1..n /\ \A k \in Positions(r, id) : j <= k
    BY <1>1, <1>7, FirstFound
  <2>2. Holds(q, id)
    BY <1>3, <2>1 DEF Holds
  <2>3. i \in Positions(q, id) /\ \A k \in Positions(q, id) : i <= k
    BY <1>1, <2>2, FirstFound
  <2> HIDE DEF i, j
  <2>4. i <= j
    BY <1>3, <2>1, <2>3
  <2>5. i \in Nat /\ i # n + 1
    BY <1>1, <2>1, <2>3, <2>4, PositionsCount DEF FiniteNumbers
  <2>6. i \in Positions(r, id)
    BY <1>4, <2>3, <2>5
  <2>7. i = j
    BY <2>1, <2>4, <2>5, <2>6
  <2>8. q[i] = r[j]
    BY <1>1, <2>1, <2>7
  <2> QED BY <1>7, <2>2, <2>8 DEF SameFor, StateFor, i, j
<1>8. ASSUME ~Holds(r, s.id) PROVE StateFor(q, s.id) = s
  <2>1. \A i \in Positions(q, s.id) : i = n + 1
    BY <1>4, <1>8 DEF Holds
  <2>2. FirstPosition(q, s.id) = n + 1
    BY <1>1, <1>5, <2>1, FirstFound DEF Holds
  <2> QED BY <1>1, <2>2 DEF StateFor
<1>9. Holds(q, s.id)
  BY <1>5 DEF Holds
<1>10. ASSUME NEW i \in DOMAIN q PROVE q[i] = s \/ (i \in DOMAIN r /\ q[i] = r[i])
  <2>1. i \in DOMAIN r \/ i = n + 1
    BY <1>2
  <2>2. i \in DOMAIN r => q[i] = r[i]
    BY <1>1
  <2> QED BY <1>1, <2>1, <2>2
<1> QED BY <1>1, <1>6, <1>7, <1>8, <1>9, <1>10 DEF q, n

\* Without its first state a record finds the same of every other id.
LEMMA FirstLeftOut ==
    ASSUME NEW r \in Seq(States), Len(r) >= 1
    PROVE  LET q == SubSeq(r, 2, Len(r))
           IN  /\ q \in Seq(States) /\ Len(q) = Len(r) - 1
               /\ \A i \in DOMAIN q : i + 1 \in DOMAIN r /\ q[i] = r[i + 1]
               /\ \A id : id # r[1].id => SameFor(q, r, id)
<1> DEFINE q == SubSeq(r, 2, Len(r))
           n == Len(r)
<1>1. n \in Nat /\ n >= 1 /\ DOMAIN r = 1..n /\ n \in Int /\ 2 \in Int
  BY PositionsCount
<1>2. \A i \in 2..n : r[i] \in States
  BY <1>1, ElementOfSeq
<1>3. /\ q \in Seq(States)
      /\ Len(q) = IF 2 <= n THEN n - 2 + 1 ELSE 0
      /\ \A i \in 1..(n - 2 + 1) : q[i] = r[2 + i - 1]
  BY <1>1, <1>2, SubSeqProperties
<1> HIDE DEF q, n
<1>4. Len(q) = n - 1 /\ DOMAIN q = 1..(n - 1)
  <2>1. Len(q) = n - 1
    BY <1>1, <1>3
  <2> QED BY <1>3, <2>1, PositionsCount
<1>5. \A i \in 1..(n - 1) : q[i] = r[i + 1] /\ i + 1 \in 1..n
  <2>1. \A i \in 1..(n - 1) : i \in 1..(n - 2 + 1) /\ 2 + i - 1 = i + 1 /\ i + 1 \in 1..n
    BY <1>1
  <2> QED BY <1>3, <2>1
<1>6. ASSUME NEW id, id # r[1].id PROVE SameFor(q, r, id)
  <2> DEFINE f == [i \in Positions(q, id) |-> i + 1]
  <2>1. \A i \in Positions(q, id) : i + 1 \in Positions(r, id) /\ q[i] = r[i + 1]
    BY <1>1, <1>4, <1>5 DEF Positions
  <2>2. ASSUME NEW j \in Positions(r, id) PROVE \E i \in Positions(q, id) : i + 1 = j
    <3>1. j \in 1..n /\ j # 1
      BY <1>1, <1>6 DEF Positions
    <3>2. j - 1 \in 1..(n - 1) /\ (j - 1) + 1 = j
      BY <1>1, <3>1
    <3>3. q[j - 1] = r[j]
      BY <1>5, <3>2
    <3>4. j - 1 \in Positions(q, id)
      BY <1>4, <3>2, <3>3 DEF Positions
    <3> QED BY <3>2, <3>4
  <2>3. \A i, j \in Positions(q, id) : i <= j => i + 1 <= j + 1
    BY <1>1, <1>4 DEF Positions
  <2>4. \A i \in Positions(q, id) : f[i] = i + 1
    OBVIOUS
  <2> HIDE DEF f
  <2>5. \A i \in Positions(q, id) : f[i] \in Positions(r, id) /\ q[i] = r[f[i]]
    BY <2>1, <2>4
  <2>6. \A j \in Positions(r, id) : \E i \in Positions(q, id) : f[i] = j
    BY <2>2, <2>4
  <2>7. \A i, j \in Positions(q, id) : i <= j => f[i] <= f[j]
    BY <2>3, <2>4
  <2> QED BY <1>3, <2>5, <2>6, <2>7, SameFound
<1>7. \A i \in DOMAIN q : i + 1 \in DOMAIN r /\ q[i] = r[i + 1]
  BY <1>1, <1>4, <1>5
<1> QED BY <1>3, <1>4, <1>6, <1>7 DEF q, n

\* Enum.reject leaves the states of the other ids, in their order.
LEMMA OthersLeft ==
    ASSUME NEW r \in Seq(States), NEW id, Holds(r, id)
    PROVE  LET q == Others(r, id)
           IN  /\ q \in Seq(States) /\ Len(q) < Len(r)
               /\ \A k \in DOMAIN q : \E i \in DOMAIN r : q[k] = r[i] /\ r[i].id # id
               /\ ~Holds(q, id)
               /\ \A other : other # id => SameFor(q, r, other)
<1> DEFINE others == DOMAIN r \ Positions(r, id)
           size == Cardinality(others)
           f == [k \in 1..size |-> CHOOSE i \in others : Rank(others, i) = k]
           q == [k \in 1..size |-> r[f[k]]]
<1>1. q = Others(r, id)
  BY DEF Others, Rank
<1>2. FiniteNumbers(others) /\ size \in Nat /\ size < Len(r)
  <2>1. FiniteNumbers(others) /\ size \in Nat /\ size <= Len(r) /\ (size = Len(r) => others = DOMAIN r)
    BY PositionsCount, Subsets
  <2>2. others # DOMAIN r
    BY PositionsCount DEF Holds
  <2> QED BY <2>1, <2>2, PositionsCount
<1>3. \A i \in others : i \in DOMAIN r /\ r[i] \in States /\ r[i].id # id
  <2>1. \A i \in DOMAIN r : r[i] \in States
    BY PositionsCount, ElementOfSeq
  <2> QED BY <2>1 DEF Positions
<1>4. \A i \in DOMAIN r : r[i].id # id => i \in others
  BY DEF Positions
<1> HIDE DEF others
<1>5. \A k \in 1..size : f[k] \in others /\ Rank(others, f[k]) = k
  BY <1>2, RanksCover
<1>6. \A k \in 1..size : q[k] = r[f[k]]
  OBVIOUS
<1> HIDE DEF f
<1>7. q \in Seq(States) /\ Len(q) = size /\ DOMAIN q = 1..size
  <2>1. \A k \in 1..size : r[f[k]] \in States
    BY <1>3, <1>5
  <2>2. q \in [1..size -> States]
    BY <2>1
  <2> HIDE DEF size
  <2> QED BY <1>2, <2>2
<1> HIDE DEF q, size
<1>8. \A k \in 1..size : q[k].id # id
  BY <1>3, <1>5, <1>6
<1>9. ASSUME NEW other, other # id PROVE SameFor(q, r, other)
  <2>1. \A k \in Positions(q, other) : f[k] \in Positions(r, other) /\ q[k] = r[f[k]]
    BY <1>3, <1>5, <1>6, <1>7 DEF Positions
  <2>2. ASSUME NEW i \in Positions(r, other) PROVE \E k \in Positions(q, other) : f[k] = i
    <3>1. i \in others /\ r[i].id = other
      BY <1>4, <1>9 DEF Positions
    <3>2. Rank(others, i) \in 1..size
      BY <1>2, <3>1, Ranks DEF size
    <3>3. f[Rank(others, i)] = i
      BY <1>2, <1>5, <3>1, <3>2, Ranks
    <3> QED BY <1>6, <1>7, <3>1, <3>2, <3>3 DEF Positions
  <2>3. ASSUME NEW k \in Positions(q, other), NEW l \in Positions(q, other), k <= l
        PROVE  f[k] <= f[l]
    <3>1. k \in 1..size /\ l \in 1..size
      BY <1>7 DEF Positions
    <3>2. /\ f[k] \in others /\ Rank(others, f[k]) = k
          /\ f[l] \in others /\ Rank(others, f[l]) = l
      BY <1>5, <3>1
    <3>3. ~(f[l] < f[k])
      <4>1. f[l] < f[k] => l < k
        BY <1>2, <3>2, Ranks
      <4> QED BY <2>3, <3>1, <4>1
    <3>4. f[k] \in Nat /\ f[l] \in Nat
      BY <1>2, <3>2 DEF FiniteNumbers
    <3> QED BY <3>3, <3>4
  <2> QED BY <1>7, <2>1, <2>2, <2>3, SameFound
<1>10. ~Holds(q, id)
  BY <1>7, <1>8 DEF Holds, Positions
<1>11. \A k \in DOMAIN q : \E i \in DOMAIN r : q[k] = r[i] /\ r[i].id # id
  BY <1>3, <1>5, <1>6, <1>7
<1> QED BY <1>1, <1>2, <1>7, <1>9, <1>10, <1>11

Record(r) == r \in Seq(States) /\ Len(r) <= MaxStates

(* process/2 adds a state behind those of the record, and leaves out the    *)
(* first when there is no room.                                             *)
LEMMA ProcessedRecord ==
    ASSUME NEW r, Record(r), NEW k, k.id \in Nat, k.iteration \in Nat
    PROVE  LET q == Processed(r, k)
               s == NewState(k.id, k.iteration)
           IN  /\ Record(q) /\ s \in States
               /\ \A i \in DOMAIN q : q[i] = s \/ \E j \in DOMAIN r : q[i] = r[j]
               /\ \A id : id \notin Evicted(r) /\ Holds(r, id) => SameFor(q, r, id)
               /\ Holds(q, k.id)
               /\ k.id \notin Evicted(r) /\ ~Holds(r, k.id) => StateFor(q, k.id) = s
<1> DEFINE s == NewState(k.id, k.iteration)
           q == Processed(r, k)
           n == Len(r)
<1>1. s \in States /\ s.id = k.id
  BY DEF NewState, States
<1>2. q = Append(IF n < MaxStates THEN r ELSE SubSeq(r, n - MaxStates + 2, n), s)
  BY DEF Processed, AppendBounded
<1>3. r \in Seq(States) /\ n \in Nat /\ n <= MaxStates /\ MaxStates \in Nat /\ MaxStates >= 1
  BY SenderKeysAssumption, PositionsCount DEF Record
<1>4. CASE n < MaxStates
  <2>1. q = Append(r, s)
    BY <1>2, <1>4
  <2> HIDE DEF s, q
  <2>2. Record(q)
    BY <1>1, <1>3, <1>4, <2>1, OneMore DEF Record
  <2>3. \A i \in DOMAIN q : q[i] = s \/ \E j \in DOMAIN r : q[i] = r[j]
    BY <1>1, <1>3, <2>1, OneMore, Zenon
  <2>4. \A id : Holds(r, id) => SameFor(q, r, id)
    BY <1>1, <1>3, <2>1, OneMore, Zenon
  <2>5. Holds(q, k.id) /\ (~Holds(r, k.id) => StateFor(q, k.id) = s)
    BY <1>1, <1>3, <2>1, OneMore, Zenon
  <2> QED BY <1>1, <2>2, <2>3, <2>4, <2>5, Zenon DEF s, q
<1>5. CASE n = MaxStates
  <2> DEFINE rest == SubSeq(r, 2, n)
  <2>1. n - MaxStates + 2 = 2 /\ ~(n < MaxStates) /\ n >= 1
    BY <1>3, <1>5
  <2>2. q = Append(rest, s)
    BY <1>2, <2>1
  <2>3. Evicted(r) = {r[1].id}
    <3>1. n - MaxStates + 1 = 1
      BY <1>3, <1>5
    <3>2. Evicted(r) = {r[i].id : i \in 1..1}
      BY <2>1, <3>1 DEF Evicted
    <3> QED BY <3>2
  <2>4. /\ rest \in Seq(States) /\ Len(rest) = n - 1
        /\ \A i \in DOMAIN rest : i + 1 \in DOMAIN r /\ rest[i] = r[i + 1]
        /\ \A id : id # r[1].id => SameFor(rest, r, id)
    BY <1>3, <2>1, FirstLeftOut
  <2> HIDE DEF rest, s, q, n
  <2>5. Len(q) = Len(rest) + 1 /\ q \in Seq(States)
    BY <1>1, <2>2, <2>4, OneMore
  <2>6. Record(q)
    BY <1>3, <2>4, <2>5 DEF Record
  <2>7. ASSUME NEW i \in DOMAIN q PROVE q[i] = s \/ \E j \in DOMAIN r : q[i] = r[j]
    <3>1. q[i] = s \/ (i \in DOMAIN rest /\ q[i] = rest[i])
      BY <1>1, <2>2, <2>4, OneMore, Zenon
    <3>2. i \in DOMAIN rest => rest[i] = r[i + 1] /\ i + 1 \in DOMAIN r
      BY <2>4
    <3> QED BY <3>1, <3>2
  <2>8. ASSUME NEW id, id \notin Evicted(r), Holds(r, id) PROVE SameFor(q, r, id)
    <3>1. SameFor(rest, r, id)
      BY <2>3, <2>4, <2>8
    <3>2. Holds(rest, id)
      BY <2>8, <3>1 DEF SameFor
    <3>3. SameFor(q, rest, id)
      BY <1>1, <2>2, <2>4, <3>2, OneMore, Zenon
    <3> QED BY <3>1, <3>3 DEF SameFor
  <2>9. Holds(q, k.id)
    BY <1>1, <2>2, <2>4, OneMore, Zenon
  <2>10. ASSUME k.id \notin Evicted(r), ~Holds(r, k.id) PROVE StateFor(q, k.id) = s
    <3>1. SameFor(rest, r, k.id)
      BY <2>3, <2>4, <2>10
    <3>2. ~Holds(rest, k.id)
      BY <2>10, <3>1 DEF SameFor
    <3>3. ~Holds(rest, s.id)
      BY <1>1, <3>2
    <3>4. StateFor(q, s.id) = s
      BY <1>1, <2>2, <2>4, <3>3, OneMore, Zenon
    <3> QED BY <1>1, <3>4
  <2> QED BY <1>1, <2>6, <2>7, <2>8, <2>9, <2>10, Zenon DEF s, q
<1> QED BY <1>3, <1>4, <1>5

(* put_state/2 puts the state decrypt/2 took from behind those of other ids *)
(* and leaves out none.                                                     *)
LEMMA DecryptedRecord ==
    ASSUME NEW r, Record(r), NEW m, Holds(r, m.id),
           Taken(StateFor(r, m.id), m.iteration) \in States,
           Taken(StateFor(r, m.id), m.iteration).id = m.id
    PROVE  LET q == Decrypted(r, m)
               t == Taken(StateFor(r, m.id), m.iteration)
           IN  /\ Record(q)
               /\ \A i \in DOMAIN q : q[i] = t \/ \E j \in DOMAIN r : q[i] = r[j]
               /\ \A id : id # m.id => SameFor(q, r, id)
               /\ Holds(q, m.id) /\ StateFor(q, m.id) = t
<1> DEFINE t == Taken(StateFor(r, m.id), m.iteration)
           rest == Others(r, m.id)
           q == Decrypted(r, m)
<1>1. r \in Seq(States) /\ Len(r) \in Nat /\ Len(r) <= MaxStates /\ MaxStates \in Nat
  BY SenderKeysAssumption, PositionsCount DEF Record
<1>2. /\ rest \in Seq(States) /\ Len(rest) < Len(r)
      /\ \A k \in DOMAIN rest : \E i \in DOMAIN r : rest[k] = r[i] /\ r[i].id # m.id
      /\ ~Holds(rest, m.id)
      /\ \A other : other # m.id => SameFor(rest, r, other)
  BY <1>1, OthersLeft
<1>3. t \in States /\ t.id = m.id
  OBVIOUS
<1>4. q = AppendBounded(rest, t)
  BY <1>3 DEF Decrypted, PutState
<1>5. Len(rest) \in Nat /\ Len(rest) < MaxStates
  BY <1>1, <1>2, PositionsCount
<1>6. q = Append(rest, t)
  BY <1>4, <1>5 DEF AppendBounded
<1> HIDE DEF t, rest, q
<1>7. Len(q) = Len(rest) + 1 /\ q \in Seq(States)
  BY <1>2, <1>3, <1>6, OneMore
<1>8. Record(q)
  BY <1>1, <1>5, <1>7 DEF Record
<1>9. ASSUME NEW i \in DOMAIN q PROVE q[i] = t \/ \E j \in DOMAIN r : q[i] = r[j]
  <2>1. q[i] = t \/ (i \in DOMAIN rest /\ q[i] = rest[i])
    BY <1>2, <1>3, <1>6, OneMore, Zenon
  <2> QED BY <1>2, <2>1
<1>10. ASSUME NEW id, id # m.id PROVE SameFor(q, r, id)
  <2>1. SameFor(rest, r, id)
    BY <1>2, <1>10
  <2>2. SameFor(q, rest, id)
    BY <1>2, <1>3, <1>6, <1>10, OneMore, Zenon
  <2> QED BY <2>1, <2>2 DEF SameFor
<1>11. Holds(q, m.id) /\ StateFor(q, m.id) = t
  BY <1>2, <1>3, <1>6, OneMore, ZenonT(40)
<1> QED BY <1>8, <1>9, <1>10, <1>11, Zenon DEF t, q

-----------------------------------------------------------------------------
(* The keys of a state. *)

GoodState(s) ==
    /\ s \in States
    /\ IsFiniteSet(s.kept) /\ Cardinality(s.kept) <= MaxKept
    /\ \A n \in s.kept : n < s.iteration

(* A key that a state has given out, or given up.                           *)
Gone(s, n) == n < s.iteration /\ n \notin s.kept

\* A new state keeps nothing.
LEMMA NewIsGood ==
    ASSUME NEW id \in Nat, NEW n \in Nat
    PROVE  /\ GoodState(NewState(id, n))
           /\ NewState(id, n).id = id /\ NewState(id, n).iteration = n /\ NewState(id, n).kept = {}
<1> DEFINE s == NewState(id, n)
<1>1. s \in States /\ s.id = id /\ s.iteration = n /\ s.kept = {}
  BY DEF NewState, States
<1>2. IsFiniteSet({}) /\ Cardinality({}) = 0
  BY FS_EmptySet
<1> HIDE DEF s
<1>3. GoodState(s)
  BY <1>1, <1>2, SenderKeysAssumption DEF GoodState
<1> QED BY <1>1, <1>3 DEF s

WithKept(s, keys) == [s EXCEPT !.kept = keys]

\* The keys a state has once one of them was taken.
KeysAfter(s, n) ==
    IF n < s.iteration THEN s.kept \ {n} ELSE KeepLast(s.kept \union s.iteration..(n - 1))

LEMMA TakenParts ==
    ASSUME NEW s \in States, NEW n \in Nat, KeysAfter(s, n) \in SUBSET Nat
    PROVE  /\ Taken(s, n) \in States /\ Taken(s, n).id = s.id
           /\ Taken(s, n).kept = KeysAfter(s, n)
           /\ Taken(s, n).iteration = IF n < s.iteration THEN s.iteration ELSE n + 1
<1> DEFINE K == KeysAfter(s, n)
           v == WithKept(s, K)
<1>1. K \in SUBSET Nat
  OBVIOUS
<1>2. K = IF n < s.iteration THEN s.kept \ {n} ELSE KeepLast(s.kept \union s.iteration..(n - 1))
  BY Zenon DEF KeysAfter
<1>3. Taken(s, n) = IF n < s.iteration THEN v ELSE [v EXCEPT !.iteration = n + 1]
  <2>1. CASE n < s.iteration
    BY <1>2, <2>1, Zenon DEF Taken, WithKept
  <2>2. CASE ~(n < s.iteration)
    BY <1>2, <2>2, Zenon DEF Taken, WithKept
  <2> QED BY <2>1, <2>2
<1> HIDE DEF K
<1>4. v \in States /\ v.id = s.id /\ v.kept = K /\ v.iteration = s.iteration
  BY <1>1 DEF WithKept, States
<1> HIDE DEF v
<1>5. /\ [v EXCEPT !.iteration = n + 1] \in States
      /\ [v EXCEPT !.iteration = n + 1].id = v.id
      /\ [v EXCEPT !.iteration = n + 1].kept = v.kept
      /\ [v EXCEPT !.iteration = n + 1].iteration = n + 1
  BY <1>4 DEF States
<1> QED BY <1>3, <1>4, <1>5 DEF K

(* What sender_key_for_iteration/2 makes of a good state: the key is gone,  *)
(* no key that was gone comes back, every other stays unless more were      *)
(* skipped than are kept, and then MaxKept newer ones are there.            *)
LEMMA TakenKeys ==
    ASSUME NEW s, GoodState(s), NEW n \in Nat, HasKey(s, n)
    PROVE  LET t == Taken(s, n)
           IN  /\ GoodState(t) /\ t.id = s.id /\ s.iteration <= t.iteration
               /\ t.iteration <= n + 1 \/ t.iteration = s.iteration
               /\ \A x \in t.kept : x \in s.kept \/ s.iteration <= x
               /\ Gone(t, n)
               /\ \A x \in Nat : Gone(s, x) => Gone(t, x)
               /\ ~Overflows(s, n) => \A x \in Nat \ {n} : ~Gone(s, x) => ~Gone(t, x)
               /\ \A x \in Nat \ {n} : HasKey(s, x) =>
                     HasKey(t, x) \/ Cardinality(Above(t.kept, x)) >= MaxKept
<1> DEFINE S == s.kept \union s.iteration..(n - 1)
           t == Taken(s, n)
           K == KeysAfter(s, n)
<1>1. /\ s \in States /\ s.iteration \in Nat /\ FiniteNumbers(s.kept)
      /\ Cardinality(s.kept) \in Nat /\ Cardinality(s.kept) <= MaxKept
      /\ \A x \in s.kept : x \in Nat /\ x < s.iteration
      /\ MaxKept \in Nat
  <2>1. FiniteNumbers(s.kept)
    BY DEF GoodState, States, FiniteNumbers
  <2> QED BY <2>1, FS_CardinalityType, SenderKeysAssumption DEF GoodState, States, FiniteNumbers
<1>2. FiniteNumbers(S) /\ Cardinality(S) \in Nat
  <2>1. FiniteNumbers(s.iteration..(n - 1))
    <3>1. s.iteration \in Int /\ n - 1 \in Int
      BY <1>1
    <3>2. IsFiniteSet(s.iteration..(n - 1))
      BY <3>1, FS_Interval
    <3> QED BY <1>1, <3>2 DEF FiniteNumbers
  <2>2. FiniteNumbers(S)
    BY <1>1, <2>1, FS_Union DEF FiniteNumbers
  <2> QED BY <2>2, FS_CardinalityType DEF FiniteNumbers
<1>3. \A x \in Nat : x \in S <=> x \in s.kept \/ (s.iteration <= x /\ x < n)
  BY <1>1
<1>4. CASE n < s.iteration
  <2>1. K = s.kept \ {n}
    BY <1>4 DEF KeysAfter
  <2>2. FiniteNumbers(K) /\ Cardinality(K) <= MaxKept
    <3>1. FiniteNumbers(K) /\ Cardinality(K) \in Nat /\ Cardinality(K) <= Cardinality(s.kept)
      BY <1>1, <2>1, Subsets
    <3> QED BY <1>1, <3>1
  <2> HIDE DEF K, S, t
  <2>3. t \in States /\ t.id = s.id /\ t.kept = K /\ t.iteration = s.iteration
    BY <1>1, <1>4, <2>2, TakenParts DEF FiniteNumbers, t, K
  <2>4. GoodState(t)
    BY <1>1, <2>1, <2>2, <2>3 DEF GoodState, FiniteNumbers
  <2>5. \A x \in Nat \ {n} : HasKey(s, x) => HasKey(t, x)
    BY <2>1, <2>3 DEF HasKey
  <2>6. Gone(t, n) /\ (\A x \in Nat : Gone(s, x) => Gone(t, x))
    BY <1>1, <1>4, <2>1, <2>3 DEF Gone
  <2>7. \A x \in Nat \ {n} : ~Gone(s, x) => ~Gone(t, x)
    BY <2>1, <2>3 DEF Gone
  <2>8. \A x \in t.kept : x \in s.kept
    BY <2>1, <2>3
  <2> QED BY <1>1, <2>3, <2>4, <2>5, <2>6, <2>7, <2>8 DEF t
<1>5. CASE n >= s.iteration
  <2>0. ~(n < s.iteration)
    BY <1>1, <1>5
  <2>1. K = KeepLast(S)
    BY <2>0 DEF KeysAfter
  <2> HIDE DEF K, S, t
  <2>2. /\ K \subseteq S /\ FiniteNumbers(K) /\ Cardinality(K) <= MaxKept
        /\ Cardinality(S) <= MaxKept => K = S
        /\ \A x \in S \ K : Cardinality(Above(K, x)) >= MaxKept
    BY <1>2, <2>1, KeptLast
  <2>3. t \in States /\ t.id = s.id /\ t.kept = K /\ t.iteration = n + 1
    BY <1>1, <2>0, <2>2, TakenParts DEF FiniteNumbers, t, K
  <2>4. \A x \in K : x \in Nat /\ x \in S
    BY <2>2 DEF FiniteNumbers
  <2>5. GoodState(t)
    <3>1. \A x \in K : x < n + 1
      BY <1>1, <1>3, <1>5, <2>4
    <3> QED BY <2>2, <2>3, <3>1 DEF GoodState, FiniteNumbers
  <2>6. ASSUME NEW x \in Nat \ {n}, HasKey(s, x)
        PROVE  HasKey(t, x) \/ Cardinality(Above(t.kept, x)) >= MaxKept
    <3>1. CASE x \in K
      BY <2>3, <3>1 DEF HasKey
    <3>2. CASE x \in S \ K
      BY <2>2, <2>3, <3>2
    <3>3. CASE x \notin S
      <4>1. x >= n + 1 /\ x - s.iteration <= MaxFuture
        BY <1>1, <1>3, <2>6, <3>3 DEF HasKey
      <4>2. x - (n + 1) <= MaxFuture
        BY <1>1, <1>5, <4>1, SenderKeysAssumption
      <4> QED BY <2>3, <4>1, <4>2 DEF HasKey
    <3> QED BY <3>1, <3>2, <3>3
  <2>7. Gone(t, n)
    <3>1. n \notin K
      BY <1>1, <1>3, <1>5, <2>4
    <3> QED BY <2>3, <3>1 DEF Gone
  <2>8. ASSUME NEW x \in Nat, Gone(s, x) PROVE Gone(t, x)
    <3>1. x < s.iteration /\ x \notin S
      BY <1>1, <1>3, <2>8 DEF Gone
    <3>2. x < n + 1 /\ x \notin K
      BY <1>1, <1>5, <2>4, <3>1
    <3> QED BY <2>3, <3>2 DEF Gone
  <2>9. ASSUME ~Overflows(s, n), NEW x \in Nat \ {n}, ~Gone(s, x) PROVE ~Gone(t, x)
    <3>1. Cardinality(S) <= MaxKept
      <4>1. CASE s.iteration < n
        <5>1. ~(Cardinality(S) > MaxKept)
          BY <2>9, <4>1 DEF Overflows, S
        <5> QED BY <1>1, <1>2, <5>1
      <4>2. CASE s.iteration = n
        <5>1. \A y \in S : y \in s.kept
          BY <1>1, <1>2, <1>3, <4>2 DEF FiniteNumbers
        <5>2. S = s.kept
          BY <5>1 DEF S
        <5> QED BY <1>1, <5>2
      <4> QED BY <1>1, <1>5, <4>1, <4>2
    <3>2. K = S
      BY <2>2, <3>1
    <3>3. x \in S \/ x >= n + 1
      BY <1>1, <1>3, <2>9 DEF Gone
    <3> QED BY <2>3, <3>2, <3>3 DEF Gone
  <2>10. \A x \in t.kept : x \in s.kept \/ s.iteration <= x
    BY <1>3, <2>3, <2>4
  <2>11. s.iteration <= t.iteration
    BY <1>1, <1>5, <2>3
  <2> QED BY <2>3, <2>5, <2>6, <2>7, <2>8, <2>9, <2>10, <2>11 DEF t
<1> QED BY <1>1, <1>4, <1>5

-----------------------------------------------------------------------------
(* The inductive invariant of the reading side. *)

\* The messages relayed, and the one a send has in hand.
SentMessages == Messages \union (IF task.phase = "idle" THEN {} ELSE {task.message})

(* A distribution of an id at an iteration, made for message n: it comes    *)
(* before exactly the messages numbered n or higher.                        *)
InOrder(id, iteration, n) ==
    \A m \in SentMessages : m.id = id => (n <= m.n <=> iteration <= m.iteration)

\* An iteration of an id that the sender has come to.
Reached(id, iteration) ==
    /\ id <= sender.installation
    /\ id = sender.installation =>
          sender.record # <<>> /\ iteration <= sender.record[1].iteration

Offered(id, iteration, n) ==
    /\ id \in Nat /\ iteration \in Nat /\ n \in Nat
    /\ n <= sender.sent + 1
    /\ Reached(id, iteration)
    /\ InOrder(id, iteration, n)

(* Messages are numbered as they are encrypted, distributions in between.   *)
OrderInv ==
    /\ sender.sent \in Nat
    /\ \A m \in SentMessages : m.n \in Nat /\ m.n <= sender.sent
    /\ \A k \in Distributions : Offered(k.id, k.iteration, k.n)
    /\ task.phase = "encrypted" =>
          Offered(task.distribution.id, task.distribution.iteration, task.message.n)
    /\ task.phase = "remembered" =>
          \A k \in task.distributions : Offered(k.id, k.iteration, k.n)

(* A state came of a distribution the device has processed, and is not past *)
(* the sender's.                                                            *)
Begun(d, s) ==
    /\ \E k \in Heard(d, s.id) :
          k.iteration <= s.iteration /\ \A n \in s.kept : k.iteration <= n
    /\ Reached(s.id, s.iteration)

\* Not read, and sent with or after all that was heard of its id.
Owed(d, m) == m \notin read[d] /\ \A k \in Heard(d, m.id) : k.n <= m.n

Stored(d) ==
    /\ Record(record[d])
    /\ \A i \in DOMAIN record[d] : GoodState(record[d][i]) /\ Begun(d, record[d][i])

ReadWasHeard(d) == \A m \in read[d] : \E k \in Heard(d, m.id) : k.n <= m.n

ReadIsGone(d) ==
    \A m \in read[d] : m.id \notin overfull[d] =>
        Holds(record[d], m.id) /\ Gone(StateFor(record[d], m.id), m.iteration)

HeardIsHeld(d) == \A k \in processed[d] : k.id \notin overfull[d] => Holds(record[d], k.id)

(* What a device is owed is not gone: the part of the invariant that takes  *)
(* the order of messages and distributions.                                 *)
OwedIsThere(d) ==
    \A m \in SentMessages :
        Heard(d, m.id) # {} /\ m.id \notin overfull[d] /\ Owed(d, m) =>
            ~Gone(StateFor(record[d], m.id), m.iteration)

Reads(d) == Stored(d) /\ ReadWasHeard(d) /\ ReadIsGone(d) /\ HeardIsHeld(d) /\ OwedIsThere(d)

ReadingInv ==
    /\ OrderInv
    /\ DOMAIN record = Devices /\ DOMAIN overfull = Devices
    /\ installation \in [Devices -> Nat]
    /\ \A d \in Devices : Reads(d)

\* The initial state.
LEMMA InitReading == ASSUME Init PROVE ReadingInv
<1>1. OrderInv
  BY DEF Init, Idle, OrderInv, SentMessages, Messages, Distributions
<1>2. ASSUME NEW d \in Devices PROVE Reads(d)
  <2>1. record[d] = <<>> /\ read[d] = {} /\ processed[d] = {}
    BY DEF Init
  <2>2. Record(<<>>) /\ DOMAIN <<>> = {}
    BY SenderKeysAssumption DEF Record
  <2>3. \A id : Heard(d, id) = {}
    BY <2>1 DEF Heard
  <2> QED BY <2>1, <2>2, <2>3
          DEF Reads, Stored, ReadWasHeard, ReadIsGone, HeardIsHeld, OwedIsThere
<1> QED BY <1>1, <1>2 DEF ReadingInv, Init

\* No two messages sent have an id and an iteration in common.
LEMMA SentApart ==
    ASSUME SendingInv
    PROVE  /\ \A m \in SentMessages : Passed(m)
           /\ \A m, n \in SentMessages : m.id = n.id /\ m.iteration = n.iteration => m = n
<1>1. \A m \in SentMessages : Passed(m)
  BY DEF SendingInv, TaskOK, SentMessages
<1>2. ASSUME NEW m \in SentMessages, NEW n \in SentMessages, m.id = n.id, m.iteration = n.iteration
      PROVE  m = n
  <2>1. CASE m \in Messages /\ n \in Messages
    BY <1>2, <2>1 DEF SendingInv, KeysUsedOnce
  <2>2. CASE m \in Messages /\ n \notin Messages
    <3>1. n = task.message /\ task.phase # "idle"
      BY <2>2 DEF SentMessages
    <3>2. m.iteration < n.iteration
      BY <1>2, <2>2, <3>1 DEF SendingInv, TaskOK
    <3> QED BY <1>1, <1>2, <3>2 DEF Passed
  <2>3. CASE m \notin Messages /\ n \in Messages
    <3>1. m = task.message /\ task.phase # "idle"
      BY <2>3 DEF SentMessages
    <3>2. n.iteration < m.iteration
      BY <1>2, <2>3, <3>1 DEF SendingInv, TaskOK
    <3> QED BY <1>1, <1>2, <3>2 DEF Passed
  <2> QED BY <2>1, <2>2, <2>3 DEF SentMessages
<1> QED BY <1>1, <1>2

-----------------------------------------------------------------------------
(* The sender's steps. *)

(* What a step of the sender may do: go on to a later key, or to a message  *)
(* under the present one that no iteration reached so far is past.          *)
MovesOn ==
    /\ \A id \in Nat, i \in Nat : Reached(id, i) => Reached(id, i)'
    /\ \A m \in SentMessages' \ SentMessages :
          m.iteration \in Nat /\ \A i \in Nat : Reached(m.id, i) => i <= m.iteration

\* A step that sends nothing new and leaves the sender.
LEMMA OffersStand ==
    ASSUME UNCHANGED sender, SentMessages' \subseteq SentMessages
    PROVE  MovesOn /\ \A id, i, n : Offered(id, i, n) => Offered(id, i, n)'
  BY DEF MovesOn, Offered, Reached, InOrder

LEMMA RememberMoves ==
    ASSUME SendingInv, OrderInv, Remember PROVE OrderInv' /\ MovesOn
<1>1. SentMessages' = SentMessages /\ Distributions' = Distributions /\ sender' = sender
  BY DEF Remember, SentMessages, Messages, Distributions
<1>2. MovesOn /\ \A id, i, n : Offered(id, i, n) => Offered(id, i, n)'
  BY <1>1, OffersStand
<1>3. ASSUME NEW k \in task'.distributions PROVE Offered(k.id, k.iteration, k.n)'
  <2>1. /\ k.id = task.distribution.id /\ k.iteration = task.distribution.iteration
        /\ k.n = task.message.n
    BY DEF Remember, DistributionTo
  <2> QED BY <1>2, <2>1 DEF OrderInv, Remember
<1> QED BY <1>1, <1>2, <1>3 DEF OrderInv, Remember

LEMMA RelayMoves ==
    ASSUME SendingInv, OrderInv, Relay PROVE OrderInv' /\ MovesOn
<1>1. SentMessages' = SentMessages /\ sender' = sender
  BY DEF Relay, SentMessages, Messages, Idle, SendingInv, TaskOK
<1>2. MovesOn /\ \A id, i, n : Offered(id, i, n) => Offered(id, i, n)'
  BY <1>1, OffersStand
<1>3. Distributions' \subseteq Distributions \union task.distributions
  BY DEF Relay, Distributions, SendingInv, TaskOK
<1> QED BY <1>1, <1>2, <1>3 DEF OrderInv, Relay, Idle

LEMMA FailMoves ==
    ASSUME SendingInv, OrderInv, Fail PROVE OrderInv' /\ MovesOn
<1>1. SentMessages' \subseteq SentMessages /\ Distributions' = Distributions /\ sender' = sender
  BY DEF Fail, SentMessages, Messages, Distributions, Idle
<1>2. MovesOn /\ \A id, i, n : Offered(id, i, n) => Offered(id, i, n)'
  BY <1>1, OffersStand
<1> QED BY <1>1, <1>2 DEF OrderInv, Fail, Idle

\* Nothing sent so far is at or past the iteration the sender has come to.
LEMMA PresentKey ==
    ASSUME SendingInv, OrderInv, sender.record # <<>>
    PROVE  /\ Offered(sender.installation, sender.record[1].iteration, sender.sent + 1)
           /\ Current(sender.record) = sender.record[1]
           /\ sender.record[1].id = sender.installation
<1> DEFINE s == sender.record[1]
           n == sender.sent + 1
<1>1. /\ sender.record = <<s>> /\ s \in States /\ s.id = sender.installation
      /\ sender.installation \in Nat
  BY DEF SendingInv, SenderOK
<1>2. s.iteration \in Nat /\ n \in Nat
  BY <1>1 DEF States, OrderInv
<1>3. Current(sender.record) = s
  BY <1>1 DEF Current
<1>4. ASSUME NEW m \in SentMessages, m.id = sender.installation
      PROVE  ~(n <= m.n) /\ ~(s.iteration <= m.iteration)
  <2>1. Passed(m)
    BY SentApart
  <2> QED BY <1>2, <1>4, <2>1 DEF Passed, OrderInv
<1>5. InOrder(sender.installation, s.iteration, n)
  BY <1>4 DEF InOrder
<1>6. Reached(sender.installation, s.iteration)
  BY <1>1, <1>2 DEF Reached
<1> QED BY <1>1, <1>2, <1>3, <1>5, <1>6 DEF Offered

LEMMA RedistributeMoves ==
    ASSUME SendingInv, OrderInv, NEW d \in Devices, Redistribute(d) PROVE OrderInv' /\ MovesOn
<1> DEFINE new == DistributionTo(d, Distribution(sender.record), sender.sent + 1)
<1>1. /\ new.id = sender.installation /\ new.iteration = sender.record[1].iteration
      /\ new.n = sender.sent + 1 /\ new.type = "skdm"
  BY PresentKey DEF Redistribute, DistributionTo, Distribution
<1>2. network' = network \union {new} /\ UNCHANGED <<sender, task>>
  BY DEF Redistribute
<1> HIDE DEF new
<1>3. SentMessages' = SentMessages
  BY <1>1, <1>2 DEF SentMessages, Messages
<1>4. MovesOn /\ \A id, i, n : Offered(id, i, n) => Offered(id, i, n)'
  BY <1>2, <1>3, OffersStand
<1>5. Offered(new.id, new.iteration, new.n)
  BY <1>1, PresentKey DEF Redistribute
<1>6. Distributions' = Distributions \union {new}
  BY <1>1, <1>2 DEF Distributions
<1> QED BY <1>2, <1>3, <1>4, <1>5, <1>6 DEF OrderInv

LEMMA ReinstallSenderMoves ==
    ASSUME SendingInv, OrderInv, ReinstallSender PROVE OrderInv' /\ MovesOn
<1>1. sender' = Installed(sender, <<>>, sender.installation + 1) /\ task' = Idle /\ network' = network
  BY Zenon DEF ReinstallSender, Installed
<1>2. /\ sender = Sender(sender.record, sender.installation, sender.sent)
      /\ sender.installation \in Nat
  BY DEF SendingInv, SenderOK
<1>3. sender'.installation = sender.installation + 1 /\ sender'.sent = sender.sent
  <2>1. sender' = Sender(<<>>, sender.installation + 1, sender.sent)
    BY <1>1, <1>2, SenderWith
  <2> QED BY <2>1 DEF Sender
<1>4. SentMessages' \subseteq SentMessages /\ Distributions' = Distributions /\ task'.phase = "idle"
  BY <1>1 DEF SentMessages, Messages, Distributions, Idle
<1>5. \A id \in Nat, i \in Nat : Reached(id, i) => Reached(id, i)'
  BY <1>2, <1>3 DEF Reached
<1>6. \A id, i, n : Offered(id, i, n) => Offered(id, i, n)'
  BY <1>3, <1>4, <1>5 DEF Offered, InOrder
<1>7. MovesOn
  BY <1>4, <1>5 DEF MovesOn
<1> QED BY <1>3, <1>4, <1>6, <1>7 DEF OrderInv

(* Encryption goes on to the iteration after the message's, which is not    *)
(* before any iteration the id was distributed at.                          *)
LEMMA EncryptMoves ==
    ASSUME SendingInv, OrderInv, NEW participants \in SUBSET Devices, Encrypt(participants)
    PROVE  OrderInv' /\ MovesOn
<1> DEFINE r == Created(sender.record, sender.installation)
           s == r[1]
           t == Taken(s, EncryptIteration(s))
           n == sender.sent + 1
           new == task'.message
<1>1. r = <<s>> /\ s \in States /\ s.id = sender.installation /\ sender.installation \in Nat
  BY DEF Created, SendingInv, SenderOK, NewState, States
<1>2. sender.record # <<>> => s = sender.record[1]
  BY DEF Created
<1>3. Current(r) = s /\ n \in Nat
  BY <1>1 DEF Current, OrderInv
<1>4. /\ sender' = Sent(sender, Encrypted(r), n) /\ task.phase = "idle"
      /\ task' = [phase |-> "encrypted", participants |-> participants,
                  distribution |-> Distribution(r),
                  message |-> [type |-> "skmsg", n |-> n, id |-> Current(r).id,
                               iteration |-> EncryptIteration(Current(r))]]
      /\ network' = network
  BY Zenon DEF Encrypt, r, n, Sent, Idle
<1> HIDE DEF r, s, n
<1>5. /\ Encrypted(r) = <<t>> /\ t.iteration = EncryptIteration(s) + 1
      /\ EncryptIteration(s) \in Nat /\ s.iteration <= EncryptIteration(s)
  BY <1>1, EncryptedSingle
<1>6. s.iteration \in Nat /\ t.iteration \in Nat /\ s.iteration <= t.iteration
  BY <1>1, <1>5 DEF States
<1>7. /\ task'.phase = "encrypted"
      /\ new.n = n /\ new.id = sender.installation /\ new.iteration = EncryptIteration(s)
      /\ task'.distribution.id = sender.installation /\ task'.distribution.iteration = s.iteration
  BY <1>1, <1>3, <1>4 DEF Distribution
<1> HIDE DEF t, new
<1>8. sender'.record = <<t>> /\ sender'.installation = sender.installation /\ sender'.sent = n
  <2>1. sender = Sender(sender.record, sender.installation, sender.sent)
    BY DEF SendingInv, SenderOK
  <2>2. sender' = Sender(<<t>>, sender.installation, n)
    BY <1>4, <1>5, <2>1, SenderWith
  <2> QED BY <2>2 DEF Sender
<1>9. SentMessages' = SentMessages \union {new} /\ Distributions' = Distributions
  BY <1>4, <1>7 DEF SentMessages, Messages, Distributions, new
<1>10. sender'.record # <<>> /\ sender'.record[1].iteration = t.iteration
  BY <1>8
<1>11. \A id \in Nat, i \in Nat : Reached(id, i) => Reached(id, i)'
  BY <1>1, <1>2, <1>6, <1>8, <1>10 DEF Reached
<1>12. new.iteration \in Nat /\ \A i \in Nat : Reached(new.id, i) => i <= new.iteration
  BY <1>1, <1>2, <1>5, <1>6, <1>7 DEF Reached
<1>13. MovesOn
  BY <1>9, <1>11, <1>12 DEF MovesOn
<1>14. ASSUME NEW id, NEW i, NEW m, Offered(id, i, m) PROVE Offered(id, i, m)'
  <2>1. /\ id \in Nat /\ i \in Nat /\ m \in Nat /\ m <= n
        /\ Reached(id, i) /\ InOrder(id, i, m)
    BY <1>14 DEF Offered, n
  <2>2. new.id = id => (m <= new.n <=> i <= new.iteration)
    BY <1>7, <1>12, <2>1
  <2>3. InOrder(id, i, m)'
    BY <1>9, <2>1, <2>2 DEF InOrder
  <2>4. m <= sender'.sent + 1
    BY <1>3, <1>8, <2>1
  <2> QED BY <1>11, <2>1, <2>3, <2>4 DEF Offered
<1>15. Offered(task.distribution.id, task.distribution.iteration, task.message.n)'
  <2>1. ASSUME NEW m \in SentMessages, m.id = sender.installation
        PROVE  ~(n <= m.n) /\ ~(s.iteration <= m.iteration)
    <3>1. Passed(m)
      BY SentApart
    <3>2. m.n \in Nat /\ m.n <= sender.sent /\ sender.sent \in Nat
      BY DEF OrderInv
    <3>3. ~(n <= m.n)
      BY <3>2 DEF n
    <3> QED BY <1>2, <1>6, <2>1, <3>1, <3>3 DEF Passed
  <2>2. n <= new.n /\ s.iteration <= new.iteration
    BY <1>3, <1>5, <1>7
  <2>3. PICK id, i, m : id = sender.installation /\ i = s.iteration /\ m = n
    OBVIOUS
  <2>4. InOrder(id, i, m)'
    BY <1>9, <2>1, <2>2, <2>3 DEF InOrder
  <2>5. Reached(id, i)'
    BY <1>1, <1>6, <1>8, <1>10, <2>3 DEF Reached
  <2>6. m <= sender'.sent + 1
    BY <1>3, <1>8, <2>3
  <2>7. Offered(id, i, m)'
    BY <1>1, <1>3, <1>6, <2>3, <2>4, <2>5, <2>6 DEF Offered
  <2>8. task'.distribution.id = id /\ task'.distribution.iteration = i /\ task'.message.n = m
    BY <1>7, <2>3 DEF new
  <2> QED BY <2>7, <2>8
<1>16. \A m \in SentMessages' : m.n \in Nat /\ m.n <= n
  BY <1>3, <1>7, <1>9 DEF OrderInv, n
<1> QED BY <1>3, <1>7, <1>8, <1>9, <1>13, <1>14, <1>15, <1>16 DEF OrderInv

-----------------------------------------------------------------------------
(* The devices' steps. *)

(* A step of the sender leaves what the devices read: a new message is at   *)
(* or past every state of its id.                                           *)
LEMMA ReadsOn ==
    ASSUME NEW d, Reads(d), MovesOn, UNCHANGED <<record, processed, read, overfull>>,
           \A k \in processed[d] : k \in Distributions
    PROVE  Reads(d)'
<1>1. \A id : Heard(d, id)' = Heard(d, id)
  BY DEF Heard
<1>2. ASSUME NEW s \in States, Begun(d, s) PROVE Begun(d, s)'
  <2>1. Reached(s.id, s.iteration)'
    BY <1>2 DEF Begun, MovesOn, States
  <2> QED BY <1>1, <1>2, <2>1 DEF Begun
<1>3. Stored(d)'
  BY <1>2 DEF Reads, Stored, GoodState
<1>4. ReadWasHeard(d)' /\ ReadIsGone(d)' /\ HeardIsHeld(d)'
  BY <1>1 DEF Reads, ReadWasHeard, ReadIsGone, HeardIsHeld
<1>5. ASSUME NEW m \in SentMessages', m \notin SentMessages,
             Heard(d, m.id) # {}, m.id \notin overfull[d]
      PROVE  ~Gone(StateFor(record[d], m.id), m.iteration)
  <2>1. Holds(record[d], m.id)
    BY <1>5 DEF Reads, HeardIsHeld, Heard
  <2> DEFINE s == StateFor(record[d], m.id)
             i == FirstPosition(record[d], m.id)
  <2>2. i \in DOMAIN record[d] /\ s \in States /\ s.id = m.id /\ s = record[d][i]
    BY <2>1, FirstFound DEF Reads, Stored, Record, StateFor
  <2>3. Begun(d, s)
    BY <2>2 DEF Reads, Stored
  <2> HIDE DEF s, i
  <2>4. s.iteration \in Nat /\ Reached(m.id, s.iteration)
    BY <2>2, <2>3 DEF Begun, States
  <2>5. m.iteration \in Nat /\ s.iteration <= m.iteration
    BY <1>5, <2>4 DEF MovesOn
  <2>6. ~Gone(s, m.iteration)
    BY <2>4, <2>5 DEF Gone
  <2> QED BY <2>6 DEF s
<1>6. OwedIsThere(d)'
  BY <1>1, <1>5 DEF Reads, OwedIsThere, Owed
<1> QED BY <1>3, <1>4, <1>6 DEF Reads

\* A device's step leaves the sender and what it sent.
LEMMA SentStay ==
    ASSUME UNCHANGED <<sender, task, network>>
    PROVE  /\ SentMessages' = SentMessages /\ Distributions' = Distributions
           /\ Messages' = Messages
           /\ OrderInv => OrderInv'
           /\ \A id, i : Reached(id, i) => Reached(id, i)'
<1>1. SentMessages' = SentMessages /\ Distributions' = Distributions /\ Messages' = Messages
  BY DEF SentMessages, Messages, Distributions
<1>2. \A id, i, n : Offered(id, i, n) => Offered(id, i, n)'
  BY <1>1, OffersStand
<1>3. \A id, i : Reached(id, i) => Reached(id, i)'
  BY DEF Reached
<1> QED BY <1>1, <1>2, <1>3 DEF OrderInv

\* A step of another device.
LEMMA ReadsStay ==
    ASSUME NEW d, Reads(d), UNCHANGED <<sender, task, network>>,
           record'[d] = record[d], processed'[d] = processed[d], read'[d] = read[d],
           overfull'[d] = overfull[d]
    PROVE  Reads(d)'
<1>1. \A id : Heard(d, id)' = Heard(d, id)
  BY DEF Heard
<1>2. \A s : Begun(d, s) => Begun(d, s)'
  BY <1>1, SentStay DEF Begun
<1>3. Stored(d)'
  BY <1>2 DEF Reads, Stored
<1>4. ReadWasHeard(d)' /\ ReadIsGone(d)' /\ HeardIsHeld(d)'
  BY <1>1 DEF Reads, ReadWasHeard, ReadIsGone, HeardIsHeld
<1>5. OwedIsThere(d)'
  BY <1>1, SentStay DEF Reads, OwedIsThere, Owed
<1> QED BY <1>3, <1>4, <1>5 DEF Reads

\* The state found of an id that a device holds came of what it heard.
LEMMA FoundBegun ==
    ASSUME NEW d, Stored(d), NEW id, Holds(record[d], id)
    PROVE  /\ GoodState(StateFor(record[d], id)) /\ Begun(d, StateFor(record[d], id))
           /\ StateFor(record[d], id).id = id
<1> DEFINE i == FirstPosition(record[d], id)
           s == StateFor(record[d], id)
<1>1. i \in DOMAIN record[d] /\ s.id = id /\ s = record[d][i]
  BY FirstFound DEF Stored, Record, StateFor
<1> QED BY <1>1 DEF Stored

(* A distribution opens a state of its id, for the messages sent with or    *)
(* after it, when the device has none.                                      *)
LEMMA DistributionReads ==
    ASSUME NEW d \in Devices, TypeOK, SendingInv, ReadingInv, ReceiveDistribution(d)
    PROVE  Reads(d)'
<1>1. PICK k \in Distributions :
         /\ record' = [record EXCEPT ![d] = Processed(record[d], k)]
         /\ processed' = [processed EXCEPT ![d] = processed[d] \union {k}]
         /\ overfull' = [overfull EXCEPT ![d] = overfull[d] \union Evicted(record[d])]
         /\ UNCHANGED <<sender, task, network, read>>
  BY DEF ReceiveDistribution
<1> PICK r, q, s : r = record[d] /\ q = Processed(r, k) /\ s = NewState(k.id, k.iteration)
  OBVIOUS
<1>2. /\ record'[d] = q /\ read'[d] = read[d] /\ record[d] = r
      /\ processed'[d] = processed[d] \union {k}
      /\ overfull'[d] = overfull[d] \union Evicted(r)
  BY <1>1 DEF ReadingInv, TypeOK
<1>3. Offered(k.id, k.iteration, k.n)
  BY DEF ReadingInv, OrderInv
<1>4. Reads(d) /\ Stored(d) /\ Record(r)
  BY DEF ReadingInv, Reads, Stored
<1>5. /\ Record(q) /\ s \in States
      /\ \A i \in DOMAIN q : q[i] = s \/ \E j \in DOMAIN r : q[i] = r[j]
      /\ \A id : id \notin Evicted(r) /\ Holds(r, id) => SameFor(q, r, id)
      /\ Holds(q, k.id)
      /\ k.id \notin Evicted(r) /\ ~Holds(r, k.id) => StateFor(q, k.id) = s
  BY <1>3, <1>4, ProcessedRecord DEF Offered
<1>6. /\ GoodState(s) /\ s.id = k.id /\ s.iteration = k.iteration /\ s.kept = {}
      /\ k.iteration \in Nat
  BY <1>3, NewIsGood DEF Offered
<1>7. SentMessages' = SentMessages /\ \A id, i : Reached(id, i) => Reached(id, i)'
  BY <1>1, SentStay
<1>8. \A id : Heard(d, id)' = Heard(d, id) \union (IF k.id = id THEN {k} ELSE {})
  BY <1>2 DEF Heard
<1>9. Stored(d)'
  <2>1. Begun(d, s)'
    <3>1. k \in Heard(d, s.id)'
      BY <1>6, <1>8
    <3>2. Reached(s.id, s.iteration)'
      BY <1>3, <1>6, <1>7 DEF Offered
    <3> QED BY <1>6, <3>1, <3>2 DEF Begun
  <2>2. \A v : Begun(d, v) => Begun(d, v)'
    BY <1>7, <1>8 DEF Begun
  <2>3. \A i \in DOMAIN r : GoodState(r[i]) /\ Begun(d, r[i])'
    BY <1>2, <1>4, <2>2 DEF Stored
  <2>4. \A i \in DOMAIN q : GoodState(q[i]) /\ Begun(d, q[i])'
    BY <1>5, <1>6, <2>1, <2>3
  <2> QED BY <1>2, <1>5, <2>4 DEF Stored
<1>10. ReadWasHeard(d)'
  BY <1>2, <1>4, <1>8 DEF Reads, ReadWasHeard
<1>11. ReadIsGone(d)'
  <2> SUFFICES ASSUME NEW m \in read[d], m.id \notin overfull[d], m.id \notin Evicted(r)
               PROVE  Holds(q, m.id) /\ Gone(StateFor(q, m.id), m.iteration)
    BY <1>2 DEF ReadIsGone
  <2>1. Holds(r, m.id) /\ Gone(StateFor(r, m.id), m.iteration)
    BY <1>2, <1>4 DEF Reads, ReadIsGone
  <2> QED BY <1>5, <2>1 DEF SameFor
<1>12. HeardIsHeld(d)'
  <2> SUFFICES ASSUME NEW h \in processed[d] \union {k}, h.id \notin overfull[d],
                      h.id \notin Evicted(r)
               PROVE  Holds(q, h.id)
    BY <1>2 DEF HeardIsHeld
  <2>1. h # k => Holds(r, h.id)
    BY <1>2, <1>4 DEF Reads, HeardIsHeld
  <2> QED BY <1>5, <2>1 DEF SameFor
<1>13. OwedIsThere(d)'
  <2> SUFFICES ASSUME NEW m \in SentMessages, Heard(d, m.id)' # {}, m.id \notin overfull[d],
                      m.id \notin Evicted(r), m \notin read[d],
                      \A h \in Heard(d, m.id)' : h.n <= m.n
               PROVE  ~Gone(StateFor(q, m.id), m.iteration)
    BY <1>2, <1>7 DEF OwedIsThere, Owed
  <2>1. CASE Heard(d, m.id) # {}
    <3>1. Owed(d, m) /\ Holds(r, m.id)
      BY <1>2, <1>4, <1>8, <2>1 DEF Owed, Reads, HeardIsHeld, Heard
    <3>2. ~Gone(StateFor(r, m.id), m.iteration)
      BY <1>2, <1>4, <2>1, <3>1 DEF Reads, OwedIsThere
    <3> QED BY <1>5, <3>1, <3>2 DEF SameFor
  <2>2. CASE Heard(d, m.id) = {}
    <3>1. m.id = k.id /\ k.n <= m.n
      BY <1>8, <2>2
    <3>2. ~Holds(r, m.id)
      <4>1. ~Holds(record[d], m.id)
        BY <1>4, <2>2, FoundBegun DEF Begun
      <4> QED BY <1>2, <4>1
    <3>3. StateFor(q, m.id) = s
      BY <1>5, <3>1, <3>2
    <3>4. k.iteration <= m.iteration
      BY <1>3, <3>1 DEF Offered, InOrder
    <3>5. m.iteration \in Nat
      BY SentApart DEF Passed
    <3> QED BY <1>6, <3>3, <3>4, <3>5 DEF Gone
  <2> QED BY <2>1, <2>2
<1> QED BY <1>9, <1>10, <1>11, <1>12, <1>13 DEF Reads

(* A message that opens is read once; whatever else of its id was there     *)
(* stays, unless more keys are skipped than are kept.                       *)
LEMMA MessageReads ==
    ASSUME NEW d \in Devices, TypeOK, SendingInv, ReadingInv, ReceiveMessage(d)
    PROVE  Reads(d)'
<1>1. PICK n \in Messages :
         /\ Opens(record[d], n)
         /\ record' = [record EXCEPT ![d] = Decrypted(record[d], n)]
         /\ read' = [read EXCEPT ![d] = read[d] \union {n}]
         /\ overfull' = [overfull EXCEPT ![d] = overfull[d] \union
                (IF Overflows(StateFor(record[d], n.id), n.iteration) THEN {n.id} ELSE {})]
         /\ UNCHANGED <<sender, task, network, processed>>
  BY DEF ReceiveMessage
<1> PICK r, q, s, t : r = record[d] /\ q = Decrypted(r, n) /\ s = StateFor(r, n.id)
                      /\ t = Taken(s, n.iteration)
  OBVIOUS
<1>2. /\ record'[d] = q /\ record[d] = r
      /\ read'[d] = read[d] \union {n}
      /\ processed'[d] = processed[d]
      /\ overfull'[d] = overfull[d] \union (IF Overflows(s, n.iteration) THEN {n.id} ELSE {})
  BY <1>1 DEF ReadingInv, TypeOK
<1>3. Reads(d) /\ Stored(d) /\ Record(r)
  BY DEF ReadingInv, Reads, Stored
<1>4. Holds(r, n.id) /\ HasKey(s, n.iteration)
  BY <1>1, <1>2 DEF Opens, Holds
<1>5. n.id \in Nat /\ n.iteration \in Nat /\ n \in SentMessages /\ Reached(n.id, n.iteration + 1)
  <2>1. n \in SentMessages /\ Passed(n)
    BY SentApart DEF SentMessages
  <2>2. sender.record # <<>> => sender.record[1].iteration \in Nat
    BY DEF SendingInv, SenderOK, States
  <2> QED BY <2>1, <2>2 DEF Passed, Reached
<1>6. GoodState(s) /\ Begun(d, s) /\ s.id = n.id
  BY <1>2, <1>3, <1>4, FoundBegun
<1>7. /\ GoodState(t) /\ t.id = s.id /\ s.iteration <= t.iteration
      /\ t.iteration <= n.iteration + 1 \/ t.iteration = s.iteration
      /\ \A x \in t.kept : x \in s.kept \/ s.iteration <= x
      /\ Gone(t, n.iteration)
      /\ \A x \in Nat : Gone(s, x) => Gone(t, x)
      /\ ~Overflows(s, n.iteration) =>
             \A x \in Nat \ {n.iteration} : ~Gone(s, x) => ~Gone(t, x)
  BY <1>4, <1>5, <1>6, TakenKeys
<1>8. /\ Record(q)
      /\ \A i \in DOMAIN q : q[i] = t \/ \E j \in DOMAIN r : q[i] = r[j]
      /\ \A id : id # n.id => SameFor(q, r, id)
      /\ Holds(q, n.id) /\ StateFor(q, n.id) = t
  <2>1. /\ Taken(StateFor(r, n.id), n.iteration) \in States
        /\ Taken(StateFor(r, n.id), n.iteration).id = n.id
    BY <1>6, <1>7 DEF GoodState
  <2> QED BY <1>3, <1>4, <2>1, DecryptedRecord
<1>9. SentMessages' = SentMessages /\ \A id, i : Reached(id, i) => Reached(id, i)'
  BY <1>1, SentStay
<1>10. \A id : Heard(d, id)' = Heard(d, id)
  BY <1>2 DEF Heard
<1>11. PICK k \in Heard(d, n.id) : k.iteration <= s.iteration /\ \A x \in s.kept : k.iteration <= x
  BY <1>6 DEF Begun
<1>12. Offered(k.id, k.iteration, k.n) /\ k.id = n.id
  BY DEF Heard, TypeOK, ReadingInv, OrderInv
<1>13. k.iteration \in Nat /\ s.iteration \in Nat /\ t.iteration \in Nat
       /\ (\A x \in t.kept : x \in Nat)
  BY <1>6, <1>7, <1>12 DEF Offered, GoodState, States
<1>14. Begun(d, t)'
  <2>1. k.iteration <= t.iteration /\ \A x \in t.kept : k.iteration <= x
    BY <1>7, <1>11, <1>13
  <2>2. Reached(t.id, t.iteration)
    <3>1. Reached(n.id, n.iteration + 1) /\ Reached(n.id, s.iteration)
      BY <1>5, <1>6 DEF Begun
    <3>2. sender.record # <<>> => sender.record[1].iteration \in Nat
      BY DEF SendingInv, SenderOK, States
    <3> QED BY <1>5, <1>6, <1>7, <1>13, <3>1, <3>2 DEF Reached
  <2> QED BY <1>6, <1>7, <1>9, <1>10, <1>11, <2>1, <2>2 DEF Begun
<1>15. Stored(d)'
  <2>1. \A v : Begun(d, v) => Begun(d, v)'
    BY <1>9, <1>10 DEF Begun
  <2>2. \A i \in DOMAIN r : GoodState(r[i]) /\ Begun(d, r[i])'
    BY <1>2, <1>3, <2>1 DEF Stored
  <2>3. \A i \in DOMAIN q : GoodState(q[i]) /\ Begun(d, q[i])'
    BY <1>7, <1>8, <1>14, <2>2
  <2> QED BY <1>2, <1>8, <2>3 DEF Stored
<1>16. ReadWasHeard(d)'
  <2>1. k.iteration <= n.iteration
    BY <1>4, <1>5, <1>11, <1>13 DEF HasKey
  <2>2. k.n <= n.n
    BY <1>5, <1>12, <2>1 DEF Offered, InOrder
  <2> QED BY <1>2, <1>3, <1>10, <2>2 DEF Reads, ReadWasHeard
<1>17. ReadIsGone(d)'
  <2> SUFFICES ASSUME NEW m \in read[d] \union {n}, m.id \notin overfull[d]
               PROVE  Holds(q, m.id) /\ Gone(StateFor(q, m.id), m.iteration)
    BY <1>2 DEF ReadIsGone
  <2>1. CASE m = n
    BY <1>7, <1>8, <2>1
  <2>2. CASE m # n
    <3>1. m \in read[d] /\ m.iteration \in Nat
      BY <2>2, SentApart DEF TypeOK, SentMessages, Passed
    <3>2. Holds(r, m.id) /\ Gone(StateFor(r, m.id), m.iteration)
      BY <1>2, <1>3, <3>1 DEF Reads, ReadIsGone
    <3>3. CASE m.id = n.id
      BY <1>7, <1>8, <3>1, <3>2, <3>3
    <3>4. CASE m.id # n.id
      BY <1>8, <3>2, <3>4 DEF SameFor
    <3> QED BY <3>3, <3>4
  <2> QED BY <2>1, <2>2
<1>18. HeardIsHeld(d)'
  BY <1>2, <1>3, <1>8 DEF Reads, HeardIsHeld, SameFor
<1>19. OwedIsThere(d)'
  <2> SUFFICES ASSUME NEW m \in SentMessages, Heard(d, m.id) # {}, m.id \notin overfull[d],
                      m.id = n.id => ~Overflows(s, n.iteration),
                      m \notin read[d], m # n, \A h \in Heard(d, m.id) : h.n <= m.n
               PROVE  ~Gone(StateFor(q, m.id), m.iteration)
    BY <1>2, <1>9, <1>10 DEF OwedIsThere, Owed
  <2>1. Owed(d, m) /\ Holds(r, m.id)
    BY <1>2, <1>3 DEF Owed, Reads, HeardIsHeld, Heard
  <2>2. ~Gone(StateFor(r, m.id), m.iteration)
    BY <1>2, <1>3, <2>1 DEF Reads, OwedIsThere
  <2>3. CASE m.id = n.id
    <3>1. m.iteration # n.iteration /\ m.iteration \in Nat
      BY <1>5, <2>3, SentApart DEF Passed
    <3> QED BY <1>7, <1>8, <2>2, <2>3, <3>1
  <2>4. CASE m.id # n.id
    BY <1>8, <2>1, <2>2, <2>4 DEF SameFor
  <2> QED BY <2>3, <2>4
<1> QED BY <1>15, <1>16, <1>17, <1>18, <1>19 DEF Reads

\* A new installation has read and heard nothing.
LEMMA ReinstallReads ==
    ASSUME NEW d \in Devices, TypeOK, ReadingInv, Reinstall(d) PROVE Reads(d)'
<1>1. /\ record'[d] = <<>> /\ processed'[d] = {} /\ read'[d] = {}
  BY DEF Reinstall, ReadingInv, TypeOK
<1>2. \A id : Heard(d, id)' = {}
  BY <1>1 DEF Heard
<1>3. Record(<<>>) /\ DOMAIN <<>> = {}
  BY SenderKeysAssumption DEF Record
<1> QED BY <1>1, <1>2, <1>3
        DEF Reads, Stored, ReadWasHeard, ReadIsGone, HeardIsHeld, OwedIsThere

\* The invariant is inductive.
LEMMA NextReading ==
    ASSUME TypeOK, SendingInv, ReadingInv, [Next]_vars
    PROVE  ReadingInv'
<1>1. ASSUME OrderInv' /\ MovesOn, UNCHANGED <<record, installation, processed, read, overfull>>
      PROVE  ReadingInv'
  <2>1. ASSUME NEW d \in Devices PROVE Reads(d)'
    <3>1. Reads(d) /\ \A k \in processed[d] : k \in Distributions
      BY DEF ReadingInv, TypeOK
    <3> QED BY <1>1, <3>1, ReadsOn
  <2> QED BY <1>1, <2>1 DEF ReadingInv
<1>2. ASSUME NEW d \in Devices, ReceiveDistribution(d) \/ ReceiveMessage(d) \/ Reinstall(d)
      PROVE  ReadingInv'
  <2>1. UNCHANGED <<sender, task, network>>
    BY <1>2 DEF ReceiveDistribution, ReceiveMessage, Reinstall
  <2>2. DOMAIN record' = Devices /\ DOMAIN overfull' = Devices /\ installation' \in [Devices -> Nat]
    BY <1>2 DEF ReceiveDistribution, ReceiveMessage, Reinstall, ReadingInv
  <2>3. ASSUME NEW e \in Devices, e # d PROVE Reads(e)'
    <3>1. /\ record'[e] = record[e] /\ processed'[e] = processed[e] /\ read'[e] = read[e]
          /\ overfull'[e] = overfull[e]
      BY <1>2, <2>3 DEF ReceiveDistribution, ReceiveMessage, Reinstall, ReadingInv, TypeOK
    <3>2. Reads(e)
      BY DEF ReadingInv
    <3> QED BY <2>1, <3>1, <3>2, ReadsStay
  <2>4. Reads(d)'
    BY <1>2, DistributionReads, MessageReads, ReinstallReads
  <2>5. OrderInv'
    BY <2>1, SentStay DEF ReadingInv
  <2> QED BY <2>2, <2>3, <2>4, <2>5 DEF ReadingInv
<1>3. ASSUME NEW participants \in SUBSET Devices, Encrypt(participants) PROVE ReadingInv'
  BY <1>1, <1>3, EncryptMoves DEF ReadingInv, Encrypt
<1>4. (Remember \/ Relay \/ Fail \/ ReinstallSender) => ReadingInv'
  BY <1>1, RememberMoves, RelayMoves, FailMoves, ReinstallSenderMoves
     DEF ReadingInv, Remember, Relay, Fail, ReinstallSender
<1>5. ASSUME NEW d \in Devices, Redistribute(d) PROVE ReadingInv'
  BY <1>1, <1>5, RedistributeMoves DEF ReadingInv, Redistribute
<1>6. CASE UNCHANGED vars
  <2>1. UNCHANGED <<sender, task, network, record, installation, processed, read, overfull>>
    BY <1>6 DEF vars
  <2> QED BY <1>1, <2>1, SentStay, OffersStand DEF ReadingInv
<1> QED BY <1>2, <1>3, <1>4, <1>5, <1>6 DEF Next

-----------------------------------------------------------------------------
(* What the devices read. *)

Inv == TypeOK /\ SendingInv /\ ReadingInv

\* Everything known of the state, always.
LEMMA AlwaysInv == Spec => []Inv
<1>1. Init => Inv
  <2>1. ASSUME Init PROVE TypeOK
    BY <2>1, GroupAssumption DEF Init, TypeOK, Idle, Distributions, Messages
  <2> QED BY <2>1, InitSending, InitReading DEF Inv
<1>2. SendingInv /\ ReadingInv /\ [Next]_vars /\ TypeOK => ReadingInv' /\ SendingInv'
  BY NextSending, NextReading
<1> QED BY <1>1, <1>2, TypeCorrect, PTL DEF Inv, Spec

(* However distributions and messages are lost, repeated and reordered, no  *)
(* device reads a message from before the first distribution it processed.  *)
THEOREM NothingBefore == Spec => []NoHistory
<1>1. Inv => NoHistory
  BY DEF Inv, ReadingInv, Reads, ReadWasHeard, NoHistory
<1> QED BY <1>1, AlwaysInv, PTL

(* A message opens once: its key is gone with the first reading, and no     *)
(* later distribution of its id puts it back in reach.                      *)
THEOREM OpensOnce == Spec => []ReadOnce
<1>1. ASSUME Inv PROVE ReadOnce
  <2> SUFFICES ASSUME NEW d \in Devices, NEW m \in read[d], m.id \notin overfull[d]
               PROVE  ~Opens(record[d], m)
    BY DEF ReadOnce
  <2> DEFINE s == StateFor(record[d], m.id)
  <2>1. Reads(d)
    BY <1>1 DEF Inv, ReadingInv
  <2>2. Holds(record[d], m.id) /\ Gone(s, m.iteration)
    BY <2>1 DEF Reads, ReadIsGone
  <2>3. GoodState(s)
    BY <2>1, <2>2, FoundBegun DEF Reads
  <2>4. m.iteration \in Nat
    BY <1>1, SentApart DEF Inv, TypeOK, SentMessages, Passed
  <2> HIDE DEF s
  <2>5. ~HasKey(s, m.iteration)
    BY <2>2, <2>3, <2>4 DEF Gone, HasKey, GoodState, States
  <2> QED BY <2>5 DEF Opens, s
<1> QED BY <1>1, AlwaysInv, PTL

(* Of the messages sent with or after the distributions it holds, a device  *)
(* opens those it has not read, but for those too far ahead, and unless it  *)
(* gave up a state or a key of their id.                                    *)
THEOREM StaysReadable == Spec => []Readable
<1>1. ASSUME Inv PROVE Readable
  <2> SUFFICES ASSUME NEW d \in Devices, NEW m \in Messages \ read[d],
                      Heard(d, m.id) # {}, m.id \notin overfull[d],
                      \A k \in Heard(d, m.id) : k.n <= m.n
               PROVE  \/ Opens(record[d], m)
                      \/ m.iteration - StateFor(record[d], m.id).iteration > MaxFuture
    BY DEF Readable
  <2> DEFINE s == StateFor(record[d], m.id)
  <2>1. Reads(d) /\ m \in SentMessages
    BY <1>1 DEF Inv, ReadingInv, SentMessages
  <2>2. Owed(d, m) /\ Holds(record[d], m.id)
    BY <2>1 DEF Owed, Reads, HeardIsHeld, Heard
  <2>3. ~Gone(s, m.iteration)
    BY <2>1, <2>2 DEF Reads, OwedIsThere
  <2>4. s.iteration \in Nat /\ m.iteration \in Nat /\ MaxFuture \in Nat
    <3>1. GoodState(s)
      BY <2>1, <2>2, FoundBegun DEF Reads
    <3>2. Passed(m)
      BY <1>1, <2>1, SentApart DEF Inv
    <3> QED BY <3>1, <3>2, SenderKeysAssumption DEF GoodState, States, Passed
  <2> HIDE DEF s
  <2>5. HasKey(s, m.iteration) \/ m.iteration - s.iteration > MaxFuture
    BY <2>3, <2>4 DEF Gone, HasKey
  <2> QED BY <2>2, <2>5 DEF Opens, Holds, s
<1> QED BY <1>1, AlwaysInv, PTL

\* What a record that finds the same of an id opens.
LEMMA OpensTheSame ==
    ASSUME NEW q, NEW r, NEW m, SameFor(q, r, m.id), Opens(r, m) PROVE Opens(q, m)
  BY DEF SameFor, Opens, Holds

(* A step of a device loses the key of a message it could open only by      *)
(* reading that message, for MaxKept newer keys, or with a state that made  *)
(* room for another.                                                        *)
LEMMA StepKeeps ==
    ASSUME Inv, [Next]_vars, NEW d \in Devices, NEW m \in Messages,
           Opens(record[d], m), m \notin read'[d], installation'[d] = installation[d]
    PROVE  \/ Opens(record'[d], m)
           \/ m.id \in Evicted(record[d])
           \/ Cardinality({k \in StateFor(record'[d], m.id).kept : k > m.iteration}) >= MaxKept
<1>1. Reads(d) /\ Record(record[d]) /\ DOMAIN record = Devices
  BY DEF Inv, ReadingInv, Reads, Stored
<1>2. m \in SentMessages /\ m.iteration \in Nat
  BY SentApart DEF Inv, SentMessages, Passed
<1>3. ASSUME record'[d] = record[d] PROVE Opens(record'[d], m)
  BY <1>3
<1>4. ASSUME ReceiveDistribution(d)
      PROVE  Opens(record'[d], m) \/ m.id \in Evicted(record[d])
  <2>1. PICK k \in Distributions : record' = [record EXCEPT ![d] = Processed(record[d], k)]
    BY <1>4 DEF ReceiveDistribution
  <2>2. k.id \in Nat /\ k.iteration \in Nat
    BY DEF Inv, ReadingInv, OrderInv, Offered
  <2>3. Holds(record[d], m.id)
    BY DEF Opens, Holds
  <2>4. m.id \in Evicted(record[d]) \/ SameFor(Processed(record[d], k), record[d], m.id)
    BY <1>1, <2>2, <2>3, ProcessedRecord
  <2>5. record'[d] = Processed(record[d], k)
    BY <1>1, <2>1
  <2> QED BY <2>4, <2>5, OpensTheSame
<1>5. ASSUME ReceiveMessage(d)
      PROVE  \/ Opens(record'[d], m)
             \/ Cardinality({k \in StateFor(record'[d], m.id).kept : k > m.iteration}) >= MaxKept
  <2>1. PICK n \in Messages :
           /\ Opens(record[d], n)
           /\ record' = [record EXCEPT ![d] = Decrypted(record[d], n)]
           /\ read' = [read EXCEPT ![d] = read[d] \union {n}]
    BY <1>5 DEF ReceiveMessage
  <2> DEFINE q == Decrypted(record[d], n)
             s == StateFor(record[d], n.id)
             t == Taken(s, n.iteration)
  <2>2. record'[d] = q /\ m # n
    <3>1. read'[d] = read[d] \union {n}
      BY <2>1 DEF Inv, TypeOK
    <3> QED BY <1>1, <2>1, <3>1
  <2>3. n.iteration \in Nat /\ n \in SentMessages
    BY SentApart DEF Inv, SentMessages, Passed
  <2>4. Holds(record[d], n.id) /\ HasKey(s, n.iteration)
    BY <2>1 DEF Opens, Holds
  <2>5. GoodState(s) /\ s.id = n.id
    BY <1>1, <2>4, FoundBegun DEF Reads
  <2>6. /\ GoodState(t) /\ t.id = s.id
        /\ \A x \in Nat \ {n.iteration} : HasKey(s, x) =>
              HasKey(t, x) \/ Cardinality(Above(t.kept, x)) >= MaxKept
    BY <2>3, <2>4, <2>5, TakenKeys
  <2>7. t \in States /\ t.id = n.id
    BY <2>5, <2>6 DEF GoodState
  <2>8. /\ \A id : id # n.id => SameFor(q, record[d], id)
        /\ Holds(q, n.id) /\ StateFor(q, n.id) = t
    BY <1>1, <2>4, <2>7, DecryptedRecord
  <2> HIDE DEF q, t, s
  <2>9. CASE m.id # n.id
    BY <2>2, <2>8, <2>9, OpensTheSame
  <2>10. CASE m.id = n.id
    <3>1. m.iteration # n.iteration
      BY <1>2, <2>2, <2>3, <2>10, SentApart DEF Inv
    <3>2. HasKey(s, m.iteration)
      BY <2>10 DEF Opens, s
    <3>3. HasKey(t, m.iteration) \/ Cardinality(Above(t.kept, m.iteration)) >= MaxKept
      BY <1>2, <2>6, <3>1, <3>2
    <3>4. StateFor(record'[d], m.id) = t /\ Holds(record'[d], m.id)
      BY <2>2, <2>8, <2>10
    <3> QED BY <3>3, <3>4 DEF Opens, Holds, Above
  <2> QED BY <2>9, <2>10
<1>6. ASSUME Reinstall(d) PROVE installation'[d] # installation[d]
  <2>1. installation \in [Devices -> Nat]
    BY DEF Inv, ReadingInv
  <2>2. installation'[d] = installation[d] + 1 /\ installation[d] \in Nat
    BY <1>6, <2>1 DEF Reinstall
  <2> QED BY <2>2
<1>7. ASSUME NEW e \in Devices, e # d,
             ReceiveDistribution(e) \/ ReceiveMessage(e) \/ Reinstall(e)
      PROVE  record'[d] = record[d]
  BY <1>1, <1>7 DEF ReceiveDistribution, ReceiveMessage, Reinstall
<1>8. ASSUME NEW participants, Encrypt(participants) PROVE record' = record
  BY <1>8 DEF Encrypt
<1>9. Remember \/ Relay \/ Fail \/ ReinstallSender \/ UNCHANGED vars => record' = record
  BY DEF Remember, Relay, Fail, ReinstallSender, vars
<1>10. \A e \in Devices : Redistribute(e) => record' = record
  BY DEF Redistribute
<1> QED BY <1>3, <1>4, <1>5, <1>6, <1>7, <1>8, <1>9, <1>10 DEF Next

(* A message that a device can open stays so until it is read: its key goes *)
(* only for MaxKept newer ones, its state only for MaxStates newer ones.    *)
THEOREM KeysAreKept == Spec => KeptForUnread
<1> DEFINE Kept ==
      \A d \in Devices : \A m \in Messages :
          Opens(record[d], m) /\ m \notin read'[d] /\ installation'[d] = installation[d] =>
              \/ Opens(record'[d], m)
              \/ m.id \in Evicted(record[d])
              \/ Cardinality({k \in StateFor(record'[d], m.id).kept : k > m.iteration}) >= MaxKept
<1>1. Inv /\ [Next]_vars => [Kept]_vars
  BY StepKeeps
<1>2. KeptForUnread <=> [][Kept]_vars
  BY DEF KeptForUnread
<1> QED BY <1>1, <1>2, AlwaysInv, PTL DEF Spec
=============================================================================
