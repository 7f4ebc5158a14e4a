--------------------------- MODULE GroupSessions ---------------------------
(***************************************************************************)
(* One sender of a group and the devices that read it: relay_group_message  *)
(* of message/sender.ex, the group callbacks of signal/adapter/signal.ex,   *)
(* and the receiving half of message/receiver.ex.  Encryption under the     *)
(* sender key, the note that a device has it (sender-key-memory) and the    *)
(* relay of the stanza are steps of one task, which may end between any two *)
(* of them.  The network loses, repeats and reorders.  A distribution goes  *)
(* to its device under their pairwise session, which opens it once          *)
(* (SignalSessions) and only in the installation it was meant for.          *)
(***************************************************************************)
EXTENDS SenderKeys

CONSTANTS
    Devices,
    MaxSent,            \* bound: messages encrypted
    MaxInstallations,   \* bound: installations of the sender and of each device
    MaxRedistributed    \* bound: distributions other clients send unasked

ASSUME GroupAssumption ==
    {MaxSent, MaxRedistributed} \subseteq Nat /\ MaxInstallations \in Nat \ {0}

VARIABLES
    sender,         \* [record, installation] of the sender
    known,          \* devices that sender-key-memory holds
    task,           \* the send that is running
    network,        \* distributions and messages relayed
    record,         \* record[d]: d's record for this sender
    installation,   \* installation[d]
    processed,      \* processed[d]: distributions d has processed
    read,           \* read[d]: messages d has decrypted, in this installation
    unsent,         \* devices whose distribution was in a stanza that was not relayed
    overfull,       \* overfull[d]: ids of which d has given up a state or a key for newer ones
    redistributed   \* how many distributions were sent unasked

vars == <<sender, known, task, network, record, installation, processed, read, unsent,
          overfull, redistributed>>

Idle == [phase |-> "idle"]

Messages == {m \in network : m.type = "skmsg"}
Distributions == {k \in network : k.type = "skdm"}

Init ==
    /\ sender = [record |-> <<>>, installation |-> 1, sent |-> 0]
    /\ known = {}
    /\ task = Idle
    /\ network = {}
    /\ record = [d \in Devices |-> <<>>]
    /\ installation = [d \in Devices |-> 1]
    /\ processed = [d \in Devices |-> {}]
    /\ read = [d \in Devices |-> {}]
    /\ unsent = {}
    /\ overfull = [d \in Devices |-> {}]
    /\ redistributed = 0

-----------------------------------------------------------------------------
(* The send task. *)

\* encrypt_group_message/3, one transaction: the distribution is that of the
\* state before the message.  The sender's key id is its installation.
Encrypt(participants) ==
    LET r == Created(sender.record, sender.installation)
        n == sender.sent + 1
    IN  /\ task = Idle
        /\ n <= MaxSent
        /\ sender' = [sender EXCEPT !.record = Encrypted(r), !.sent = n]
        /\ task' = [phase |-> "encrypted", participants |-> participants,
                    distribution |-> Distribution(r),
                    message |-> [type |-> "skmsg", n |-> n, id |-> Current(r).id,
                                 iteration |-> EncryptIteration(Current(r))]]
        /\ UNCHANGED <<known, network, record, installation, processed, read, unsent, overfull,
                       redistributed>>

DistributionTo(d, distribution, n) ==
    [type |-> "skdm", n |-> n, id |-> distribution.id, iteration |-> distribution.iteration,
     to |-> d, installation |-> installation[d]]

NewDevicesKnown(participants) == participants \intersect known

NewDevices(participants) == participants \ known

\* The distribution is encrypted for the devices the memory does not hold, and
\* the memory written.
Remember ==
    /\ task.phase = "encrypted"
    /\ known' = known \union task.participants
    /\ task' = [phase |-> "remembered", message |-> task.message,
                distributions |-> {DistributionTo(d, task.distribution, task.message.n) :
                                       d \in NewDevices(task.participants)}]
    /\ UNCHANGED <<sender, network, record, installation, processed, read, unsent, overfull,
                   redistributed>>

\* relay/2
Relay ==
    /\ task.phase = "remembered"
    /\ network' = network \union task.distributions \union {task.message}
    /\ task' = Idle
    /\ UNCHANGED <<sender, known, record, installation, processed, read, unsent, overfull,
                   redistributed>>

\* A pairwise encryption or the relay fails, or the task is killed.
Fail ==
    /\ task # Idle
    /\ task' = Idle
    /\ unsent' = IF task.phase = "remembered"
                 THEN unsent \union {k.to : k \in task.distributions} ELSE unsent
    /\ UNCHANGED <<sender, known, network, record, installation, processed, read, overfull,
                   redistributed>>

\* The sender is another client, which answers a retry with its key.
Redistribute(d) ==
    /\ sender.record # <<>>
    /\ redistributed < MaxRedistributed
    /\ network' = network \union
           {DistributionTo(d, Distribution(sender.record), sender.sent + 1)}
    /\ redistributed' = redistributed + 1
    /\ UNCHANGED <<sender, known, task, record, installation, processed, read, unsent, overfull>>

\* Another installation: another key, an empty memory.
ReinstallSender ==
    /\ sender.installation < MaxInstallations
    /\ sender' = [sender EXCEPT !.record = <<>>, !.installation = @ + 1]
    /\ known' = {}
    /\ task' = Idle
    /\ unsent' = {}
    /\ UNCHANGED <<network, record, installation, processed, read, overfull, redistributed>>

-----------------------------------------------------------------------------
(* A device. *)

\* Adding a state leaves out the first one.
Evicted(r) == IF Len(r) < MaxStates THEN {} ELSE {r[i].id : i \in 1..(Len(r) - MaxStates + 1)}

\* process_sender_key_distribution_message/3
ReceiveDistribution(d) ==
    \E k \in Distributions \ processed[d] :
        /\ k.to = d
        /\ k.installation = installation[d]
        /\ record' = [record EXCEPT ![d] = Processed(@, k)]
        /\ processed' = [processed EXCEPT ![d] = @ \union {k}]
        /\ overfull' = [overfull EXCEPT ![d] = @ \union Evicted(record[d])]
        /\ UNCHANGED <<sender, known, task, network, installation, read, unsent,
                       redistributed>>

\* More keys are skipped than are kept.
Overflows(s, n) == s.iteration < n /\ Cardinality(s.kept \union s.iteration..(n - 1)) > MaxKept

\* decrypt_group_message/3; a message that does not open changes nothing here.
ReceiveMessage(d) ==
    \E m \in Messages :
        /\ Opens(record[d], m)
        /\ record' = [record EXCEPT ![d] = Decrypted(@, m)]
        /\ read' = [read EXCEPT ![d] = @ \union {m}]
        /\ overfull' = [overfull EXCEPT ![d] = @ \union
               (IF Overflows(StateFor(record[d], m.id), m.iteration) THEN {m.id} ELSE {})]
        /\ UNCHANGED <<sender, known, task, network, installation, processed, unsent,
                       redistributed>>

Reinstall(d) ==
    /\ installation[d] < MaxInstallations
    /\ installation' = [installation EXCEPT ![d] = @ + 1]
    /\ record' = [record EXCEPT ![d] = <<>>]
    /\ processed' = [processed EXCEPT ![d] = {}]
    /\ read' = [read EXCEPT ![d] = {}]
    /\ overfull' = [overfull EXCEPT ![d] = {}]
    /\ UNCHANGED <<sender, known, task, network, unsent, redistributed>>

Next ==
    \/ \E participants \in SUBSET Devices : Encrypt(participants)
    \/ Remember
    \/ Relay
    \/ Fail
    \/ ReinstallSender
    \/ \E d \in Devices :
          Redistribute(d) \/ ReceiveDistribution(d) \/ ReceiveMessage(d) \/ Reinstall(d)

Spec == Init /\ [][Next]_vars

TypeOK ==
    /\ sender.installation \in 1..MaxInstallations
    /\ sender.sent \in 0..MaxSent
    /\ Len(sender.record) <= 1
    /\ known \subseteq Devices
    /\ task.phase \in {"idle", "encrypted", "remembered"}
    /\ processed \in [Devices -> SUBSET Distributions]
    /\ read \in [Devices -> SUBSET Messages]

-----------------------------------------------------------------------------
(* Sending. *)

(* No key of a sender encrypts two messages, whatever became of the stanzas *)
(* before (create/2 and encrypt/2 in one transaction, the record saved      *)
(* before the stanza goes out).                                             *)
KeysUsedOnce ==
    \A m, n \in Messages : m.id = n.id /\ m.iteration = n.iteration => m = n

(* A device in the memory is owed nothing: its distribution was relayed, is *)
(* about to be, or went under with the stanza it was in.                    *)
MemoryIsDistributed ==
    \A d \in known :
        \/ d \in unsent
        \/ \E k \in Distributions : k.to = d /\ k.id = sender.installation
        \/ task.phase = "remembered" /\ \E k \in task.distributions : k.to = d

-----------------------------------------------------------------------------
(* Reading. *)

Heard(d, id) == {k \in processed[d] : k.id = id}

(* A device reads no message from before its first distribution, though the *)
(* two travel apart and in any order.                                       *)
NoHistory ==
    \A d \in Devices : \A m \in read[d] : \E k \in Heard(d, m.id) : k.n <= m.n

(* What a device has read it cannot read again, however often the message   *)
(* or a distribution of its key comes, while the key's state is there.      *)
ReadOnce ==
    \A d \in Devices : \A m \in read[d] : m.id \notin overfull[d] => ~Opens(record[d], m)

(* A device opens every message sent with or after the distributions it     *)
(* holds, in any order, but for those too far ahead and the keys it gave up.*)
Readable ==
    \A d \in Devices : \A m \in Messages \ read[d] :
        Heard(d, m.id) # {} /\ m.id \notin overfull[d] /\ (\A k \in Heard(d, m.id) : k.n <= m.n) =>
            \/ Opens(record[d], m)
            \/ m.iteration - StateFor(record[d], m.id).iteration > MaxFuture

(* A message that a device can open stays so until it is read: a key goes   *)
(* only for MaxKept newer ones, a state only for MaxStates newer ones.      *)
KeptForUnread ==
    [][\A d \in Devices : \A m \in Messages :
          Opens(record[d], m) /\ m \notin read'[d] /\ installation'[d] = installation[d] =>
              \/ Opens(record'[d], m)
              \/ m.id \in Evicted(record[d])
              \/ Cardinality({k \in StateFor(record'[d], m.id).kept : k > m.iteration}) >= MaxKept
      ]_vars
=============================================================================
