---------------------------- MODULE Transactions ----------------------------
(***************************************************************************)
(* The caller's side of Signal.Store.transaction/3, get/3, set/2 and       *)
(* clear/1, which is the same code in both stores                          *)
(* (lib/baileys_ex/auth/key_store.ex, lib/baileys_ex/signal/store/memory.ex)*)
(*                                                                         *)
(* A caller is blocked in GenServer.call while a request of it is under    *)
(* way, so it has at most one: inbox[c], on its way to the server, or held *)
(* by the server.  pc[c] says where the caller is:                         *)
(*   idle        not in the store                                          *)
(*   locking     in the {:lock, ...} call                                  *)
(*   body        in fun                                                    *)
(*   fetching    in fun, in the {:fetch_missing, ...} call of a read       *)
(*   committing  fun returned; in the {:commit_tx, ...} call               *)
(*   ending      about to run the `after` block                            *)
(*   unlocking   in the {:unlock, ...} call of the `after` block           *)
(*   calling     in a call of its own, outside a transaction               *)
(* A process that is killed stops where it is; the request it has sent     *)
(* still arrives, and arrives before its :DOWN.                            *)
(***************************************************************************)
EXTENDS LockManager, TransactionBuffer

CONSTANTS
    GuardKey,       \* the key whose transactions own an id, None for any
    MaxCalls        \* bound: calls and transactions one process starts

ASSUME TransactionsAssumption ==
    /\ GuardKey \in [Ids -> LockKeys \union {None}]
    /\ None \notin LockKeys
    /\ MaxCalls \in Nat

VARIABLES
    pc,             \* where each process is
    txKey,          \* the key of its transaction
    buffer,         \* its transaction handle's private table
    inbox,          \* its request on the way to the server
    calls           \* how many calls and transactions it has started

clientVars == <<pc, txKey, buffer, inbox, calls>>

Waiting == {"locking", "fetching", "committing", "unlocking", "calling"}
Inside  == {"body", "fetching", "committing", "ending"}
PCs     == {"idle", "body", "ending"} \union Waiting

NoRequest == [op |-> "none"]

Requests ==
         [op : {"none", "clear"}]
    \union [op : {"lock", "unlock"}, key : LockKeys]
    \union [op : {"fetch"}, ids : SUBSET Ids]
    \union [op : {"set"}, data : DataSets]
    \union [op : {"commit"}, data : DataSets, clear : BOOLEAN]

ClientTypeOK ==
    /\ pc \in [Clients -> PCs]
    /\ txKey \in [Clients -> LockKeys \union {None}]
    /\ buffer \in [Clients -> BufferType]
    /\ inbox \in [Clients -> Requests]
    /\ calls \in [Clients -> 0..MaxCalls]
    /\ \A c \in Clients : pc[c] \notin {"idle", "calling"} => txKey[c] \in LockKeys

ClientInit ==
    /\ pc = [c \in Clients |-> "idle"]
    /\ txKey = [c \in Clients |-> None]
    /\ buffer = [c \in Clients |-> NewBuffer]
    /\ inbox = [c \in Clients |-> NoRequest]
    /\ calls = [c \in Clients |-> 0]

\* Where a process goes on when a data call of it is answered with ok, or with
\* an error, which raises in the caller.
OnOk == [fetching |-> "body", committing |-> "ending", calling |-> "idle"]
OnError == [OnOk EXCEPT !.fetching = "ending"]

\* A reply continues the call it answers: data calls with ok or an error, the
\* {:lock, ...} calls of granted, the {:unlock, ...} calls of unlocked.
Answer(ok, err, granted, unlocked) ==
    pc' = [c \in Clients |->
              IF c \notin alive THEN pc[c]
              ELSE IF pc[c] = "locking" /\ c \in granted THEN "body"
              ELSE IF pc[c] = "unlocking" /\ c \in unlocked THEN "idle"
              ELSE IF pc[c] \in DOMAIN OnOk /\ c \in ok THEN OnOk[pc[c]]
              ELSE IF pc[c] \in DOMAIN OnOk /\ c \in err THEN OnError[pc[c]]
              ELSE pc[c]]

\* GenServer.call: the request leaves and the process blocks.
Call(c, request, at) ==
    /\ inbox' = [inbox EXCEPT ![c] = request]
    /\ pc' = [pc EXCEPT ![c] = at]

At(c, here) == c \in alive /\ pc[c] = here

\* The ids fun may touch in a transaction on key k.
Touchable(k) == {i \in Ids : GuardKey[i] \in {k, None}}

-----------------------------------------------------------------------------
\* transaction/3 on a plain handle: the lock comes first.
Begin(c, k) ==
    /\ At(c, "idle")
    /\ calls[c] < MaxCalls
    /\ calls' = [calls EXCEPT ![c] = @ + 1]
    /\ txKey' = [txKey EXCEPT ![c] = k]
    /\ buffer' = [buffer EXCEPT ![c] = NewBuffer]
    /\ Call(c, [op |-> "lock", key |-> k], "locking")
    /\ UNCHANGED <<lockVars, alive>>

\* set/2 on a transaction handle, for an id that is not a pre-key deletion.
Put(c, i, value) ==
    /\ At(c, "body")
    /\ i \in Touchable(txKey[c])
    /\ buffer' = [buffer EXCEPT ![c] = PutEntry(@, i, value)]
    /\ UNCHANGED <<lockVars, alive, pc, txKey, inbox, calls>>

\* clear/1 on a transaction handle.
ClearInside(c) ==
    /\ At(c, "body")
    /\ buffer' = [buffer EXCEPT ![c] = ClearBuffer]
    /\ UNCHANGED <<lockVars, alive, pc, txKey, inbox, calls>>

\* fun returned: the mutations are sent to the server.
SendCommit(c) ==
    /\ At(c, "body")
    /\ Call(c, [op |-> "commit", data |-> MutationData(buffer[c]),
                clear |-> buffer[c].cleared], "committing")
    /\ UNCHANGED <<lockVars, alive, txKey, buffer, calls>>

\* fun raised: nothing is committed.
Raise(c) ==
    /\ At(c, "body")
    /\ pc' = [pc EXCEPT ![c] = "ending"]
    /\ UNCHANGED <<lockVars, alive, txKey, buffer, inbox, calls>>

\* The `after` block: the private table is deleted, then the key unlocked.
End(c) ==
    /\ At(c, "ending")
    /\ buffer' = [buffer EXCEPT ![c] = NewBuffer]
    /\ Call(c, [op |-> "unlock", key |-> txKey[c]], "unlocking")
    /\ UNCHANGED <<lockVars, alive, txKey, calls>>

\* A call outside a transaction.
PlainCall(c, request) ==
    /\ At(c, "idle")
    /\ calls[c] < MaxCalls
    /\ calls' = [calls EXCEPT ![c] = @ + 1]
    /\ Call(c, request, "calling")
    /\ UNCHANGED <<lockVars, alive, txKey, buffer>>

\* External: the process is killed.  Its private table goes with it.
Die(c) ==
    /\ Exit(c)
    /\ buffer' = [buffer EXCEPT ![c] = NewBuffer]
    /\ UNCHANGED <<owner, queue, monitors, pc, txKey, inbox, calls>>

-----------------------------------------------------------------------------
\* The handlers of {:lock, key, owner} and {:unlock, key, owner}.
Received(c, op) == inbox[c].op = op
Consumed(c) == inbox' = [inbox EXCEPT ![c] = NoRequest]

HandleLock(c) ==
    /\ Received(c, "lock")
    /\ LET k == inbox[c].key IN
       \/ Acquire(c, k) /\ Answer({}, {}, {c}, {})
       \/ Enqueue(c, k) /\ UNCHANGED pc
    /\ Consumed(c)
    /\ UNCHANGED <<alive, txKey, buffer, calls>>

HandleUnlock(c) ==
    /\ Received(c, "unlock")
    /\ LET refs == {<<c, inbox[c].key>>} IN
       /\ Release(refs)
       /\ Answer({}, {}, PromotedBy(refs), {c})
    /\ Consumed(c)
    /\ UNCHANGED <<alive, txKey, buffer, calls>>

\* A :DOWN can be handled once everything the dead process sent has arrived.
DownArrived(r) == r \in downs /\ inbox[r[1]] = NoRequest

-----------------------------------------------------------------------------
\* A process is in the transaction it started on k.
In(c, k) == c \in alive /\ txKey[c] = k /\ pc[c] \in Inside

\* Two live processes are never in transactions on the same key
\* (transaction/3: "Acquires an exclusive lock tied to `key`").
MutualExclusion ==
    \A k \in LockKeys, c, d \in Clients : In(c, k) /\ In(d, k) => c = d

\* What makes it so.  A process in a transaction owns its key; the processes of
\* a lock's queue wait for that key, once each, with nothing on its way; lock
\* and unlock requests come from processes that wait for them; and only dead
\* processes have a :DOWN.
OwnerHolds ==
    \A k \in LockKeys, c \in Clients : In(c, k) => owner[k] = c

WaitersWait ==
    \A k \in LockKeys : \A j \in 1..Len(queue[k]) :
        /\ pc[queue[k][j]] = "locking"
        /\ txKey[queue[k][j]] = k
        /\ inbox[queue[k][j]] = NoRequest
        /\ \A i \in 1..Len(queue[k]) : queue[k][i] = queue[k][j] => i = j

LockRequests ==
    \A c \in Clients :
        /\ inbox[c].op = "lock" => pc[c] = "locking" /\ inbox[c].key = txKey[c]
        /\ inbox[c].op = "unlock" => pc[c] = "unlocking"

DownsAreDead == \A r \in downs : r[1] \notin alive

LockInv == OwnerHolds /\ WaitersWait /\ LockRequests /\ DownsAreDead
=============================================================================
