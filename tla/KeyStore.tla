------------------------------ MODULE KeyStore ------------------------------
(***************************************************************************)
(* The persistence-backed Signal key store                                 *)
(* (lib/baileys_ex/auth/key_store.ex): a GenServer that owns the cache and *)
(* the locks, a FIFO of persistence operations of which one runs at a time *)
(* in a task, retries with a delay, and rollback to a snapshot.            *)
(*                                                                         *)
(* The server's handlers are one action each.  The task's persistence      *)
(* calls are one step per id, because it can be killed between two.        *)
(***************************************************************************)
EXTENDS Transactions

CONSTANTS
    PreKeys,        \* the ids of type :"pre-key"
    ReadSets,       \* the id sets that callers read
    PlainSets,      \* the data sets that callers set outside transactions
    MayClear,       \* whether anybody calls clear/1
    MaxAttempts,    \* max_commit_retries
    MaxQueue,       \* max_commit_queue
    MaxFaults       \* bound: failed persistence calls and killed tasks

ASSUME KeyStoreAssumption ==
    /\ PreKeys \subseteq Ids
    /\ ReadSets \subseteq SUBSET Ids
    /\ PlainSets \subseteq DataSets
    /\ MayClear \in BOOLEAN
    /\ MaxAttempts \in Nat \ {0}
    /\ MaxQueue \in Nat \ {0}
    /\ MaxFaults \in Nat

VARIABLES
    cache,          \* the ETS table: cache[i]
    known,          \* state.known_ids
    active,         \* state.active_operation
    operations,     \* state.operation_queue
    worker,         \* the task of the active operation
    persisted,      \* external: what the persistence backend holds
    faults,         \* how many faults have happened
    committed,      \* history: the store's contents by what set/2 and clear/1
                    \* say of the commits applied
    spared,         \* history: the ids that a clear has left in the backend
    intruded,       \* history: what others set or cleared under a transaction
    clean           \* history: no task was killed and no rollback failed

serverVars == <<cache, known, active, operations>>
historyVars == <<committed, spared, intruded>>
storeVars  == <<cache, known, active, operations, worker, persisted, faults,
                historyVars, clean>>
vars == <<lockVars, alive, clientVars, storeVars>>

NoOperation == [kind |-> "none"]
NoWorker    == [phase |-> "idle"]
Started     == [phase |-> "start"]

NewFetch(c, ids) == [kind |-> "fetch", from |-> c, ids |-> ids]

\* down is owner_down: the reference whose :DOWN waits for this commit to end.
NewCommit(c, data, clear, txOwner) ==
    [kind |-> "commit", from |-> c, data |-> data, clear |-> clear,
     attempts |-> MaxAttempts, owner |-> txOwner, down |-> {}]

Fetches == [kind : {"fetch"}, from : Clients, ids : SUBSET Ids]
Commits == [kind : {"commit"}, from : Clients, data : DataSets, clear : BOOLEAN,
            attempts : 1..MaxAttempts, owner : Clients \union {None},
            down : SUBSET (Clients \X LockKeys)]
Operations == Fetches \union Commits

Workers ==
         [phase : {"idle", "start"}]
    \union [phase : {"loaded"}, entries : DataSets]
    \union [phase : {"writing"}, plan : DataSets, snapshot : DataSets,
            deletes : SUBSET Ids, writes : DataSets]
    \union [phase : {"restoring"}, writes : DataSets]
    \union [phase : {"written"}, plan : DataSets]
    \union [phase : {"failed", "rollback_failed"}]

TypeOK ==
    /\ LockTypeOK
    /\ ClientTypeOK
    /\ cache \in [Ids -> Rows]
    /\ known \subseteq Ids
    /\ active \in Operations \union {NoOperation}
    /\ operations \in Seq(Operations)
    /\ worker \in Workers
    /\ persisted \in [Ids -> Entries]
    /\ faults \in 0..MaxFaults
    /\ committed \in [Ids -> Entries]
    /\ spared \subseteq Ids
    /\ intruded \subseteq Clients \X (0..MaxCalls) \X Ids
    /\ clean \in BOOLEAN

\* The server opens on whatever an earlier run of the program has left.
Init ==
    /\ LockInit
    /\ ClientInit
    /\ cache = NoRows
    /\ known = {}
    /\ active = NoOperation
    /\ operations = << >>
    /\ worker = NoWorker
    /\ persisted \in [Ids -> Entries]
    /\ faults = 0
    /\ committed = persisted
    /\ spared = {}
    /\ intruded = {}
    /\ clean = TRUE

-----------------------------------------------------------------------------
\* Overlay(f, g): f with the entries of g on top.
Overlay(f, g) == [i \in DOMAIN f |-> IF i \in DOMAIN g THEN g[i] ELSE f[i]]

\* start_active_operation answers a commit with nothing to do at once.
NothingToDo(op) == op.kind = "commit" /\ ~op.clear /\ DOMAIN op.data = {}

\* The operations at the head of q that are finished before one starts a task,
\* and the position of that one, if there is one.
Skipped(q)  == {j \in 1..Len(q) : \A i \in 1..j : NothingToDo(q[i])}
Starting(q) == {j \in 1..Len(q) : ~NothingToDo(q[j]) /\ 1..(j - 1) \subseteq Skipped(q)}

\* The references whose release waited for one of the operations.
DownOf(ops) == Known(UNION {op.down : op \in {o \in ops : o.kind = "commit"}})

\* maybe_start_next_operation, and the finish_active_operation of each operation
\* it runs through; `ended` is the operation that has just finished, if any,
\* answered with an error when `failed`.
StartNext(q, ended, failed) ==
    LET done     == {q[j] : j \in Skipped(q)}
        refs     == DownOf(done \union ended)
        answered == {op.from : op \in ended}
    IN  /\ \/ /\ Starting(q) = {}
              /\ active' = NoOperation /\ worker' = NoWorker /\ operations' = << >>
           \/ \E next \in Starting(q) :
                 /\ active' = q[next]
                 /\ worker' = Started
                 /\ operations' = SubSeq(q, next + 1, Len(q))
        /\ Release(refs)
        /\ Answer({op.from : op \in done} \union (IF failed THEN {} ELSE answered),
                  IF failed THEN answered ELSE {},
                  PromotedBy(refs), {})

Finish(failed) == StartNext(operations, {active}, failed)

\* enqueue_operation
Outstanding == Len(operations) + (IF active = NoOperation THEN 0 ELSE 1)

\* Mutant of EnqueueOperation: a full queue forgets to answer.
EnqueueSilently(c, op) ==
    IF Outstanding >= MaxQueue
    THEN UNCHANGED <<lockVars, active, operations, worker, pc>>
    ELSE IF active = NoOperation
    THEN StartNext(Append(operations, op), {}, FALSE)
    ELSE /\ operations' = Append(operations, op)
         /\ UNCHANGED <<lockVars, active, worker, pc>>

EnqueueOperation(c, op) ==
    IF Outstanding >= MaxQueue
    THEN /\ Answer({}, {c}, {}, {})
         /\ UNCHANGED <<lockVars, active, operations, worker>>
    ELSE IF active = NoOperation
    THEN StartNext(Append(operations, op), {}, FALSE)
    ELSE /\ operations' = Append(operations, op)
         /\ UNCHANGED <<lockVars, active, worker, pc>>

-----------------------------------------------------------------------------
\* Reads.  A caller is answered from the cache when it can be; in a transaction
\* the handle's table comes first, and keeps what was read.
Uncached(ids) == ids \ Present(cache)

Get(c, ids) ==
    /\ Uncached(ids) # {}
    /\ PlainCall(c, [op |-> "fetch", ids |-> Uncached(ids)])
    /\ UNCHANGED storeVars

GetInside(c, ids) ==
    LET missing == MissingIds(buffer[c], ids) IN
    /\ At(c, "body")
    /\ ids \subseteq Touchable(txKey[c])
    /\ missing # {}
    /\ IF buffer[c].cleared
       THEN /\ buffer' = [buffer EXCEPT ![c] = CacheFetched(@, missing, NoData)]
            /\ UNCHANGED <<pc, inbox>>
       ELSE /\ Call(c, [op |-> "fetch", ids |-> missing], "fetching")
            /\ UNCHANGED buffer
    /\ UNCHANGED <<lockVars, alive, txKey, calls, storeVars>>

\* set/2 on a transaction handle.  A pre-key is deleted only if the transaction
\* sees it, so the read (GetInside) comes before the deletion.
SetInside(c, i, value) ==
    /\ i \in PreKeys /\ value = Missing =>
           buffer[c].cache[i] \notin {NotCached, Missing}
    /\ Put(c, i, value)
    /\ UNCHANGED storeVars

Caller(c) ==
    \/ \E k \in LockKeys : Begin(c, k) /\ UNCHANGED storeVars
    \/ \E ids \in ReadSets : Get(c, ids) \/ GetInside(c, ids)
    \/ \E i \in Ids, value \in Entries : SetInside(c, i, value)
    \/ \E data \in PlainSets : PlainCall(c, [op |-> "set", data |-> data]) /\ UNCHANGED storeVars
    \/ Raise(c) /\ UNCHANGED storeVars
    \/ Die(c) /\ UNCHANGED storeVars

Commit(c) == SendCommit(c) /\ UNCHANGED storeVars
Unlock(c) == End(c) /\ UNCHANGED storeVars

\* clear/1, inside and outside a transaction.
Clearing(c) ==
    \/ PlainCall(c, [op |-> "clear"]) /\ UNCHANGED storeVars
    \/ buffer[c] # ClearBuffer /\ ClearInside(c) /\ UNCHANGED storeVars

-----------------------------------------------------------------------------
\* The server's handle_call clauses.
ServeLock(c)   == HandleLock(c) /\ UNCHANGED storeVars
ServeUnlock(c) == HandleUnlock(c) /\ UNCHANGED storeVars

Serve(c, op, operation) ==
    /\ Received(c, op)
    /\ EnqueueOperation(c, operation)
    /\ Consumed(c)
    /\ UNCHANGED <<alive, txKey, buffer, calls, cache, known, persisted, faults,
                   historyVars, clean>>

ServeFetch(c)  == Serve(c, "fetch", NewFetch(c, inbox[c].ids))
ServeSet(c)    == Serve(c, "set", NewCommit(c, inbox[c].data, FALSE, None))
ServeClear(c)  == Serve(c, "clear", NewCommit(c, NoData, TRUE, None))
ServeCommit(c) == Serve(c, "commit", NewCommit(c, inbox[c].data, inbox[c].clear, c))

\* mark_owner_down: the commit that keeps a dead owner's lock, the active one
\* first, else the first of the queue.
\* Mutants: a dead owner's commit is not looked for, in the queue or at all;
\* the reference is not kept.
QueuedNever(c) == {}
OwnedNever(op, c) == FALSE
MarkDownForgets(op, r) == op

OwnedBy(op, c) == op.kind = "commit" /\ op.owner = c
Queued(c) == {j \in 1..Len(operations) : OwnedBy(operations[j], c)}
MarkDown(op, r) == [op EXCEPT !.down = {r}]

ServeDown(r) ==
    LET c == r[1] IN
    /\ DownArrived(r)
    /\ IF OwnedBy(active, c)
       THEN /\ active' = MarkDown(active, r)
            /\ downs' = downs \ {r}
            /\ UNCHANGED <<owner, queue, monitors, operations, pc>>
       ELSE IF Queued(c) # {}
       THEN /\ \E j \in Queued(c) :
                  /\ \A l \in Queued(c) : j <= l
                  /\ operations' = [operations EXCEPT ![j] = MarkDown(@, r)]
            /\ downs' = downs \ {r}
            /\ UNCHANGED <<owner, queue, monitors, active, pc>>
       ELSE /\ Release(Known({r}))
            /\ Answer({}, {}, PromotedBy(Known({r})), {})
            /\ UNCHANGED <<active, operations>>
    /\ UNCHANGED <<alive, txKey, buffer, inbox, calls, cache, known, worker,
                   persisted, faults, historyVars, clean>>

-----------------------------------------------------------------------------
\* The task.  It reads the cache and the known ids of the server, which does
\* not change them while a task runs.
workerUnchanged == <<lockVars, alive, clientVars, serverVars, historyVars>>

Fault == faults < MaxFaults /\ faults' = faults + 1

Stored(i) == IF cache[i] = NotCached THEN persisted[i] ELSE cache[i]

\* fetch_missing
Load ==
    /\ worker = Started /\ active.kind = "fetch"
    /\ worker' = [phase |-> "loaded", entries |-> [i \in active.ids |-> Stored(i)]]
    /\ UNCHANGED <<workerUnchanged, persisted, faults, clean>>

\* Mutant of SnapshotIds: what clear deletes is not in the snapshot.
SnapshotOfData == DOMAIN active.data

ClearedIds  == IF active.clear THEN known ELSE {}
SnapshotIds == DOMAIN active.data \union ClearedIds

\* A failed load, of a fetch or of a snapshot: nothing was written.
LoadFails ==
    /\ worker = Started
    /\ \E i \in (IF active.kind = "fetch" THEN active.ids
                 ELSE SnapshotIds) :
           cache[i] = NotCached
    /\ Fault
    /\ worker' = [phase |-> "failed"]
    /\ UNCHANGED <<workerUnchanged, persisted, clean>>

\* snapshot_for_commit and prepare_commit_data: the deletions of pre-keys that
\* do not exist are dropped.
Prepare(data, snapshot) ==
    LET pointless == {i \in DOMAIN data \intersect PreKeys :
                        data[i] = Missing /\ snapshot[i] = Missing}
    IN  [i \in DOMAIN data \ pointless |-> data[i]]

Snapshot ==
    /\ worker = Started /\ active.kind = "commit"
    /\ LET cleared  == ClearedIds
           snapshot == [i \in SnapshotIds |-> Stored(i)]
           plan     == Prepare(active.data, snapshot)
       IN  worker' = [phase |-> "writing", plan |-> plan, snapshot |-> snapshot,
                      deletes |-> cleared, writes |-> plan]
    /\ UNCHANGED <<workerUnchanged, persisted, faults, clean>>

Without(f, i) == [j \in DOMAIN f \ {i} |-> f[j]]

\* persist_commit: the deletions of a clear first, then the mutations.
Delete(i) ==
    /\ worker.phase = "writing"
    /\ i \in worker.deletes
    /\ persisted' = [persisted EXCEPT ![i] = Missing]
    /\ worker' = [worker EXCEPT !.deletes = @ \ {i}]
    /\ UNCHANGED <<workerUnchanged, faults, clean>>

Write(i) ==
    /\ worker.phase = "writing" /\ worker.deletes = {}
    /\ i \in DOMAIN worker.writes
    /\ persisted' = [persisted EXCEPT ![i] = worker.writes[i]]
    /\ worker' = [worker EXCEPT !.writes = Without(@, i)]
    /\ UNCHANGED <<workerUnchanged, faults, clean>>

\* A persistence call fails, having written or not: restore_failed_commit.
WriteFails(i) ==
    /\ worker.phase = "writing"
    /\ \E value \in {persisted[i]} \union
            (IF i \in worker.deletes THEN {Missing}
             ELSE IF worker.deletes = {} /\ i \in DOMAIN worker.writes
             THEN {worker.writes[i]} ELSE {}) :
         persisted' = [persisted EXCEPT ![i] = value]
    /\ i \in worker.deletes \/ (worker.deletes = {} /\ i \in DOMAIN worker.writes)
    /\ Fault
    /\ worker' = [phase |-> "restoring", writes |-> worker.snapshot]
    /\ UNCHANGED <<workerUnchanged, clean>>

Written ==
    /\ worker.phase = "writing" /\ worker.deletes = {} /\ DOMAIN worker.writes = {}
    /\ worker' = [phase |-> "written", plan |-> worker.plan]
    /\ UNCHANGED <<workerUnchanged, persisted, faults, clean>>

\* restore_snapshot
Restore(i) ==
    /\ worker.phase = "restoring"
    /\ i \in DOMAIN worker.writes
    /\ persisted' = [persisted EXCEPT ![i] = worker.writes[i]]
    /\ worker' = [worker EXCEPT !.writes = Without(@, i)]
    /\ UNCHANGED <<workerUnchanged, faults, clean>>

RestoreFails ==
    /\ worker.phase = "restoring" /\ DOMAIN worker.writes # {}
    /\ Fault
    /\ worker' = [phase |-> "rollback_failed"]
    /\ clean' = FALSE
    /\ UNCHANGED <<workerUnchanged, persisted>>

Restored ==
    /\ worker.phase = "restoring" /\ DOMAIN worker.writes = {}
    /\ worker' = [phase |-> "failed"]
    /\ UNCHANGED <<workerUnchanged, persisted, faults, clean>>

-----------------------------------------------------------------------------
\* complete_operation.
completeUnchanged == <<alive, txKey, inbox, calls, persisted>>

\* A fetch has its entries: they enter the cache, the caller has its read.
CompleteFetch ==
    LET entries == worker.entries
        c       == active.from
    IN  /\ worker.phase = "loaded"
        /\ cache' = Overlay(cache, entries)
        /\ known' = {i \in Ids : IF i \in DOMAIN entries THEN entries[i] # Missing
                                 ELSE i \in known}
        /\ buffer' = IF At(c, "fetching")
                     THEN [buffer EXCEPT ![c] = CacheFetched(@, DOMAIN entries, entries)]
                     ELSE buffer
        /\ Finish(FALSE)
        /\ UNCHANGED <<completeUnchanged, faults, historyVars, clean>>

\* Mutant of CacheBase: a clear leaves the cache.
CacheKept == cache

\* apply_cache_plan: {:replace, _} empties the table first.
CacheBase == IF active.clear THEN NoRows ELSE cache

\* clear/1: "Clears all keys from persistence".  The code deletes the known ids;
\* what an earlier run has persisted and this one has not seen is spared.
Cleared == [i \in Ids |-> Missing]
Spared  == (IF active.clear THEN {i \in Ids \ known : persisted[i] # Missing} ELSE spared)
               \ DOMAIN worker.plan

\* What the commit of a set or a clear outside transactions, or of a clear in
\* one, changes under the transactions that others are in.
Intrudes == IF active.clear THEN Ids
            ELSE IF active.owner = None THEN DOMAIN worker.plan ELSE {}
Readers  == {c \in Clients : pc[c] \in {"body", "fetching"}}
Intrusions == {<<c, calls[c], i>> : c \in Readers, i \in Intrudes}

\* A commit is persisted: apply_cache_plan, and the caller is told.
CompleteCommit ==
    LET plan == worker.plan
        base == CacheBase
        ids  == IF active.clear THEN {} ELSE known
    IN  /\ worker.phase = "written"
        /\ cache' = Overlay(base, plan)
        /\ known' = {i \in Ids : IF i \in DOMAIN plan THEN plan[i] # Missing ELSE i \in ids}
        /\ committed' = Overlay(IF active.clear THEN Cleared ELSE committed, plan)
        /\ spared' = Spared
        /\ intruded' = intruded \union Intrusions
        /\ Finish(FALSE)
        /\ UNCHANGED <<completeUnchanged, buffer, faults, clean>>

MayRetry == active.kind = "commit" /\ active.attempts > 1

\* retry_operation: the operation stays active, without a task, until the timer.
Retry ==
    /\ worker.phase = "failed"
    /\ MayRetry
    /\ active' = [active EXCEPT !.attempts = @ - 1]
    /\ worker' = NoWorker
    /\ UNCHANGED <<lockVars, clientVars, completeUnchanged, cache, known, operations,
                   faults, historyVars, clean>>

RetryTimer ==
    /\ active # NoOperation /\ worker = NoWorker
    /\ worker' = Started
    /\ UNCHANGED <<lockVars, alive, clientVars, serverVars, persisted, faults,
                   historyVars, clean>>

Fail ==
    /\ \/ worker.phase = "failed" /\ ~MayRetry
       \/ worker.phase = "rollback_failed"
    /\ Finish(TRUE)
    /\ UNCHANGED <<completeUnchanged, buffer, cache, known, faults, historyVars, clean>>

\* The task is killed: no result, no rollback, no retry.
TaskExit ==
    /\ worker.phase \in {"start", "writing", "restoring"}
    /\ Fault
    /\ clean' = (clean /\ worker.phase = "start")
    /\ Finish(TRUE)
    /\ UNCHANGED <<completeUnchanged, buffer, cache, known, historyVars>>

-----------------------------------------------------------------------------
Server ==
    \/ \E c \in Clients : \/ ServeLock(c) \/ ServeUnlock(c) \/ ServeFetch(c)
                          \/ ServeSet(c) \/ ServeClear(c) \/ ServeCommit(c)
    \/ \E r \in downs : ServeDown(r)
    \/ CompleteFetch \/ CompleteCommit \/ Retry \/ RetryTimer \/ Fail

Worker ==
    \/ Load \/ Snapshot \/ Written \/ Restored
    \/ \E i \in Ids : Delete(i) \/ Write(i) \/ Restore(i)

Faults ==
    \/ LoadFails \/ RestoreFails \/ TaskExit
    \/ \E i \in Ids : WriteFails(i)

Callers == \E c \in Clients :
    Caller(c) \/ Commit(c) \/ Unlock(c) \/ (MayClear /\ Clearing(c))

\* Everybody alive has used up MaxCalls, and nothing is under way.
Rest ==
    /\ \A c \in alive : pc[c] = "idle" /\ calls[c] = MaxCalls
    /\ \A c \in Clients : inbox[c] = NoRequest
    /\ active = NoOperation /\ downs = {}
    /\ UNCHANGED vars

Next == Callers \/ Server \/ Worker \/ Faults \/ Rest

Spec == Init /\ [][Next]_vars

\* The scheduler runs every process, fun returns, the server takes its messages,
\* persistence calls return and timers fire; nothing makes a process start a
\* call, raise or die.
Fairness ==
    /\ \A c \in Clients :
          /\ WF_vars(Commit(c) \/ Unlock(c))
          /\ WF_vars(\/ ServeLock(c) \/ ServeUnlock(c) \/ ServeFetch(c)
                     \/ ServeSet(c) \/ ServeClear(c) \/ ServeCommit(c)
                     \/ \E r \in downs : r[1] = c /\ ServeDown(r))
    /\ WF_vars(Worker \/ CompleteFetch \/ CompleteCommit \/ Retry \/ RetryTimer \/ Fail)

FairSpec == Spec /\ Fairness

-----------------------------------------------------------------------------
\* The operations the server holds.
Held == {operations[j] : j \in 1..Len(operations)} \union ({active} \ {NoOperation})

\* The references that commits carry are of dead processes.
CarriedAreDead ==
    \A op \in Held : op.kind = "commit" => \A r \in op.down : r[1] \notin alive

\* The inductive invariant behind MutualExclusion.
Locking == TypeOK /\ LockInv /\ CarriedAreDead

\* A transaction's commit runs, waits or is retried under its lock, even when
\* the process that ran the transaction is dead: mark_owner_down keeps it.
CommitHoldsLock ==
    \A op \in Held : op.kind = "commit" /\ op.owner # None =>
        owner[txKey[op.owner]] = op.owner

\* The lock of a dead process is on its way to being released: its :DOWN is
\* yet to be handled, or a commit that will end carries its reference.
NoLeakedLock ==
    \A k \in LockKeys : owner[k] \notin alive \union {None} =>
        \/ <<owner[k], k>> \in downs
        \/ \E op \in Held : op.kind = "commit" /\ <<owner[k], k>> \in op.down

\* The cache never shows what no commit has made, nor misses what one has: not
\* while a commit runs, fails, is rolled back or retried.  Except for the ids
\* that a clear has spared: they are read back though clear/1 says all go.
CacheIsCommitted ==
    clean => \A i \in Ids \ spared : cache[i] \in {NotCached, committed[i]}

\* Between attempts the backend holds exactly the commits applied: a commit is
\* persisted whole or not at all, and when its task reports success, whole.
\* Except, again, for what a clear has spared, or spares now.
BackendIsCommitted ==
    clean => CASE worker.phase \in {"writing", "restoring"} -> TRUE
               [] worker.phase = "written" ->
                    \A i \in Ids \ Spared : persisted[i] =
                        IF i \in DOMAIN worker.plan THEN worker.plan[i]
                        ELSE IF active.clear THEN Missing
                        ELSE committed[i]
               [] OTHER -> \A i \in Ids \ spared : persisted[i] = committed[i]

\* What a transaction has read under its key is still so: no other transaction
\* commits between its read and its own commit.  Only a set or a clear outside
\* transactions on the key can come between, and it is the only thing that can:
\* delete_sessions and migrate_sessions of signal/adapter/signal.ex do.
ReadsStillHold ==
    clean => \A c \in alive : pc[c] \in {"body", "fetching"} =>
        \A i \in Ids \ spared :
            /\ GuardKey[i] = txKey[c]
            /\ buffer[c].mutation[i] = NotCached
            /\ ~buffer[c].cleared
            /\ <<c, calls[c], i>> \notin intruded
            => buffer[c].cache[i] \in {NotCached, committed[i]}

\* What a process has submitted: on its way, queued, running or to be retried.
SubmittedBy(c) ==
    {[data |-> op.data, clear |-> op.clear] :
        op \in {o \in Held : o.kind = "commit" /\ o.from = c}}
    \union (IF inbox[c].op = "commit"
            THEN {[data |-> inbox[c].data, clear |-> inbox[c].clear]} ELSE {})
    \union (IF inbox[c].op = "set"
            THEN {[data |-> inbox[c].data, clear |-> FALSE]} ELSE {})
    \union (IF inbox[c].op = "clear" THEN {[data |-> NoData, clear |-> TRUE]} ELSE {})

Submitted == [c \in Clients |->
    IF SubmittedBy(c) = {} THEN [data |-> NoData, clear |-> FALSE]
    ELSE CHOOSE s \in SubmittedBy(c) : TRUE]

Serial == INSTANCE SerialStore WITH holder <- owner, pending <- Submitted,
                                    contents <- committed

\* Transactions are applied whole or dropped, one after the other on each key,
\* by the process that holds the key, and the key waits for them, through
\* queue, retries and the death of the process; plain sets and clears too are
\* applied whole or dropped.  (While it is clean: a killed task leaves part of
\* a commit in the backend.)
ImplementsSerial == Serial!Init /\ [][clean' => Serial!Next]_<<owner, Submitted, committed>>

\* A process that waits has one request under way, and one that does not wait
\* has none: no call is lost, answered twice, or answered and kept.
RequestsUnderWay(c) ==
      (IF inbox[c] # NoRequest THEN 1 ELSE 0)
    + Cardinality(UNION {{<<k, j>> : j \in {i \in 1..Len(queue[k]) : queue[k][i] = c}} :
                            k \in LockKeys})
    + Cardinality({j \in 1..Len(operations) : operations[j].from = c})
    + (IF active # NoOperation THEN IF active.from = c THEN 1 ELSE 0 ELSE 0)

NoLostCall ==
    \A c \in alive : RequestsUnderWay(c) = IF pc[c] \in Waiting THEN 1 ELSE 0

\* Every call of a live process is answered: locks are handed on, dead owners'
\* locks come back, retries end.
EveryCallAnswered ==
    \A c \in Clients : pc[c] \in Waiting ~> (pc[c] \notin Waiting \/ c \notin alive)
=============================================================================
