--------------------------- MODULE KeyStoreProofs ---------------------------
(***************************************************************************)
(* For every value of the constants: types and mutual exclusion; locks and *)
(* commits; cache and backend; reads and the refinement of SerialStore; at *)
(* the end, that no call is lost.                                          *)
(***************************************************************************)
EXTENDS KeyStore, TransactionsProofs, FiniteSetTheorems

USE DEF historyVars

ServerTypeOK ==
    /\ active \in Operations \union {NoOperation}
    /\ operations \in Seq(Operations)
    /\ worker \in Workers

\* The elements of a suffix are elements of the sequence.
LEMMA Suffix ==
    ASSUME NEW S, NEW q \in Seq(S), NEW n \in 1..Len(q)
    PROVE  LET rest == SubSeq(q, n + 1, Len(q)) IN
           /\ rest \in Seq(S)
           /\ \A i \in 1..Len(rest) : \E j \in 1..Len(q) : rest[i] = q[j]
<1> DEFINE m == n + 1
           rest == SubSeq(q, m, Len(q))
<1>1. Len(q) \in Nat /\ Len(q) \in Int /\ n \in Nat /\ m \in Int /\ m >= 1
  OBVIOUS
<1>2. \A i \in m..Len(q) : q[i] \in S
  BY <1>1, ElementOfSeq
<1> HIDE DEF m
<1>3. /\ rest \in Seq(S)
      /\ Len(rest) = IF m <= Len(q) THEN Len(q) - m + 1 ELSE 0
      /\ \A i \in 1..Len(q) - m + 1 : rest[i] = q[m + i - 1]
  BY <1>1, <1>2, SubSeqProperties
<1>4. ASSUME NEW i \in 1..Len(rest) PROVE \E j \in 1..Len(q) : rest[i] = q[j]
  <2>1. i \in 1..Len(q) - m + 1
    BY <1>1, <1>3
  <2>2. m + i - 1 \in 1..Len(q)
    BY <1>1, <2>1
  <2> QED BY <1>3, <2>1, <2>2
<1> QED BY <1>3, <1>4 DEF m

LEMMA StartNextType ==
    ASSUME LockTypeOK, ClientTypeOK, NEW q \in Seq(Operations),
           NEW ended, NEW failed, StartNext(q, ended, failed)
    PROVE  /\ ServerTypeOK'
           /\ owner' \in [LockKeys -> Clients \union {None}]
           /\ queue' \in [LockKeys -> Seq(Clients)]
           /\ monitors' \subseteq Clients \X LockKeys
           /\ downs' \subseteq Clients \X LockKeys
           /\ pc' \in [Clients -> PCs]
           /\ \A c \in Clients : pc[c] \in {"idle", "calling"} => pc'[c] \in {"idle", "calling"}
<1>1. PICK refs, ok, err : Release(refs) /\ Answer(ok, err, PromotedBy(refs), {})
  BY DEF StartNext
<1>2. pc \in [Clients -> PCs]
  BY DEF ClientTypeOK
<1>3. ServerTypeOK'
  <2>1. CASE Starting(q) = {} /\ active' = NoOperation /\ worker' = NoWorker /\ operations' = << >>
    BY <2>1 DEF ServerTypeOK, NoWorker, Workers
  <2>2. ASSUME NEW next \in Starting(q),
               active' = q[next], worker' = Started,
               operations' = SubSeq(q, next + 1, Len(q))
        PROVE  ServerTypeOK'
    <3>1. next \in 1..Len(q)
      BY DEF Starting
    <3>2. active' \in Operations
      BY <2>2, <3>1, ElementOfSeq
    <3>3. operations' \in Seq(Operations)
      BY <2>2, <3>1, Suffix
    <3> QED BY <2>2, <3>2, <3>3 DEF ServerTypeOK, Started, Workers
  <2> QED BY <2>1, <2>2 DEF StartNext
<1> QED BY <1>1, <1>2, <1>3, ReleaseType, AnswerType

\* Data sets over the store's contents.
LEMMA DataTypes ==
    ASSUME TypeOK
    PROVE  /\ \A S \in SUBSET Ids : [i \in S |-> Stored(i)] \in DataSets
           /\ \A data, snapshot \in DataSets : Prepare(data, snapshot) \in DataSets
           /\ \A data \in DataSets : \A i : Without(data, i) \in DataSets
           /\ \A rows \in [Ids -> Rows], data \in DataSets : Overlay(rows, data) \in [Ids -> Rows]
           /\ \A entries \in [Ids -> Entries], data \in DataSets :
                 Overlay(entries, data) \in [Ids -> Entries]
           /\ \A data \in DataSets : DOMAIN data \in SUBSET Ids
           /\ \A data \in DataSets : \A i \in DOMAIN data : i \in Ids /\ data[i] \in Entries
<1>1. \A data \in DataSets : /\ DOMAIN data \in SUBSET Ids
                              /\ \A i \in DOMAIN data : i \in Ids /\ data[i] \in Entries
  BY DEF DataSets
<1>2. \A S \in SUBSET Ids : \A f \in [S -> Entries] : f \in DataSets
  BY DEF DataSets
<1>3. \A i \in Ids : Stored(i) \in Entries
  BY DEF Stored, TypeOK, Rows, Entries
<1>4. \A S \in SUBSET Ids : [i \in S |-> Stored(i)] \in [S -> Entries]
  BY <1>3
<1>5. ASSUME NEW data \in DataSets, NEW S \in SUBSET DOMAIN data
      PROVE  [i \in S |-> data[i]] \in DataSets
  <2>1. [i \in S |-> data[i]] \in [S -> Entries] /\ S \in SUBSET Ids
    BY <1>1
  <2> QED BY <2>1, <1>2
<1>6. \A data, snapshot \in DataSets : Prepare(data, snapshot) \in DataSets
  BY <1>5 DEF Prepare
<1>7. \A data \in DataSets : \A i : Without(data, i) \in DataSets
  BY <1>5 DEF Without
<1>8. \A rows \in [Ids -> Rows], data \in DataSets : Overlay(rows, data) \in [Ids -> Rows]
  BY <1>1 DEF Overlay, Rows
<1>9. \A entries \in [Ids -> Entries], data \in DataSets :
          Overlay(entries, data) \in [Ids -> Entries]
  BY <1>1 DEF Overlay
<1> QED BY <1>1, <1>2, <1>4, <1>6, <1>7, <1>8, <1>9

StoreTypeOK ==
    /\ cache \in [Ids -> Rows]
    /\ known \subseteq Ids
    /\ ServerTypeOK
    /\ persisted \in [Ids -> Entries]
    /\ faults \in 0..MaxFaults
    /\ committed \in [Ids -> Entries]
    /\ spared \subseteq Ids
    /\ intruded \subseteq Clients \X (0..MaxCalls) \X Ids
    /\ clean \in BOOLEAN

LEMMA TypeParts ==
    /\ TypeOK <=> LockTypeOK /\ ClientTypeOK /\ StoreTypeOK
    /\ TypeOK' <=> LockTypeOK' /\ ClientTypeOK' /\ StoreTypeOK'
BY DEF TypeOK, StoreTypeOK, ServerTypeOK

\* The callers' own steps.
LEMMA CallersType ==
    ASSUME TypeOK, TransactionsAssumption, KeyStoreAssumption, NEW c \in Clients,
           Caller(c) \/ Commit(c) \/ Unlock(c) \/ (MayClear /\ Clearing(c))
    PROVE  TypeOK'
<1> USE TypeParts
<1>1. ASSUME UNCHANGED storeVars PROVE StoreTypeOK'
  BY <1>1 DEF storeVars, StoreTypeOK, ServerTypeOK
<1>2. \A ids \in SUBSET Ids : [op |-> "fetch", ids |-> ids] \in Requests
  BY DEF Requests
<1>3. ASSUME NEW k \in LockKeys, Begin(c, k), UNCHANGED storeVars PROVE TypeOK'
  BY <1>1, <1>3, CallerType
<1>4. ASSUME NEW ids \in ReadSets, Get(c, ids) PROVE TypeOK'
  <2>1. Uncached(ids) \in SUBSET Ids
    BY DEF Uncached, KeyStoreAssumption
  <2> QED BY <1>1, <1>2, <1>4, <2>1, CallerType DEF Get
<1>5. ASSUME NEW ids \in ReadSets, GetInside(c, ids) PROVE TypeOK'
  <2> DEFINE missing == MissingIds(buffer[c], ids)
  <2>1. missing \in SUBSET Ids /\ buffer[c] \in BufferType
    BY DEF MissingIds, KeyStoreAssumption, ClientTypeOK
  <2>2. CacheFetched(buffer[c], missing, NoData) \in BufferType
    BY <2>1, NoDataType, CacheFetchedType
  <2>3. UNCHANGED <<lockVars, alive, txKey, calls, storeVars>>
    BY <1>5 DEF GetInside
  <2>4. CASE buffer' = [buffer EXCEPT ![c] = CacheFetched(@, missing, NoData)] /\ UNCHANGED <<pc, inbox>>
    BY <2>2, <2>3, <2>4, <1>1 DEF LockTypeOK, ClientTypeOK, lockVars
  <2>5. CASE Call(c, [op |-> "fetch", ids |-> missing], "fetching") /\ UNCHANGED buffer
    <3>1. [op |-> "fetch", ids |-> missing] \in Requests
      BY <1>2, <2>1
    <3>2. pc[c] = "body" /\ pc' = [pc EXCEPT ![c] = "fetching"]
      BY <1>5, <2>5 DEF GetInside, At, Call
    <3>3. \A d \in Clients : pc'[d] \notin {"idle", "calling"} => txKey'[d] \in LockKeys
      BY <2>3, <3>2 DEF ClientTypeOK
    <3> QED BY <2>3, <2>5, <3>1, <3>2, <3>3, <1>1
        DEF LockTypeOK, ClientTypeOK, lockVars, Call, PCs, Waiting
  <2> QED BY <1>5, <2>4, <2>5 DEF GetInside
<1>6. ASSUME NEW i \in Ids, NEW value \in Entries, SetInside(c, i, value) PROVE TypeOK'
  BY <1>1, <1>6, CallerType DEF SetInside
<1>7. ASSUME NEW data \in PlainSets, PlainCall(c, [op |-> "set", data |-> data]),
             UNCHANGED storeVars
      PROVE  TypeOK'
  <2>1. [op |-> "set", data |-> data] \in Requests
    BY DEF Requests, KeyStoreAssumption
  <2> QED BY <1>1, <1>7, <2>1, CallerType
<1>8. ASSUME Raise(c) \/ Die(c) \/ SendCommit(c) \/ End(c) \/ ClearInside(c), UNCHANGED storeVars
      PROVE  TypeOK'
  BY <1>1, <1>8, CallerType
<1>9. ASSUME PlainCall(c, [op |-> "clear"]), UNCHANGED storeVars PROVE TypeOK'
  <2>1. [op |-> "clear"] \in Requests
    BY DEF Requests
  <2> QED BY <1>1, <1>9, <2>1, CallerType
<1> QED BY <1>3, <1>4, <1>5, <1>6, <1>7, <1>8, <1>9 DEF Caller, Commit, Unlock, Clearing

\* The handlers of lock and unlock requests.
LEMMA LockHandlersType ==
    ASSUME TypeOK, NEW c \in Clients, ServeLock(c) \/ ServeUnlock(c)
    PROVE  TypeOK'
<1> USE TypeParts
<1>1. StoreTypeOK'
  BY DEF ServeLock, ServeUnlock, storeVars, StoreTypeOK, ServerTypeOK
<1> QED BY <1>1, HandlersType DEF ServeLock, ServeUnlock

\* A new operation is queued, started, or refused.
LEMMA EnqueueType ==
    ASSUME TypeOK, NEW c \in Clients, NEW op \in Operations, EnqueueOperation(c, op)
    PROVE  /\ ServerTypeOK'
           /\ owner' \in [LockKeys -> Clients \union {None}]
           /\ queue' \in [LockKeys -> Seq(Clients)]
           /\ monitors' \subseteq Clients \X LockKeys
           /\ downs' \subseteq Clients \X LockKeys
           /\ pc' \in [Clients -> PCs]
           /\ \A d \in Clients : pc[d] \in {"idle", "calling"} => pc'[d] \in {"idle", "calling"}
<1> USE TypeParts
<1>1. ServerTypeOK /\ pc \in [Clients -> PCs]
  BY DEF StoreTypeOK, ClientTypeOK
<1>2. Append(operations, op) \in Seq(Operations)
  BY <1>1 DEF ServerTypeOK
<1>3. CASE Answer({}, {c}, {}, {}) /\ UNCHANGED <<lockVars, active, operations, worker>>
  <2>1. pc' \in [Clients -> PCs] /\ \A d \in Clients :
            pc[d] \in {"idle", "calling"} => pc'[d] \in {"idle", "calling"}
    BY <1>1, <1>3, AnswerType
  <2> QED BY <1>1, <1>3, <2>1 DEF LockTypeOK, ServerTypeOK, lockVars
<1>4. CASE StartNext(Append(operations, op), {}, FALSE)
  BY <1>2, <1>4, StartNextType
<1>5. CASE operations' = Append(operations, op) /\ UNCHANGED <<lockVars, active, worker, pc>>
  BY <1>1, <1>2, <1>5 DEF LockTypeOK, ServerTypeOK, lockVars
<1> QED BY <1>3, <1>4, <1>5 DEF EnqueueOperation

LEMMA ServeType ==
    ASSUME TypeOK, NEW c \in Clients, NEW op \in Operations, NEW name, Serve(c, name, op)
    PROVE  TypeOK'
<1> USE TypeParts
<1>1. LockTypeOK'
  BY EnqueueType DEF Serve, LockTypeOK
<1>2. ClientTypeOK'
  <2>1. buffer' \in [Clients -> BufferType] /\ txKey' = txKey /\ calls' = calls
    BY DEF Serve, ClientTypeOK
  <2> QED BY <2>1, EnqueueType, ConsumedType, AnsweredType DEF Serve
<1>3. StoreTypeOK'
  BY EnqueueType DEF Serve, StoreTypeOK
<1> QED BY <1>1, <1>2, <1>3

\* The handlers of data requests.
LEMMA DataHandlersType ==
    ASSUME TypeOK, KeyStoreAssumption, NEW c \in Clients,
           ServeFetch(c) \/ ServeSet(c) \/ ServeClear(c) \/ ServeCommit(c)
    PROVE  TypeOK'
<1>1. inbox[c] \in Requests
  BY DEF TypeOK, ClientTypeOK
<1>2. ASSUME NEW ids \in SUBSET Ids PROVE NewFetch(c, ids) \in Operations
  BY DEF NewFetch, Operations, Fetches
<1>3. ASSUME NEW data \in DataSets, NEW clear \in BOOLEAN, NEW own \in Clients \union {None}
      PROVE  NewCommit(c, data, clear, own) \in Operations
  <2>1. MaxAttempts \in 1..MaxAttempts
    BY DEF KeyStoreAssumption
  <2> QED BY <2>1 DEF NewCommit, Operations, Commits
<1>4. CASE ServeFetch(c)
  <2>1. inbox[c].ids \in SUBSET Ids
    BY <1>1, <1>4 DEF ServeFetch, Serve, Received, Requests
  <2> QED BY <1>2, <1>4, <2>1, ServeType DEF ServeFetch
<1>5. CASE ServeSet(c)
  <2>1. inbox[c].data \in DataSets
    BY <1>1, <1>5 DEF ServeSet, Serve, Received, Requests
  <2>2. NewCommit(c, inbox[c].data, FALSE, None) \in Operations
    BY <2>1, <1>3
  <2> QED BY <1>5, <2>2, ServeType DEF ServeSet
<1>6. CASE ServeClear(c)
  <2>1. NewCommit(c, NoData, TRUE, None) \in Operations
    BY NoDataType, <1>3
  <2> QED BY <1>6, <2>1, ServeType DEF ServeClear
<1>7. CASE ServeCommit(c)
  <2>1. inbox[c].data \in DataSets /\ inbox[c].clear \in BOOLEAN
    BY <1>1, <1>7 DEF ServeCommit, Serve, Received, Requests
  <2>2. NewCommit(c, inbox[c].data, inbox[c].clear, c) \in Operations
    BY <2>1, <1>3
  <2> QED BY <1>7, <2>2, ServeType DEF ServeCommit
<1> QED BY <1>4, <1>5, <1>6, <1>7

LEMMA ServeDownType ==
    ASSUME TypeOK, NEW r \in downs, ServeDown(r)
    PROVE  TypeOK'
<1> USE TypeParts
<1>1. /\ alive' = alive /\ txKey' = txKey /\ calls' = calls
      /\ buffer' \in [Clients -> BufferType] /\ inbox' \in [Clients -> Requests]
      /\ cache' = cache /\ known' = known /\ worker' = worker /\ persisted' = persisted
      /\ faults' = faults /\ UNCHANGED historyVars /\ clean' = clean
  BY DEF ServeDown, ClientTypeOK
<1>2. r \in Clients \X LockKeys
  BY DEF LockTypeOK
<1>3. \A op \in Operations : op.kind = "commit" => MarkDown(op, r) \in Operations
  BY <1>2 DEF MarkDown, Operations, Commits, Fetches
<1>4. pc \in [Clients -> PCs] /\ ServerTypeOK
  BY DEF ClientTypeOK, StoreTypeOK
<1>5. CASE /\ OwnedBy(active, r[1])
           /\ active' = MarkDown(active, r)
           /\ downs' = downs \ {r}
           /\ UNCHANGED <<owner, queue, monitors, operations, pc>>
  <2>1. active \in Operations /\ active.kind = "commit"
    BY <1>4, <1>5 DEF OwnedBy, ServerTypeOK, NoOperation
  <2>2. ServerTypeOK'
    BY <1>1, <1>3, <1>4, <1>5, <2>1 DEF ServerTypeOK
  <2>3. LockTypeOK'
    BY <1>1, <1>5 DEF LockTypeOK
  <2> QED BY <1>1, <1>4, <1>5, <2>2, <2>3, AnsweredType DEF StoreTypeOK
<1>6. CASE /\ \E j \in Queued(r[1]) : operations' = [operations EXCEPT ![j] = MarkDown(@, r)]
           /\ downs' = downs \ {r}
           /\ UNCHANGED <<owner, queue, monitors, active, pc>>
  <2>1. PICK j \in Queued(r[1]) : operations' = [operations EXCEPT ![j] = MarkDown(@, r)]
    BY <1>6
  <2>2. j \in 1..Len(operations) /\ operations[j].kind = "commit"
    BY DEF Queued, OwnedBy
  <2>3. operations[j] \in Operations
    BY <2>2, <1>4, ElementOfSeq DEF ServerTypeOK
  <2>4. operations' \in Seq(Operations)
    BY <1>3, <1>4, <2>1, <2>2, <2>3, ExceptSeq DEF ServerTypeOK
  <2>5. ServerTypeOK'
    BY <1>1, <1>4, <1>6, <2>4 DEF ServerTypeOK
  <2>6. LockTypeOK'
    BY <1>1, <1>6 DEF LockTypeOK
  <2> QED BY <1>1, <1>4, <1>6, <2>5, <2>6, AnsweredType DEF StoreTypeOK
<1>7. CASE /\ Release(Known({r}))
           /\ Answer({}, {}, PromotedBy(Known({r})), {})
           /\ UNCHANGED <<active, operations>>
  <2>1. LockTypeOK'
    BY <1>1, <1>7, ReleaseType DEF LockTypeOK
  <2>2. ServerTypeOK'
    BY <1>1, <1>4, <1>7 DEF ServerTypeOK
  <2> QED BY <1>1, <1>4, <1>7, <2>1, <2>2, AnswerType, AnsweredType DEF StoreTypeOK
<1> QED BY <1>5, <1>6, <1>7 DEF ServeDown

-----------------------------------------------------------------------------
\* The operation a task runs, and what the task holds.
LEMMA ActiveType ==
    ASSUME StoreTypeOK
    PROVE  /\ active.kind = "fetch" => active.from \in Clients /\ active.ids \in SUBSET Ids
           /\ active.kind = "commit" =>
                /\ active \in Commits
                /\ active.data \in DataSets /\ active.clear \in BOOLEAN
                /\ active.attempts \in 1..MaxAttempts
                /\ DOMAIN active.data \subseteq Ids
           /\ worker.phase = "writing" =>
                /\ worker.plan \in DataSets /\ worker.snapshot \in DataSets
                /\ worker.deletes \in SUBSET Ids /\ worker.writes \in DataSets
                /\ worker = [phase |-> "writing", plan |-> worker.plan,
                             snapshot |-> worker.snapshot, deletes |-> worker.deletes,
                             writes |-> worker.writes]
           /\ worker.phase = "restoring" =>
                /\ worker.writes \in DataSets
                /\ worker = [phase |-> "restoring", writes |-> worker.writes]
           /\ worker.phase = "loaded" => worker.entries \in DataSets
           /\ worker.phase = "written" => worker.plan \in DataSets
<1>1. active \in Fetches \union Commits \union {NoOperation} /\ worker \in Workers
  BY DEF StoreTypeOK, ServerTypeOK, Operations
<1>2. active.kind = "fetch" => active.from \in Clients /\ active.ids \in SUBSET Ids
  BY <1>1 DEF Fetches, Commits, NoOperation
<1>3. active.kind = "commit" =>
        /\ active \in Commits
        /\ active.data \in DataSets /\ active.clear \in BOOLEAN
        /\ active.attempts \in 1..MaxAttempts
  BY <1>1 DEF Fetches, Commits, NoOperation
<1>4. \A data \in DataSets : DOMAIN data \subseteq Ids
  BY DEF DataSets
<1>5. worker.phase = "writing" =>
        worker \in [phase : {"writing"}, plan : DataSets, snapshot : DataSets,
                    deletes : SUBSET Ids, writes : DataSets]
  BY <1>1 DEF Workers
<1>6. worker.phase = "restoring" => worker \in [phase : {"restoring"}, writes : DataSets]
  BY <1>1 DEF Workers
<1>7. /\ worker.phase = "loaded" => worker.entries \in DataSets
      /\ worker.phase = "written" => worker.plan \in DataSets
  BY <1>1 DEF Workers
<1> QED BY <1>2, <1>3, <1>4, <1>5, <1>6, <1>7

\* The steps of a task change the task, the backend and the fault counts only.
LEMMA WorkerType ==
    ASSUME TypeOK, KeyStoreAssumption,
           \/ Worker \/ LoadFails \/ RestoreFails \/ \E i \in Ids : WriteFails(i)
    PROVE  TypeOK'
<1> USE TypeParts
<1>1. ASSUME UNCHANGED workerUnchanged, worker' \in Workers,
             persisted' \in [Ids -> Entries], faults' \in 0..MaxFaults, clean' \in BOOLEAN
      PROVE  TypeOK'
  BY <1>1 DEF workerUnchanged, lockVars, clientVars, serverVars, LockTypeOK, ClientTypeOK,
              StoreTypeOK, ServerTypeOK
<1>2. /\ worker \in Workers /\ persisted \in [Ids -> Entries] /\ faults \in 0..MaxFaults
      /\ clean \in BOOLEAN /\ known \subseteq Ids
  BY DEF StoreTypeOK, ServerTypeOK
<1>3. Missing \in Entries
  BY DEF Entries
<1>4. Fault => faults' \in 0..MaxFaults
  BY <1>2 DEF Fault, KeyStoreAssumption
<1>5. [phase |-> "failed"] \in Workers /\ [phase |-> "rollback_failed"] \in Workers
  BY DEF Workers
<1>6. \A writes \in DataSets : [phase |-> "restoring", writes |-> writes] \in Workers
  BY DEF Workers
<1>7. \A plan, snapshot, writes \in DataSets, deletes \in SUBSET Ids :
        [phase |-> "writing", plan |-> plan, snapshot |-> snapshot,
         deletes |-> deletes, writes |-> writes] \in Workers
  BY DEF Workers
<1>8. CASE Load
  <2>1. [i \in active.ids |-> Stored(i)] \in DataSets
    BY <1>8, ActiveType, DataTypes DEF Load
  <2>2. worker' \in Workers
    BY <1>8, <2>1 DEF Load, Workers
  <2> QED BY <1>1, <1>2, <1>8, <2>2 DEF Load
<1>9. CASE Snapshot
  <2>1. active.data \in DataSets /\ DOMAIN active.data \subseteq Ids
    BY <1>9, ActiveType DEF Snapshot
  <2>2. ClearedIds \in SUBSET Ids /\ SnapshotIds \in SUBSET Ids
    BY <1>2, <2>1 DEF ClearedIds, SnapshotIds
  <2> DEFINE snapshot == [i \in SnapshotIds |-> Stored(i)]
             plan == Prepare(active.data, snapshot)
  <2>3. snapshot \in DataSets
    BY <2>2, DataTypes
  <2>4. plan \in DataSets
    BY <2>1, <2>3, DataTypes
  <2>5. worker' \in Workers
    BY <1>7, <1>9, <2>2, <2>3, <2>4 DEF Snapshot
  <2> QED BY <1>1, <1>2, <1>9, <2>5 DEF Snapshot
<1>10. CASE Written
  <2>1. worker.plan \in DataSets
    BY <1>10, ActiveType DEF Written
  <2>2. worker' \in Workers
    BY <1>10, <2>1 DEF Written, Workers
  <2> QED BY <1>1, <1>2, <1>10, <2>2 DEF Written
<1>11. CASE Restored
  BY <1>1, <1>2, <1>5, <1>11 DEF Restored
<1>12. ASSUME NEW i \in Ids, Delete(i) PROVE TypeOK'
  <2>1. persisted' \in [Ids -> Entries]
    BY <1>2, <1>3, <1>12 DEF Delete
  <2>2. worker' = [phase |-> "writing", plan |-> worker.plan, snapshot |-> worker.snapshot,
                   deletes |-> worker.deletes \ {i}, writes |-> worker.writes]
    BY <1>12, ActiveType DEF Delete
  <2>3. worker' \in Workers
    BY <1>7, <1>12, <2>2, ActiveType DEF Delete
  <2> QED BY <1>1, <1>2, <1>12, <2>1, <2>3 DEF Delete
<1>13. ASSUME NEW i \in Ids, Write(i) PROVE TypeOK'
  <2>1. worker.writes \in DataSets /\ i \in DOMAIN worker.writes
    BY <1>13, ActiveType DEF Write
  <2>2. worker.writes[i] \in Entries /\ Without(worker.writes, i) \in DataSets
    BY <2>1, DataTypes
  <2>3. persisted' \in [Ids -> Entries]
    BY <1>2, <1>13, <2>2 DEF Write
  <2>4. worker' = [phase |-> "writing", plan |-> worker.plan, snapshot |-> worker.snapshot,
                   deletes |-> worker.deletes, writes |-> Without(worker.writes, i)]
    BY <1>13, ActiveType DEF Write
  <2>5. worker' \in Workers
    BY <1>7, <1>13, <2>2, <2>4, ActiveType DEF Write
  <2> QED BY <1>1, <1>2, <1>13, <2>3, <2>5 DEF Write
<1>14. ASSUME NEW i \in Ids, Restore(i) PROVE TypeOK'
  <2>1. worker.writes \in DataSets /\ i \in DOMAIN worker.writes
    BY <1>14, ActiveType DEF Restore
  <2>2. worker.writes[i] \in Entries /\ Without(worker.writes, i) \in DataSets
    BY <2>1, DataTypes
  <2>3. persisted' \in [Ids -> Entries]
    BY <1>2, <1>14, <2>2 DEF Restore
  <2>4. worker' = [phase |-> "restoring", writes |-> Without(worker.writes, i)]
    BY <1>14, ActiveType DEF Restore
  <2>5. worker' \in Workers
    BY <1>6, <2>2, <2>4
  <2> QED BY <1>1, <1>2, <1>14, <2>3, <2>5 DEF Restore
<1>15. CASE LoadFails
  BY <1>1, <1>2, <1>4, <1>5, <1>15 DEF LoadFails
<1>16. CASE RestoreFails
  BY <1>1, <1>2, <1>4, <1>5, <1>16 DEF RestoreFails
<1>17. ASSUME NEW i \in Ids, WriteFails(i) PROVE TypeOK'
  <2>1. worker.snapshot \in DataSets /\ worker.writes \in DataSets
    BY <1>17, ActiveType DEF WriteFails
  <2>2. i \in DOMAIN worker.writes => worker.writes[i] \in Entries
    BY <2>1, DataTypes
  <2>3. PICK value \in {persisted[i]} \union
            (IF i \in worker.deletes THEN {Missing}
             ELSE IF worker.deletes = {} /\ i \in DOMAIN worker.writes
             THEN {worker.writes[i]} ELSE {}) :
          persisted' = [persisted EXCEPT ![i] = value]
    BY <1>17 DEF WriteFails
  <2>4. value \in Entries
    BY <1>2, <1>3, <2>2, <2>3
  <2>5. persisted' \in [Ids -> Entries]
    BY <1>2, <2>3, <2>4
  <2>6. worker' \in Workers
    BY <1>6, <1>17, <2>1 DEF WriteFails
  <2> QED BY <1>1, <1>2, <1>4, <1>17, <2>5, <2>6 DEF WriteFails
<1> QED BY <1>8, <1>9, <1>10, <1>11, <1>12, <1>13, <1>14, <1>15, <1>16, <1>17 DEF Worker

\* The end of an operation.
LEMMA FinishType ==
    ASSUME TypeOK, NEW failed, Finish(failed), UNCHANGED completeUnchanged,
           buffer' \in [Clients -> BufferType],
           cache' \in [Ids -> Rows], known' \subseteq Ids,
           faults' \in 0..MaxFaults, committed' \in [Ids -> Entries], spared' \subseteq Ids,
           intruded' \subseteq Clients \X (0..MaxCalls) \X Ids, clean' \in BOOLEAN
    PROVE  TypeOK'
<1> USE TypeParts
<1>1. operations \in Seq(Operations)
  BY DEF StoreTypeOK, ServerTypeOK
<1>2. /\ ServerTypeOK'
      /\ owner' \in [LockKeys -> Clients \union {None}]
      /\ queue' \in [LockKeys -> Seq(Clients)]
      /\ monitors' \subseteq Clients \X LockKeys
      /\ downs' \subseteq Clients \X LockKeys
      /\ pc' \in [Clients -> PCs]
      /\ \A c \in Clients : pc[c] \in {"idle", "calling"} => pc'[c] \in {"idle", "calling"}
  BY <1>1, StartNextType DEF Finish
<1>3. alive' = alive /\ txKey' = txKey /\ inbox' = inbox /\ calls' = calls /\ persisted' = persisted
  BY DEF completeUnchanged
<1>4. LockTypeOK'
  BY <1>2, <1>3 DEF LockTypeOK
<1>5. ClientTypeOK'
  BY <1>2, <1>3, AnsweredType DEF ClientTypeOK
<1>6. StoreTypeOK'
  BY <1>2, <1>3 DEF StoreTypeOK
<1> QED BY <1>4, <1>5, <1>6

LEMMA CompletionType ==
    ASSUME TypeOK, KeyStoreAssumption,
           CompleteFetch \/ CompleteCommit \/ Retry \/ RetryTimer \/ Fail \/ TaskExit
    PROVE  TypeOK'
<1> USE TypeParts
<1>1. /\ cache \in [Ids -> Rows] /\ known \subseteq Ids /\ committed \in [Ids -> Entries]
      /\ spared \subseteq Ids /\ intruded \subseteq Clients \X (0..MaxCalls) \X Ids
      /\ faults \in 0..MaxFaults /\ clean \in BOOLEAN /\ ServerTypeOK
      /\ persisted \in [Ids -> Entries] /\ buffer \in [Clients -> BufferType]
  BY DEF StoreTypeOK, ClientTypeOK
<1>2. CASE CompleteFetch
  <2> DEFINE entries == worker.entries
  <2>1. entries \in DataSets
    BY <1>2, ActiveType DEF CompleteFetch
  <2>2. cache' \in [Ids -> Rows] /\ known' \subseteq Ids
    BY <1>1, <1>2, <2>1, DataTypes DEF CompleteFetch
  <2>3. buffer' \in [Clients -> BufferType]
    <3>1. \A b \in BufferType : CacheFetched(b, DOMAIN entries, entries) \in BufferType
      <4>1. \A i \in DOMAIN entries : entries[i] \in Rows
        BY <2>1, DataTypes DEF Rows
      <4>2. Missing \in Rows
        BY DEF Rows, Entries
      <4> QED BY <4>1, <4>2 DEF CacheFetched, BufferType
    <3>2. \A c \in Clients : buffer[c] \in BufferType
      BY <1>1
    <3>3. CASE buffer' = [buffer EXCEPT ![active.from] =
                            CacheFetched(@, DOMAIN entries, entries)]
      BY <1>1, <3>1, <3>2, <3>3
    <3>4. CASE buffer' = buffer
      BY <1>1, <3>4
    <3> QED BY <1>2, <3>3, <3>4 DEF CompleteFetch
  <2> QED BY <1>1, <1>2, <2>2, <2>3, FinishType DEF CompleteFetch
<1>3. CASE CompleteCommit
  <2> DEFINE plan == worker.plan
             kept == IF active.clear THEN Cleared ELSE committed
             ids  == IF active.clear THEN {} ELSE known
  <2>1. plan \in DataSets
    BY <1>3, ActiveType DEF CompleteCommit
  <2>2. CacheBase \in [Ids -> Rows]
    BY <1>1 DEF CacheBase, NoRows, Rows
  <2>3. kept \in [Ids -> Entries]
    BY <1>1 DEF Entries, Cleared
  <2>4. cache' = Overlay(CacheBase, plan) /\ committed' = Overlay(kept, plan)
        /\ known' \subseteq Ids
    BY <1>1, <1>3 DEF CompleteCommit
  <2>6. spared' \subseteq Ids
    BY <1>1, <1>3 DEF CompleteCommit, Spared
  <2>7. intruded' \subseteq Clients \X (0..MaxCalls) \X Ids
    <3>1. DOMAIN plan \subseteq Ids
      BY <2>1 DEF DataSets
    <3>2. Readers \subseteq Clients /\ Intrudes \subseteq Ids
      BY <3>1 DEF Readers, Intrudes
    <3>3. \A c \in Clients : calls[c] \in 0..MaxCalls
      BY DEF ClientTypeOK
    <3>4. Intrusions \subseteq Clients \X (0..MaxCalls) \X Ids
      BY <3>2, <3>3 DEF Intrusions
    <3>5. intruded' = intruded \union Intrusions
      BY <1>3 DEF CompleteCommit
    <3> QED BY <1>1, <3>4, <3>5
  <2>5. cache' \in [Ids -> Rows] /\ committed' \in [Ids -> Entries]
    <3> HIDE DEF kept, plan
    <3> QED BY <2>1, <2>2, <2>3, <2>4, DataTypes
  <2> QED BY <1>1, <1>3, <2>4, <2>5, <2>6, <2>7, FinishType DEF CompleteCommit
<1>4. CASE Retry
  <2>1. active \in Commits /\ active.attempts \in 1..MaxAttempts /\ active.attempts > 1
    BY <1>4, ActiveType DEF Retry, MayRetry
  <2>2. active.attempts - 1 \in 1..MaxAttempts
    BY <2>1, KeyStoreAssumption
  <2>3. active' \in Commits
    BY <1>4, <2>1, <2>2 DEF Retry, Commits
  <2>4. ServerTypeOK'
    BY <1>1, <1>4, <2>3 DEF Retry, ServerTypeOK, Operations, Workers, NoWorker
  <2> QED BY <1>1, <1>4, <2>4 DEF Retry, completeUnchanged, lockVars, clientVars,
             LockTypeOK, ClientTypeOK, StoreTypeOK
<1>5. CASE RetryTimer
  BY <1>1, <1>5 DEF RetryTimer, Started, Workers, lockVars, clientVars, serverVars,
       LockTypeOK, ClientTypeOK, StoreTypeOK, ServerTypeOK
<1>6. CASE Fail
  BY <1>1, <1>6, FinishType DEF Fail
<1>7. CASE TaskExit
  <2>1. faults' \in 0..MaxFaults /\ clean' \in BOOLEAN
    BY <1>1, <1>7 DEF TaskExit, Fault, KeyStoreAssumption
  <2> QED BY <1>1, <1>7, <2>1, FinishType DEF TaskExit
<1> QED BY <1>2, <1>3, <1>4, <1>5, <1>6, <1>7

LEMMA InitType == ASSUME Init, TransactionsAssumption, KeyStoreAssumption PROVE TypeOK
<1> USE TypeParts DEF Init
<1>1. StoreTypeOK
  BY DEF StoreTypeOK, ServerTypeOK, NoRows, Rows, NoWorker, Workers, KeyStoreAssumption
<1> QED BY <1>1, InitialType

\* One step keeps the types.
LEMMA NextType ==
    ASSUME TypeOK, [Next]_vars, TransactionsAssumption, KeyStoreAssumption
    PROVE  TypeOK'
<1>1. CASE Callers
  BY <1>1, CallersType DEF Callers
<1>2. CASE Server
  BY <1>2, LockHandlersType, DataHandlersType, ServeDownType, CompletionType DEF Server
<1>3. CASE Worker
  BY <1>3, WorkerType
<1>4. CASE Faults
  BY <1>4, WorkerType, CompletionType DEF Faults
<1>5. CASE Rest \/ UNCHANGED vars
  BY <1>5, TypeParts DEF Rest, vars, lockVars, clientVars, storeVars, LockTypeOK, ClientTypeOK,
       StoreTypeOK, ServerTypeOK
<1> QED BY <1>1, <1>2, <1>3, <1>4, <1>5 DEF Next

\* Every variable keeps its type, whatever the processes, keys, ids and bounds.
THEOREM TypeCorrect == Spec => []TypeOK
<1>1. Init => TypeOK
  BY InitType, TransactionsAssumption, KeyStoreAssumption
<1>2. TypeOK /\ [Next]_vars => TypeOK'
  BY NextType, TransactionsAssumption, KeyStoreAssumption
<1> QED BY <1>1, <1>2, PTL DEF Spec

-----------------------------------------------------------------------------
\* An operation whose references are of dead processes.
DeadRefs(op) == op.kind = "commit" => \A r \in op.down : r[1] \notin alive

LEMMA CarriedParts ==
    /\ CarriedAreDead <=> /\ DeadRefs(active)
                          /\ \A j \in 1..Len(operations) : DeadRefs(operations[j])
    /\ CarriedAreDead' <=> /\ DeadRefs(active)'
                           /\ \A j \in 1..Len(operations') : DeadRefs(operations[j])'
BY DEF CarriedAreDead, Held, DeadRefs, NoOperation

\* The locks released with the end of operations are of dead processes, so the
\* lock invariant stays; what remains queued is what was.
LEMMA StartNextLocks ==
    ASSUME TypeOK, LockInv, NoneAssumption, NEW q \in Seq(Operations), NEW ended, NEW failed,
           \A j \in 1..Len(q) : DeadRefs(q[j]), \A op \in ended : DeadRefs(op),
           StartNext(q, ended, failed), NEW S \in SUBSET Clients, Unsent(S),
           alive' = alive, txKey' = txKey
    PROVE  LockInv' /\ CarriedAreDead'
<1> USE TypeParts
<1> DEFINE done == {q[j] : j \in Skipped(q)}
           refs == DownOf(done \union ended)
<1>1. \A r \in refs : r[1] \notin alive
  <2>1. \A op \in done \union ended : DeadRefs(op)
    BY DEF Skipped
  <2> QED BY <2>1 DEF DownOf, Known, DeadRefs
<1>2. \A k \in LockKeys : <<owner[k], k>> \in refs => owner[k] \notin alive
  BY <1>1
<1>3. PICK ok, err : Release(refs) /\ Answer(ok, err, PromotedBy(refs), {})
  BY DEF StartNext
<1>4. LockInv'
  BY <1>2, <1>3, ReleaseKeepsLockInv
<1>5. CarriedAreDead'
  <2>1. CASE active' = NoOperation /\ operations' = << >>
    BY <2>1, CarriedParts DEF DeadRefs, NoOperation
  <2>2. ASSUME NEW next \in Starting(q), active' = q[next],
               operations' = SubSeq(q, next + 1, Len(q))
        PROVE  CarriedAreDead'
    <3>1. next \in 1..Len(q)
      BY DEF Starting
    <3> DEFINE rest == SubSeq(q, next + 1, Len(q))
    <3>a. \A i \in 1..Len(rest) : \E j \in 1..Len(q) : rest[i] = q[j]
      BY ONLY <3>1, q \in Seq(Operations), Suffix
    <3>b. operations' = rest
      BY ONLY <2>2
    <3> HIDE DEF rest
    <3>2. \A i \in 1..Len(operations') : \E j \in 1..Len(q) : operations'[i] = q[j]
      BY ONLY <3>a, <3>b
    <3>3. DeadRefs(active)'
      BY <2>2, <3>1 DEF DeadRefs
    <3>4. ASSUME NEW i \in 1..Len(operations') PROVE DeadRefs(operations[i])'
      <4>1. PICK j \in 1..Len(q) : operations'[i] = q[j]
        BY <3>2
      <4>2. DeadRefs(q[j])
        BY <4>1
      <4> QED BY <4>1, <4>2 DEF DeadRefs
    <3> QED BY <3>3, <3>4, CarriedParts
  <2> QED BY <2>1, <2>2 DEF StartNext
<1> QED BY <1>4, <1>5

\* Steps that leave the queue, the active operation and the living alone.
LEMMA CarriedUnchanged ==
    ASSUME CarriedAreDead, UNCHANGED <<active, operations>>, alive' \subseteq alive
    PROVE  CarriedAreDead'
BY CarriedParts DEF DeadRefs

LEMMA CallersLocks ==
    ASSUME Locking, TransactionsAssumption, KeyStoreAssumption, NEW c \in Clients,
           Caller(c) \/ Commit(c) \/ Unlock(c) \/ (MayClear /\ Clearing(c))
    PROVE  LockInv' /\ CarriedAreDead'
<1> USE TypeParts DEF Locking
<1>1. UNCHANGED storeVars /\ alive' \subseteq alive
  BY DEF Caller, Commit, Unlock, Clearing, Get, GetInside, SetInside, Begin, PlainCall, Put, Raise,
         End, SendCommit, ClearInside, Die, Exit
<1>2. CarriedAreDead'
  BY <1>1, CarriedUnchanged DEF storeVars
<1>3. \A ids \in SUBSET Ids : [op |-> "fetch", ids |-> ids] \in Requests
  BY DEF Requests
<1>4. ASSUME NEW k \in LockKeys, Begin(c, k) PROVE LockInv'
  BY <1>4, CallerKeepsLockInv
<1>5. ASSUME NEW ids \in ReadSets, Get(c, ids) PROVE LockInv'
  <2> DEFINE request == [op |-> "fetch", ids |-> Uncached(ids)]
  <2>1. request \in Requests /\ request.op \notin {"lock", "unlock"}
    BY <1>3 DEF Uncached, KeyStoreAssumption
  <2>2. PlainCall(c, request)
    BY <1>5 DEF Get
  <2> HIDE DEF request
  <2> QED BY <2>1, <2>2, CallerKeepsLockInv
<1>6. ASSUME NEW ids \in ReadSets, GetInside(c, ids) PROVE LockInv'
  <2>1. pc[c] = "body" /\ UNCHANGED lockVars /\ alive' = alive /\ txKey' = txKey
    BY <1>6 DEF GetInside, At
  <2>2. CASE UNCHANGED <<pc, inbox>>
    BY <2>1, <2>2, MoveKeepsLockInv DEF In, LockInv, LockRequests
  <2>3. CASE Call(c, [op |-> "fetch", ids |-> MissingIds(buffer[c], ids)], "fetching")
    <3>1. c \in alive
      BY <1>6 DEF GetInside, At
    <3> QED BY <2>1, <2>3, <3>1, MoveKeepsLockInv DEF Call, In, Inside, ClientTypeOK
  <2> QED BY <1>6, <2>2, <2>3 DEF GetInside
<1>7. ASSUME NEW i \in Ids, NEW value \in Entries, SetInside(c, i, value) PROVE LockInv'
  BY <1>7, CallerKeepsLockInv DEF SetInside
<1>8. ASSUME NEW data \in PlainSets, PlainCall(c, [op |-> "set", data |-> data]) PROVE LockInv'
  <2> DEFINE request == [op |-> "set", data |-> data]
  <2>1. request \in Requests /\ request.op \notin {"lock", "unlock"}
    BY DEF Requests, KeyStoreAssumption
  <2>2. PlainCall(c, request)
    BY <1>8
  <2> HIDE DEF request
  <2> QED BY <2>1, <2>2, CallerKeepsLockInv
<1>9. ASSUME PlainCall(c, [op |-> "clear"]) PROVE LockInv'
  <2> DEFINE request == [op |-> "clear"]
  <2>1. request \in Requests /\ request.op \notin {"lock", "unlock"}
    BY DEF Requests
  <2>2. PlainCall(c, request)
    BY <1>9
  <2> HIDE DEF request
  <2> QED BY <2>1, <2>2, CallerKeepsLockInv
<1>10. ASSUME Raise(c) \/ SendCommit(c) \/ End(c) \/ ClearInside(c) PROVE LockInv'
  BY <1>10, CallerKeepsLockInv
<1>11. ASSUME Die(c) PROVE LockInv'
  BY <1>11, DieKeepsLockInv
<1> QED BY <1>2, <1>4, <1>5, <1>6, <1>7, <1>8, <1>9, <1>10, <1>11
        DEF Caller, Commit, Unlock, Clearing

\* What a request is turned into, or the answer to it.
LEMMA ServeLocks ==
    ASSUME Locking, NoneAssumption, NEW c \in Clients, NEW op \in Operations, NEW name,
           DeadRefs(op), Serve(c, name, op)
    PROVE  LockInv' /\ CarriedAreDead'
<1> USE TypeParts DEF Locking
<1>1. Unsent({c}) /\ alive' = alive /\ txKey' = txKey
  BY DEF Serve, Consumed, Unsent, ClientTypeOK
<1>2. operations \in Seq(Operations)
  BY DEF StoreTypeOK, ServerTypeOK
<1>3. /\ Append(operations, op) \in Seq(Operations)
      /\ Len(Append(operations, op)) = Len(operations) + 1
      /\ \A j \in 1..Len(operations) : Append(operations, op)[j] = operations[j]
      /\ Append(operations, op)[Len(operations) + 1] = op
      /\ Len(operations) \in Nat
  BY <1>2, AppendProperties
<1>4. \A j \in 1..Len(Append(operations, op)) : DeadRefs(Append(operations, op)[j])
  <2> SUFFICES ASSUME NEW j \in 1..Len(Append(operations, op))
               PROVE  DeadRefs(Append(operations, op)[j])
    OBVIOUS
  <2>1. CASE j \in 1..Len(operations)
    BY <1>3, <2>1, CarriedParts
  <2>2. CASE j = Len(operations) + 1
    BY <1>3, <2>2
  <2> QED BY <1>3, <2>1, <2>2
<1>5. LockTypeOK /\ ClientTypeOK /\ LockInv
  OBVIOUS
<1>6. ASSUME UNCHANGED lockVars, NEW ok, NEW err, Answer(ok, err, {}, {}) PROVE LockInv'
  <2>1. Release({}) /\ PromotedBy({}) = {}
    BY <1>5, <1>6, ReleaseNothing
  <2>2. Answer(ok, err, PromotedBy({}), {})
    BY <1>6, <2>1
  <2> QED BY <1>1, <1>5, <2>1, <2>2, ReleaseKeepsLockInv
<1>7. CASE Answer({}, {c}, {}, {}) /\ UNCHANGED <<lockVars, active, operations, worker>>
  BY <1>1, <1>6, <1>7, CarriedUnchanged
<1>8. CASE StartNext(Append(operations, op), {}, FALSE)
  <2> DEFINE q == Append(operations, op)
             none == {}
             clients == {c}
  <2>1. q \in Seq(Operations) /\ \A j \in 1..Len(q) : DeadRefs(q[j])
    BY <1>3, <1>4
  <2>2. StartNext(q, none, FALSE) /\ \A o \in none : DeadRefs(o)
    BY <1>8
  <2>3. clients \in SUBSET Clients /\ Unsent(clients)
    BY <1>1
  <2> HIDE DEF q, none, clients
  <2> QED BY <1>1, <1>5, <2>1, <2>2, <2>3, StartNextLocks
<1>9. CASE operations' = Append(operations, op) /\ UNCHANGED <<lockVars, active, worker, pc>>
  <2>1. Answer({}, {}, {}, {})
    BY <1>9, AnswerNobody DEF ClientTypeOK
  <2>2. LockInv'
    BY <1>6, <1>9, <2>1
  <2>3. CarriedAreDead'
    BY <1>1, <1>4, <1>9, CarriedParts DEF DeadRefs
  <2> QED BY <2>2, <2>3
<1> QED BY <1>7, <1>8, <1>9 DEF Serve, EnqueueOperation

\* A :DOWN releases the lock, or stays with the commit that keeps it.
LEMMA ServeDownLocks ==
    ASSUME Locking, NoneAssumption, NEW r \in downs, ServeDown(r)
    PROVE  LockInv' /\ CarriedAreDead'
<1> USE TypeParts DEF Locking
<1> DEFINE c == r[1]
<1>1. alive' = alive /\ txKey' = txKey /\ Unsent({})
  BY DEF ServeDown, Unsent
<1>2. c \notin alive
  BY DEF LockInv, DownsAreDead
<1>3. DeadRefs(active) /\ \A j \in 1..Len(operations) : DeadRefs(operations[j])
  BY CarriedParts
<1>4. ASSUME NEW op \in Operations, op.kind = "commit" PROVE DeadRefs(MarkDown(op, r))'
  <2>1. MarkDown(op, r).down = {r}
    BY <1>4 DEF MarkDown, Operations, Commits, Fetches
  <2> QED BY <1>1, <1>2, <2>1 DEF DeadRefs, MarkDown
<1>5. active \in Operations \union {NoOperation} /\ operations \in Seq(Operations)
  BY DEF StoreTypeOK, ServerTypeOK
<1>6. ASSUME downs' = downs \ {r}, UNCHANGED <<owner, queue, monitors, pc>> PROVE LockInv'
  BY <1>1, <1>6 DEF ServeDown, LockInv, OwnerHolds, WaitersWait, LockRequests, DownsAreDead, In
<1>7. CASE OwnedBy(active, c)
  <2>1. active' = MarkDown(active, r) /\ operations' = operations /\ active \in Operations
        /\ active.kind = "commit"
    BY <1>5, <1>7 DEF ServeDown, OwnedBy, NoOperation
  <2>2. DeadRefs(active)'
    BY <1>4, <2>1 DEF DeadRefs
  <2>3. CarriedAreDead'
    BY <1>1, <1>3, <2>1, <2>2, CarriedParts DEF DeadRefs
  <2> QED BY <1>6, <1>7, <2>3 DEF ServeDown
<1>8. CASE ~OwnedBy(active, c) /\ Queued(c) # {}
  <2>1. PICK j \in Queued(c) : operations' = [operations EXCEPT ![j] = MarkDown(@, r)]
    BY <1>8 DEF ServeDown
  <2>2. j \in 1..Len(operations) /\ operations[j] \in Operations /\ operations[j].kind = "commit"
    BY <1>5, ElementOfSeq DEF Queued, OwnedBy
  <2>3. /\ Len(operations') = Len(operations)
        /\ operations'[j] = MarkDown(operations[j], r)
        /\ \A i \in 1..Len(operations) \ {j} : operations'[i] = operations[i]
    BY <1>5, <2>1, <2>2
  <2>4. ASSUME NEW i \in 1..Len(operations') PROVE DeadRefs(operations[i])'
    <3>1. CASE i = j
      BY <1>4, <2>2, <2>3, <3>1 DEF DeadRefs
    <3>2. CASE i # j
      BY <1>1, <1>3, <2>3, <3>2 DEF DeadRefs
    <3> QED BY <3>1, <3>2
  <2>5. active' = active
    BY <1>8 DEF ServeDown
  <2>6. CarriedAreDead'
    BY <1>1, <1>3, <2>4, <2>5, CarriedParts DEF DeadRefs
  <2> QED BY <1>6, <1>8, <2>6 DEF ServeDown
<1>9. CASE ~OwnedBy(active, c) /\ Queued(c) = {}
  <2> DEFINE refs == Known({r})
  <2>1. /\ Release(refs) /\ Answer({}, {}, PromotedBy(refs), {})
        /\ UNCHANGED <<active, operations>>
    BY <1>9 DEF ServeDown
  <2>2. \A k \in LockKeys : <<owner[k], k>> \in refs => owner[k] \notin alive
    BY <1>2 DEF Known
  <2>3. CarriedAreDead'
    BY <1>1, <2>1, CarriedUnchanged
  <2> DEFINE none == {}
  <2>4. none \in SUBSET Clients /\ Unsent(none) /\ Answer(none, none, PromotedBy(refs), none)
    BY <1>1, <2>1
  <2> HIDE DEF refs, none
  <2>5. LockInv'
    BY <1>1, <2>1, <2>2, <2>4, ReleaseKeepsLockInv
  <2> QED BY <2>3, <2>5
<1> QED BY <1>7, <1>8, <1>9

\* The end of an operation: what it carries is released, and the next one starts.
LEMMA FinishLocks ==
    ASSUME Locking, NoneAssumption, NEW failed, Finish(failed), UNCHANGED <<alive, txKey, inbox>>
    PROVE  LockInv' /\ CarriedAreDead'
<1> USE TypeParts DEF Locking
<1> DEFINE ended == {active}
           none  == {}
<1>1. operations \in Seq(Operations)
  BY DEF StoreTypeOK, ServerTypeOK
<1>2. /\ \A j \in 1..Len(operations) : DeadRefs(operations[j])
      /\ \A op \in ended : DeadRefs(op)
  BY CarriedParts
<1>3. none \in SUBSET Clients /\ Unsent(none)
  BY DEF Unsent
<1>4. StartNext(operations, ended, failed)
  BY DEF Finish
<1> HIDE DEF ended, none
<1> QED BY <1>1, <1>2, <1>3, <1>4, StartNextLocks

\* The steps that touch no lock, no process and no reference.
LEMMA QuietLocks ==
    ASSUME LockInv, CarriedAreDead, UNCHANGED <<lockVars, alive, pc, txKey, inbox, operations>>,
           DeadRefs(active)'
    PROVE  LockInv' /\ CarriedAreDead'
<1>1. LockInv'
  BY DEF LockInv, OwnerHolds, WaitersWait, LockRequests, DownsAreDead, In, lockVars
<1>2. CarriedAreDead'
  BY CarriedParts DEF DeadRefs
<1> QED BY <1>1, <1>2

\* The handlers of the server.
LEMMA ServerLocks ==
    ASSUME Locking, NoneAssumption, TransactionsAssumption, KeyStoreAssumption, Server
    PROVE  LockInv' /\ CarriedAreDead'
<1> USE TypeParts DEF Locking
<1>1. ASSUME NEW c \in Clients, ServeLock(c) \/ ServeUnlock(c) PROVE LockInv' /\ CarriedAreDead'
  <2>1. UNCHANGED <<active, operations>> /\ alive' = alive
    BY <1>1 DEF ServeLock, ServeUnlock, HandleLock, HandleUnlock, storeVars
  <2>2. LockInv'
    BY <1>1, HandleLockKeepsLockInv, HandleUnlockKeepsLockInv DEF ServeLock, ServeUnlock
  <2> QED BY <2>1, <2>2, CarriedUnchanged
<1>2. \A c \in Clients : inbox[c] \in Requests
  BY DEF ClientTypeOK
<1>3. ASSUME NEW c \in Clients, ServeFetch(c) PROVE LockInv' /\ CarriedAreDead'
  <2> DEFINE op == NewFetch(c, inbox[c].ids)
  <2>1. inbox[c].ids \in SUBSET Ids
    BY <1>2, <1>3 DEF ServeFetch, Serve, Received, Requests
  <2>2. op \in Operations /\ DeadRefs(op)
    BY <2>1 DEF NewFetch, Operations, Fetches, DeadRefs
  <2>3. Serve(c, "fetch", op)
    BY <1>3 DEF ServeFetch
  <2> HIDE DEF op
  <2> QED BY <2>2, <2>3, ServeLocks
<1>4. ASSUME NEW c \in Clients, NEW name, NEW data \in DataSets, NEW clear \in BOOLEAN,
             NEW txOwner \in Clients \union {None},
             Serve(c, name, NewCommit(c, data, clear, txOwner))
      PROVE  LockInv' /\ CarriedAreDead'
  <2> DEFINE op == NewCommit(c, data, clear, txOwner)
  <2>1. op \in Operations /\ DeadRefs(op)
    BY DEF NewCommit, Operations, Commits, DeadRefs, KeyStoreAssumption
  <2>2. Serve(c, name, op)
    BY <1>4
  <2> HIDE DEF op
  <2> QED BY <2>1, <2>2, ServeLocks
<1>5. ASSUME NEW c \in Clients, ServeSet(c) \/ ServeClear(c) \/ ServeCommit(c)
      PROVE  LockInv' /\ CarriedAreDead'
  <2>1. inbox[c].op \in {"set", "commit"} => inbox[c].data \in DataSets
    BY <1>2 DEF Requests
  <2>2. inbox[c].op = "commit" => inbox[c].clear \in BOOLEAN
    BY <1>2 DEF Requests
  <2>3. CASE ServeSet(c)
    BY <1>4, <2>1, <2>3 DEF ServeSet, Serve, Received
  <2>4. CASE ServeClear(c)
    BY <1>4, <2>4, NoDataType DEF ServeClear
  <2>5. CASE ServeCommit(c)
    BY <1>4, <2>1, <2>2, <2>5 DEF ServeCommit, Serve, Received
  <2> QED BY <1>5, <2>3, <2>4, <2>5
<1>6. ASSUME NEW r \in downs, ServeDown(r) PROVE LockInv' /\ CarriedAreDead'
  BY <1>6, ServeDownLocks
<1>7. CASE CompleteFetch \/ CompleteCommit \/ Fail
  BY <1>7, FinishLocks DEF CompleteFetch, CompleteCommit, Fail, completeUnchanged
<1>8. CASE Retry
  <2>1. active \in Commits
    BY <1>8, ActiveType DEF Retry, MayRetry
  <2>2. active'.down = active.down
    BY <1>8, <2>1 DEF Retry, Commits
  <2>3. active.kind = "commit" /\ DeadRefs(active)
    BY <1>8, CarriedParts DEF Retry, MayRetry
  <2>4. alive' = alive
    BY <1>8 DEF Retry, completeUnchanged
  <2>5. DeadRefs(active)'
    BY <2>2, <2>3, <2>4 DEF DeadRefs
  <2> QED BY <1>8, <2>4, <2>5, QuietLocks DEF Retry, lockVars, clientVars
<1>9. CASE RetryTimer
  BY <1>9, CarriedParts, QuietLocks DEF RetryTimer, DeadRefs, lockVars, clientVars, serverVars
<1> QED BY <1>1, <1>3, <1>5, <1>6, <1>7, <1>8, <1>9 DEF Server

\* The steps of a task, and its failures.
LEMMA TaskLocks ==
    ASSUME Locking, NoneAssumption, Worker \/ Faults
    PROVE  LockInv' /\ CarriedAreDead'
<1> USE TypeParts DEF Locking
<1>1. ASSUME UNCHANGED workerUnchanged PROVE LockInv' /\ CarriedAreDead'
  <2>1. UNCHANGED <<lockVars, alive, pc, txKey, inbox, operations, active>>
    BY <1>1 DEF workerUnchanged, clientVars, serverVars
  <2>2. DeadRefs(active)'
    BY <2>1, CarriedParts DEF DeadRefs
  <2> QED BY <2>1, <2>2, QuietLocks
<1>2. CASE Worker
  BY <1>1, <1>2 DEF Worker, Load, Snapshot, Written, Restored, Delete, Write, Restore
<1>3. CASE LoadFails \/ RestoreFails \/ \E i \in Ids : WriteFails(i)
  BY <1>1, <1>3 DEF LoadFails, RestoreFails, WriteFails
<1>4. CASE TaskExit
  BY <1>4, FinishLocks DEF TaskExit, completeUnchanged
<1> QED BY <1>2, <1>3, <1>4 DEF Faults

LEMMA InitLocks ==
    ASSUME Init
    PROVE  LockInv /\ CarriedAreDead
<1>1. LockInv
  BY InitialLocks DEF Init
<1>2. CarriedAreDead
  BY DEF Init, CarriedAreDead, Held, NoOperation
<1> QED BY <1>1, <1>2

LEMMA NextLocks ==
    ASSUME Locking, [Next]_vars, NoneAssumption, TransactionsAssumption, KeyStoreAssumption
    PROVE  LockInv' /\ CarriedAreDead'
<1>1. CASE Callers
  BY <1>1, CallersLocks DEF Callers
<1>2. CASE Server
  BY <1>2, ServerLocks
<1>3. CASE Worker \/ Faults
  BY <1>3, TaskLocks
<1>4. CASE Rest \/ UNCHANGED vars
  BY <1>4, QuietLocks, CarriedParts
     DEF Rest, vars, clientVars, storeVars, Locking, DeadRefs
<1> QED BY <1>1, <1>2, <1>3, <1>4 DEF Next

\* The lock table, the callers and the mailbox always agree, whatever dies or
\* fails: lock_manager.ex with the handlers of key_store.ex that use it.
THEOREM LocksAgree == Spec => []Locking
<1>1. Init => Locking
  BY InitType, InitLocks, TransactionsAssumption, KeyStoreAssumption DEF Locking
<1>2. Locking /\ [Next]_vars => Locking'
  BY NextType, NextLocks, NoneAssumption, TransactionsAssumption, KeyStoreAssumption DEF Locking
<1> QED BY <1>1, <1>2, PTL DEF Spec

\* Transactions on one key exclude each other (transaction/3), for any number
\* of processes, keys and ids, queue bound, retries and faults.
THEOREM TransactionsExclude == Spec => []MutualExclusion
<1>1. Locking => MutualExclusion
  BY DEF Locking, LockInv, OwnerHolds, MutualExclusion
<1> QED BY <1>1, LocksAgree, PTL

-----------------------------------------------------------------------------
(***************************************************************************)
(* Commits.  First locks: a transaction's commit has its lock until it     *)
(* ends, and the lock of a dead process is given up.  Then what commits    *)
(* do: the cache shows those that were applied, and the backend holds each *)
(* of them whole.  Last: what a transaction has read stays so but for what *)
(* is set outside transactions, and the store implements SerialStore.      *)
(***************************************************************************)
\* The inductive invariant, on top of Locking.

\* The lock table, the monitors and the places of the owners agree.
TableAgrees ==
    /\ \A r \in monitors : owner[r[2]] = r[1]
    /\ \A k \in LockKeys : owner[k] # None =>
          /\ <<owner[k], k>> \in monitors
          /\ txKey[owner[k]] = k
          /\ pc[owner[k]] \notin {"idle", "calling"}
    /\ downs \subseteq monitors

\* A request on the way is from a process that waits for its answer; a
\* transaction's commit is sent by the owner of its key.
AsksInTurn ==
    \A c \in Clients :
        /\ inbox[c].op = "unlock" => inbox[c].key = txKey[c]
        /\ inbox[c].op = "fetch" => pc[c] \in {"fetching", "calling"}
        /\ inbox[c].op \in {"set", "clear"} => pc[c] = "calling"
        /\ inbox[c].op = "commit" => pc[c] = "committing" /\ owner[txKey[c]] = c

\* What the server holds is for a process that waits for it, and carries only
\* references of the transaction it ends.
Placed(op) ==
    /\ op.kind = "fetch" => pc[op.from] \in {"fetching", "calling"}
    /\ op.kind = "commit" =>
          /\ op.owner = None => pc[op.from] = "calling"
          /\ op.owner # None => /\ op.owner = op.from
                                /\ pc[op.from] = "committing"
                                /\ owner[txKey[op.from]] = op.from
          /\ \A r \in op.down : r[1] = op.owner

Taken(op) == inbox[op.from] = NoRequest

AllPlaced ==
    /\ active # NoOperation => Placed(active) /\ Taken(active)
    /\ \A j \in 1..Len(operations) : Placed(operations[j]) /\ Taken(operations[j])

\* No process has two operations.
OneEach ==
    \A j \in 1..Len(operations) :
        /\ active # NoOperation => active.from # operations[j].from
        /\ \A i \in 1..Len(operations) :
              operations[i].from = operations[j].from => i = j

\* A task works on the active operation.
WorkerBusy == worker.phase # "idle" => active # NoOperation

Holding == TableAgrees /\ AsksInTurn /\ AllPlaced /\ OneEach /\ WorkerBusy /\ NoLeakedLock

-----------------------------------------------------------------------------
\* The empty commits at the head of a queue are 1..n for some n; the operation
\* after them, if there is one, starts.
LEMMA SkippedPrefix ==
    ASSUME NEW q \in Seq(Operations)
    PROVE  /\ Starting(q) = {} => Skipped(q) = 1..Len(q)
           /\ \A next \in Starting(q) : /\ next \in 1..Len(q)
                                         /\ Skipped(q) = 1..(next - 1)
<1>1. Len(q) \in Nat /\ Skipped(q) \subseteq 1..Len(q)
  BY DEF Skipped
<1>0. ASSUME NEW m \in Nat PROVE IsFiniteSet(1..m) /\ Cardinality(1..m) = m
  <2>1. m \in Int /\ 1 \in Int /\ (1 > m => m = 0)
    OBVIOUS
  <2>2. IsFiniteSet(1..m) /\ Cardinality(1..m) = IF 1 > m THEN 0 ELSE m - 1 + 1
    BY <2>1, FS_Interval
  <2> QED BY <2>1, <2>2
<1>2. IsFiniteSet(1..Len(q)) /\ Cardinality(1..Len(q)) = Len(q)
  BY <1>0, <1>1
<1>3. /\ IsFiniteSet(Skipped(q)) /\ Cardinality(Skipped(q)) <= Len(q)
      /\ Cardinality(Skipped(q)) \in Nat
  BY <1>1, <1>2, FS_Subset, FS_CardinalityType
<1>4. PICK n \in 0..Len(q) : n = Cardinality(Skipped(q))
  BY <1>1, <1>3
<1>5. ASSUME NEW j \in Skipped(q) PROVE j \in 1..n
  <2>1. j \in Nat /\ 1..j \subseteq Skipped(q)
    BY <1>1 DEF Skipped
  <2>2. Cardinality(1..j) = j
    BY <2>1, <1>0
  <2>3. Cardinality(1..j) <= Cardinality(Skipped(q))
    BY <2>1, <1>3, FS_Subset
  <2> QED BY <1>1, <1>4, <2>1, <2>2, <2>3
<1>6. Skipped(q) = 1..n
  <2>1. IsFiniteSet(1..n) /\ Cardinality(1..n) = n
    BY <1>0, <1>1
  <2> QED BY <1>4, <1>5, <2>1, FS_Subset
<1>7. ASSUME n < Len(q) PROVE ~NothingToDo(q[n + 1])
  <2> SUFFICES ASSUME NothingToDo(q[n + 1]) PROVE FALSE
    OBVIOUS
  <2>1. \A i \in 1..(n + 1) : NothingToDo(q[i])
    BY <1>1, <1>6 DEF Skipped
  <2>2. n + 1 \in Skipped(q)
    BY <1>1, <1>7, <2>1 DEF Skipped
  <2> QED BY <1>1, <1>6, <2>2
<1>8. Starting(q) = {} => n = Len(q)
  <2>1. n < Len(q) => n + 1 \in Starting(q)
    BY <1>1, <1>6, <1>7 DEF Starting
  <2> QED BY <1>1, <2>1
<1>9. ASSUME NEW next \in Starting(q)
      PROVE  next \in 1..Len(q) /\ Skipped(q) = 1..(next - 1)
  <2>1. next \in 1..Len(q) /\ ~NothingToDo(q[next]) /\ 1..(next - 1) \subseteq Skipped(q)
    BY DEF Starting
  <2>2. next \notin Skipped(q)
    BY <2>1, <1>1 DEF Skipped
  <2>3. next = n + 1
    <3>1. next > n
      BY <2>1, <2>2, <1>1, <1>6
    <3>2. next > n + 1 => n + 1 \in 1..(next - 1)
      BY <1>1, <2>1
    <3> QED BY <1>1, <1>6, <2>1, <3>1, <3>2
  <2> QED BY <1>1, <1>6, <2>1, <2>3
<1> QED BY <1>6, <1>8, <1>9

\* What an operation asks of the references it carries.
LEMMA CarriedOf ==
    ASSUME NEW op \in Operations, Placed(op), op.kind = "commit", NEW r \in op.down
    PROVE  r[1] = op.from /\ r \in Clients \X LockKeys
BY NoneAssumption DEF Placed, Operations, Commits, Fetches

-----------------------------------------------------------------------------
\* Answers move only processes that wait for them.
LEMMA AnswerMoves ==
    ASSUME NEW ok, NEW err, NEW granted, NEW unlocked, Answer(ok, err, granted, unlocked),
           NEW c \in Clients
    PROVE  /\ pc[c] \in {"fetching", "calling", "committing"} /\ c \notin ok \union err => pc'[c] = pc[c]
           /\ pc[c] = "locking" => pc'[c] \in {"locking", "body"}
           /\ pc[c] = "unlocking" /\ c \notin unlocked => pc'[c] = "unlocking"
           /\ pc[c] \notin {"idle", "calling", "unlocking"} => pc'[c] \notin {"idle", "calling"}
BY DEF Answer, OnOk, OnError

\* The monitors and the :DOWNs after a release.
LEMMA ReleaseMonitors ==
    ASSUME LockTypeOK, NEW refs, Release(refs), NEW k \in LockKeys
    PROVE  /\ k \in ReleasedKeys(refs) /\ queue[k] # << >> =>
                 /\ <<owner'[k], k>> \in monitors'
                 /\ owner'[k] \notin alive => <<owner'[k], k>> \in downs'
           /\ k \notin ReleasedKeys(refs) => \A c :
                 /\ <<c, k>> \in monitors' <=> <<c, k>> \in monitors
                 /\ <<c, k>> \in downs' <=> <<c, k>> \in downs
           /\ k \in ReleasedKeys(refs) => \A c :
                 /\ <<c, k>> \in monitors' => (<<c, k>> \in monitors /\ c # owner[k])
                                              \/ (queue[k] # << >> /\ c = owner'[k])
                 /\ <<c, k>> \in downs' => (<<c, k>> \in downs /\ c # owner[k])
                                           \/ (queue[k] # << >> /\ c = owner'[k])
<1> DEFINE keys == ReleasedKeys(refs)
           gone == {<<owner[l], l>> : l \in keys}
           new  == {<<NextOwner(l), l>> : l \in {j \in keys : queue[j] # << >>}}
<1>1. /\ monitors' = (monitors \ gone) \union new
      /\ downs' = (downs \ gone) \union DeadOf(new)
  BY DEF Release
<1>2. \A c : <<c, k>> \in gone <=> k \in keys /\ c = owner[k]
  OBVIOUS
<1>3. \A c : <<c, k>> \in new <=> k \in keys /\ queue[k] # << >> /\ c = NextOwner(k)
  OBVIOUS
<1>4. k \in keys => owner'[k] = NextOwner(k)
  BY DEF Release
<1> HIDE DEF keys, gone, new
<1> QED BY <1>1, <1>2, <1>3, <1>4 DEF keys, DeadOf

\* An operation stays in place when its process is not answered and none of
\* the references given up is of that process.
LEMMA StaysPlaced ==
    ASSUME LockTypeOK, ClientTypeOK, NEW refs, NEW ok, NEW err, NEW granted, NEW unlocked,
           Release(refs), Answer(ok, err, granted, unlocked), txKey' = txKey,
           NEW op \in Operations, Placed(op), op.from \notin ok \union err,
           op.kind = "commit" /\ op.owner # None =>
               \A k \in LockKeys : <<op.from, k>> \notin refs
    PROVE  Placed(op)'
<1>1. op.from \in Clients
  BY DEF Operations, Fetches, Commits
<1>2. pc[op.from] \in {"fetching", "calling", "committing"} => pc'[op.from] = pc[op.from]
  BY <1>1, AnswerMoves
<1>3. ASSUME op.kind = "commit", op.owner # None PROVE owner'[txKey[op.from]] = op.from
  <2>1. pc[op.from] = "committing" /\ owner[txKey[op.from]] = op.from
    BY <1>3 DEF Placed
  <2>2. txKey[op.from] \in LockKeys
    BY <1>1, <2>1 DEF ClientTypeOK
  <2>3. txKey[op.from] \notin ReleasedKeys(refs)
    BY <1>3, <2>1, <2>2 DEF ReleasedKeys
  <2> QED BY <2>1, <2>2, <2>3, ReleaseEffect
<1> QED BY <1>1, <1>2, <1>3 DEF Placed

\* The core of every handler that releases locks and answers: references are
\* given up, waiters go on, and what is on the way or held for the processes
\* that are not answered stays in place.
LEMMA Settled ==
    ASSUME Locking, TableAgrees, AsksInTurn, NoneAssumption,
           NEW refs \in SUBSET (Clients \X LockKeys), NEW ok, NEW err, NEW unlocked,
           NEW S \in SUBSET Clients, Unsent(S),
           Release(refs), Answer(ok, err, PromotedBy(refs), unlocked),
           txKey' = txKey, alive' = alive,
           \A c \in Clients : c \in ok \union err => inbox'[c] = NoRequest,
           \A r \in refs : inbox'[r[1]] = NoRequest,
           \A c \in Clients : c \in unlocked => <<c, txKey[c]>> \in refs
    PROVE  /\ TableAgrees'
           /\ AsksInTurn'
           /\ \A op \in Operations :
                 /\ Placed(op) /\ op.from \notin ok \union err
                 /\ op.kind = "commit" /\ op.owner # None =>
                       \A k \in LockKeys : <<op.from, k>> \notin refs
                 => Placed(op)'
           /\ \A k \in LockKeys : owner'[k] \notin alive \union {None} =>
                 \/ <<owner'[k], k>> \in downs'
                 \/ /\ owner'[k] = owner[k] /\ <<owner[k], k>> \notin refs
                    /\ <<owner[k], k>> \notin downs
<1> USE TypeParts DEF Locking
<1> DEFINE keys == ReleasedKeys(refs)
<1>1. \A k \in LockKeys : k \in keys <=> owner[k] # None /\ <<owner[k], k>> \in refs
  BY DEF ReleasedKeys
<1>2. /\ \A k \in LockKeys : owner[k] \in Clients \union {None} /\ owner'[k] \in Clients \union {None}
      /\ monitors \subseteq Clients \X LockKeys /\ monitors' \subseteq Clients \X LockKeys
      /\ downs \subseteq Clients \X LockKeys /\ downs' \subseteq Clients \X LockKeys
  BY ReleaseType DEF LockTypeOK
\* a process that goes on waited for the key it gets
<1>3. ASSUME NEW k \in keys, queue[k] # << >>
      PROVE  /\ owner'[k] \in Clients
             /\ txKey[owner'[k]] = k /\ pc[owner'[k]] = "locking"
  <2>1. k \in LockKeys /\ queue[k] \in Seq(Clients)
    BY DEF LockTypeOK, ReleasedKeys
  <2>2. 1 \in 1..Len(queue[k])
    BY <1>3, <2>1
  <2>3. owner'[k] = queue[k][1] /\ queue[k][1] \in Clients
    BY <1>3, <2>1, <2>2, ReleaseEffect, ElementOfSeq
  <2> QED BY <2>1, <2>2, <2>3 DEF LockInv, WaitersWait
<1>4. \A k \in keys : queue[k] = << >> => owner'[k] = None
  BY ReleaseEffect DEF ReleasedKeys
<1>5. \A k \in LockKeys : k \notin keys => owner'[k] = owner[k]
  BY ReleaseEffect
<1>6. TableAgrees'
  <2>1. ASSUME NEW r \in monitors' PROVE owner'[r[2]] = r[1]
    <3>1. PICK c \in Clients, k \in LockKeys : r = <<c, k>>
      BY <1>2
    <3>2. CASE k \notin keys
      BY <3>1, <3>2, <1>5, ReleaseMonitors DEF TableAgrees
    <3>3. CASE k \in keys
      <4>1. ~(<<c, k>> \in monitors /\ c # owner[k])
        BY DEF TableAgrees
      <4> QED BY <3>1, <3>3, <4>1, ReleaseMonitors
    <3> QED BY <3>2, <3>3
  <2>2. ASSUME NEW k \in LockKeys, owner'[k] # None
        PROVE  /\ <<owner'[k], k>> \in monitors'
               /\ txKey[owner'[k]] = k
               /\ pc'[owner'[k]] \notin {"idle", "calling"}
    <3>1. CASE k \in keys
      <4>1. queue[k] # << >>
        BY <2>2, <3>1, <1>4
      <4>2. owner'[k] \in Clients /\ txKey[owner'[k]] = k /\ pc[owner'[k]] = "locking"
        BY <3>1, <4>1, <1>3
      <4>3. pc'[owner'[k]] \in {"locking", "body"}
        BY <4>2, AnswerMoves
      <4> QED BY <3>1, <4>1, <4>2, <4>3, ReleaseMonitors
    <3>2. CASE k \notin keys
      <4>1. owner'[k] = owner[k] /\ owner[k] \in Clients
        BY <2>2, <3>2, <1>2, <1>5
      <4>2. <<owner[k], k>> \in monitors /\ txKey[owner[k]] = k
            /\ pc[owner[k]] \notin {"idle", "calling"}
        BY <4>1, NoneAssumption DEF TableAgrees
      <4>3. owner[k] \notin unlocked
        BY <3>2, <4>1, <4>2, <1>1, NoneAssumption
      <4>4. pc'[owner[k]] \notin {"idle", "calling"}
        BY <4>1, <4>2, <4>3, AnswerMoves
      <4> QED BY <3>2, <4>1, <4>2, <4>4, ReleaseMonitors
    <3> QED BY <3>1, <3>2
  <2>3. ASSUME NEW r \in downs' PROVE r \in monitors'
    <3>1. PICK c \in Clients, k \in LockKeys : r = <<c, k>>
      BY <1>2
    <3>2. CASE k \notin keys
      BY <3>1, <3>2, ReleaseMonitors DEF TableAgrees
    <3>3. CASE k \in keys
      <4>1. ~(<<c, k>> \in downs /\ c # owner[k])
        BY DEF TableAgrees
      <4> QED BY <3>1, <3>3, <4>1, ReleaseMonitors
    <3> QED BY <3>2, <3>3
  <2> QED BY <2>1, <2>2, <2>3 DEF TableAgrees
<1>7. AsksInTurn'
  <2> SUFFICES ASSUME NEW c \in Clients
               PROVE  /\ inbox'[c].op = "unlock" => inbox'[c].key = txKey[c]
                      /\ inbox'[c].op = "fetch" => pc'[c] \in {"fetching", "calling"}
                      /\ inbox'[c].op \in {"set", "clear"} => pc'[c] = "calling"
                      /\ inbox'[c].op = "commit" =>
                            pc'[c] = "committing" /\ owner'[txKey[c]] = c
    BY DEF AsksInTurn
  <2>1. CASE inbox'[c] = NoRequest
    BY <2>1 DEF NoRequest
  <2>2. CASE inbox'[c] # NoRequest
    <3>1. inbox'[c] = inbox[c] /\ c \notin ok \union err /\ \A k : <<c, k>> \notin refs
      BY <2>2 DEF Unsent
    <3>2. pc[c] \in {"fetching", "calling", "committing"} => pc'[c] = pc[c]
      BY <3>1, AnswerMoves
    <3>3. inbox[c].op = "commit" =>
            pc[c] = "committing" /\ txKey[c] \in LockKeys /\ owner[txKey[c]] = c
      BY DEF AsksInTurn, ClientTypeOK
    <3>4. inbox[c].op = "commit" => owner'[txKey[c]] = c
      BY <3>1, <3>3, <1>1, <1>5
    <3> QED BY <3>1, <3>2, <3>3, <3>4 DEF AsksInTurn
  <2> QED BY <2>1, <2>2
<1>8. ASSUME NEW op \in Operations, Placed(op), op.from \notin ok \union err,
             op.kind = "commit" /\ op.owner # None =>
                 \A k \in LockKeys : <<op.from, k>> \notin refs
      PROVE  Placed(op)'
  BY <1>8, StaysPlaced
<1>9. ASSUME NEW k \in LockKeys, owner'[k] \notin alive \union {None}
      PROVE  \/ <<owner'[k], k>> \in downs'
             \/ /\ owner'[k] = owner[k] /\ <<owner[k], k>> \notin refs
                /\ <<owner[k], k>> \notin downs
  <2>1. CASE k \in keys
    BY <1>4, <1>9, <2>1, ReleaseMonitors
  <2>2. CASE k \notin keys
    <3>1. owner'[k] = owner[k] /\ <<owner[k], k>> \notin refs
      BY <1>1, <1>5, <1>9, <2>2
    <3> QED BY <2>2, <3>1, ReleaseMonitors
  <2> QED BY <2>1, <2>2
<1> QED BY <1>6, <1>7, <1>8, <1>9

-----------------------------------------------------------------------------
\* Where the elements of a suffix are in the sequence.
LEMMA SuffixAt ==
    ASSUME NEW T, NEW q \in Seq(T), NEW n \in 1..Len(q)
    PROVE  LET rest == SubSeq(q, n + 1, Len(q)) IN
           /\ Len(rest) = Len(q) - n
           /\ \A i \in 1..(Len(q) - n) : n + i \in 1..Len(q) /\ rest[i] = q[n + i]
<1> DEFINE m == n + 1
           rest == SubSeq(q, m, Len(q))
<1>1. Len(q) \in Nat /\ Len(q) \in Int /\ n \in Nat /\ m \in Int /\ m >= 1
  OBVIOUS
<1>2. \A i \in m..Len(q) : q[i] \in T
  BY <1>1, ElementOfSeq
<1> HIDE DEF m
<1>3. /\ Len(rest) = IF m <= Len(q) THEN Len(q) - m + 1 ELSE 0
      /\ \A i \in 1..Len(q) - m + 1 : rest[i] = q[m + i - 1]
  BY <1>1, <1>2, SubSeqProperties
<1>4. Len(q) - m + 1 = Len(q) - n /\ (~(m <= Len(q)) => Len(q) - n = 0)
  BY <1>1 DEF m
<1>5. Len(rest) = Len(q) - n
  BY <1>3, <1>4
<1>6. ASSUME NEW i \in 1..(Len(q) - n) PROVE n + i \in 1..Len(q) /\ rest[i] = q[n + i]
  <2>1. rest[i] = q[m + i - 1]
    BY <1>3, <1>4
  <2>2. m + i - 1 = n + i /\ n + i \in 1..Len(q)
    BY <1>1 DEF m
  <2> QED BY <2>1, <2>2
<1> QED BY <1>5, <1>6 DEF m

Carries(op, r) == op.kind = "commit" /\ r \in op.down

LEMMA LeakParts ==
    /\ NoLeakedLock <=> \A k \in LockKeys : owner[k] \notin alive \union {None} =>
          \/ <<owner[k], k>> \in downs
          \/ Carries(active, <<owner[k], k>>)
          \/ \E j \in 1..Len(operations) : Carries(operations[j], <<owner[k], k>>)
    /\ NoLeakedLock' <=> \A k \in LockKeys : owner'[k] \notin alive' \union {None} =>
          \/ <<owner'[k], k>> \in downs'
          \/ Carries(active', <<owner'[k], k>>)
          \/ \E j \in 1..Len(operations') : Carries(operations'[j], <<owner'[k], k>>)
<1>1. \A r : (\E op \in Held : Carries(op, r)) <=>
         Carries(active, r) \/ \E j \in 1..Len(operations) : Carries(operations[j], r)
  BY DEF Held, Carries, NoOperation
<1>2. \A r : (\E op \in Held' : Carries(op, r)) <=>
         Carries(active', r) \/ \E j \in 1..Len(operations') : Carries(operations'[j], r)
  BY DEF Held, Carries, NoOperation
<1>3. NoLeakedLock <=> \A k \in LockKeys : owner[k] \notin alive \union {None} =>
          <<owner[k], k>> \in downs \/ \E op \in Held : Carries(op, <<owner[k], k>>)
  BY DEF NoLeakedLock, Carries
<1>4. NoLeakedLock' <=> \A k \in LockKeys : owner'[k] \notin alive' \union {None} =>
          <<owner'[k], k>> \in downs' \/ \E op \in Held' : Carries(op, <<owner'[k], k>>)
  BY DEF NoLeakedLock, Carries
<1>5. NoLeakedLock <=> \A k \in LockKeys : owner[k] \notin alive \union {None} =>
          \/ <<owner[k], k>> \in downs
          \/ Carries(active, <<owner[k], k>>)
          \/ \E j \in 1..Len(operations) : Carries(operations[j], <<owner[k], k>>)
  BY ONLY <1>1, <1>3
<1>6. NoLeakedLock' <=> \A k \in LockKeys : owner'[k] \notin alive' \union {None} =>
          \/ <<owner'[k], k>> \in downs'
          \/ Carries(active', <<owner'[k], k>>)
          \/ \E j \in 1..Len(operations') : Carries(operations'[j], <<owner'[k], k>>)
  BY ONLY <1>2, <1>4
<1> QED BY ONLY <1>5, <1>6

\* The end of operations and the start of the next: all of the invariant stays.
LEMMA StartNextHolds ==
    ASSUME Locking, TableAgrees, AsksInTurn, NoneAssumption,
           NEW q \in Seq(Operations), NEW ended \in SUBSET Operations, NEW failed,
           StartNext(q, ended, failed),
           NEW S \in SUBSET Clients, Unsent(S), txKey' = txKey, alive' = alive,
           \A j \in 1..Len(q) : Placed(q[j]) /\ inbox'[q[j].from] = NoRequest,
           \A op \in ended : Placed(op) /\ inbox'[op.from] = NoRequest,
           \A i, j \in 1..Len(q) : q[i].from = q[j].from => i = j,
           \A op \in ended : \A j \in 1..Len(q) : op.from # q[j].from,
           \A k \in LockKeys : owner[k] \notin alive \union {None} =>
               \/ <<owner[k], k>> \in downs
               \/ \E op \in ended : Carries(op, <<owner[k], k>>)
               \/ \E j \in 1..Len(q) : Carries(q[j], <<owner[k], k>>)
    PROVE  Holding'
<1> USE TypeParts DEF Locking
<1> DEFINE done == {q[j] : j \in Skipped(q)}
           gone == done \union ended
           refs == DownOf(gone)
           froms == {op.from : op \in gone}
<1>1. Skipped(q) \subseteq 1..Len(q) /\ Len(q) \in Nat
  BY DEF Skipped
<1>2. \A j \in 1..Len(q) : q[j] \in Operations
  BY ElementOfSeq
<1>3. \A op \in gone : op \in Operations /\ Placed(op) /\ inbox'[op.from] = NoRequest
  BY <1>1, <1>2
<1>4. \A r : r \in refs <=> r \in monitors /\ \E op \in gone : Carries(op, r)
  BY DEF DownOf, Known, Carries
<1>5. \A j \in 1..Len(q) : j \notin Skipped(q) => q[j].from \notin froms
  BY <1>1
<1>6. PICK ok, err : /\ Release(refs) /\ Answer(ok, err, PromotedBy(refs), {})
                     /\ ok \union err \subseteq froms
  <2> DEFINE answered == {op.from : op \in ended}
             ok0  == {op.from : op \in done} \union (IF failed THEN {} ELSE answered)
             err0 == IF failed THEN answered ELSE {}
  <2>1. Release(refs) /\ Answer(ok0, err0, PromotedBy(refs), {})
    BY DEF StartNext
  <2>2. ok0 \union err0 \subseteq froms
    OBVIOUS
  <2> HIDE DEF ok0, err0, refs, froms
  <2> QED BY <2>1, <2>2
<1> HIDE DEF done
<1>7. \A r \in refs : \E op \in gone : r[1] = op.from /\ r \in Clients \X LockKeys
  BY <1>3, <1>4, CarriedOf DEF Carries
<1> DEFINE nobody == {}
<1>8. /\ refs \in SUBSET (Clients \X LockKeys)
      /\ \A r \in refs : r[1] \in froms /\ inbox'[r[1]] = NoRequest
      /\ \A c \in Clients : c \in ok \union err => inbox'[c] = NoRequest
      /\ \A c \in Clients : c \in nobody => <<c, txKey[c]>> \in refs
  <2>1. \A x \in froms : inbox'[x] = NoRequest
    BY <1>3
  <2>2. \A op \in gone : op.from \in froms
    OBVIOUS
  <2> HIDE DEF refs, froms
  <2>3. refs \in SUBSET (Clients \X LockKeys) /\ \A r \in refs : r[1] \in froms
    BY <1>7, <2>2
  <2> QED BY <1>6, <2>1, <2>3
<1>9. Answer(ok, err, PromotedBy(refs), nobody)
  BY <1>6
<1> HIDE DEF gone, refs, froms, nobody
<1>10. /\ TableAgrees' /\ AsksInTurn'
       /\ \A op \in Operations :
             /\ Placed(op) /\ op.from \notin ok \union err
             /\ op.kind = "commit" /\ op.owner # None =>
                   \A k \in LockKeys : <<op.from, k>> \notin refs
             => Placed(op)'
       /\ \A k \in LockKeys : owner'[k] \notin alive \union {None} =>
             \/ <<owner'[k], k>> \in downs'
             \/ /\ owner'[k] = owner[k] /\ <<owner[k], k>> \notin refs
                /\ <<owner[k], k>> \notin downs
  BY <1>6, <1>8, <1>9, Settled
\* what stays is in place, and what is lost was released
<1>11. ASSUME NEW j \in 1..Len(q), j \notin Skipped(q)
       PROVE  Placed(q[j])' /\ inbox'[q[j].from] = NoRequest
  <2>1. q[j].from \notin froms
    BY <1>5, <1>11
  <2>2. q[j].from \notin ok \union err /\ \A k \in LockKeys : <<q[j].from, k>> \notin refs
    BY <2>1, <1>6, <1>8
  <2> QED BY <2>2, <1>2, <1>10
<1>12. ASSUME NEW k \in LockKeys, owner'[k] \notin alive' \union {None}, <<owner'[k], k>> \notin downs'
       PROVE  \E j \in 1..Len(q) : j \notin Skipped(q) /\ Carries(q[j], <<owner'[k], k>>)
  <2>1. /\ owner'[k] = owner[k] /\ <<owner[k], k>> \notin refs /\ <<owner[k], k>> \notin downs
        /\ owner[k] \notin alive \union {None}
    BY <1>10, <1>12
  <2>2. <<owner[k], k>> \in monitors
    BY <2>1 DEF TableAgrees
  <2>3. \A op \in gone : ~Carries(op, <<owner[k], k>>)
    BY <1>4, <2>1, <2>2
  <2>4. PICK j \in 1..Len(q) : Carries(q[j], <<owner[k], k>>)
    BY <2>1, <2>3 DEF gone
  <2>5. j \notin Skipped(q)
    BY <2>3, <2>4 DEF gone, done
  <2> QED BY <2>1, <2>4, <2>5
<1>13. CASE Starting(q) = {} /\ active' = NoOperation /\ worker' = NoWorker /\ operations' = << >>
  <2>1. \A j \in 1..Len(q) : j \in Skipped(q)
    BY <1>13, SkippedPrefix
  <2>2. NoLeakedLock'
    BY <1>12, <2>1, LeakParts
  <2>3. AllPlaced' /\ OneEach' /\ WorkerBusy'
    BY <1>13 DEF AllPlaced, OneEach, WorkerBusy, NoWorker
  <2> QED BY <1>10, <2>2, <2>3 DEF Holding
<1>14. ASSUME NEW next \in Starting(q), active' = q[next], worker' = Started,
              operations' = SubSeq(q, next + 1, Len(q))
       PROVE  Holding'
  <2>1. next \in 1..Len(q) /\ Skipped(q) = 1..(next - 1)
    BY SkippedPrefix
  <2> DEFINE rest == SubSeq(q, next + 1, Len(q))
  <2>2. /\ Len(rest) = Len(q) - next
        /\ \A i \in 1..(Len(q) - next) : next + i \in 1..Len(q) /\ rest[i] = q[next + i]
    BY ONLY <2>1, q \in Seq(Operations), SuffixAt
  <2> HIDE DEF rest
  <2>3. /\ Len(operations') = Len(q) - next
        /\ \A i \in 1..Len(operations') : /\ next + i \in 1..Len(q)
                                          /\ next + i \notin Skipped(q)
                                          /\ next + i # next
                                          /\ operations'[i] = q[next + i]
    <3>1. operations' = rest
      BY <1>14 DEF rest
    <3>2. \A i \in 1..(Len(q) - next) : next + i \notin Skipped(q) /\ next + i # next
      BY <1>1, <2>1
    <3> QED BY <2>2, <3>1, <3>2
  <2>4. next \notin Skipped(q)
    BY <1>1, <2>1
  <2>5. Placed(active)' /\ Taken(active)'
    <3>1. Placed(q[next])' /\ inbox'[q[next].from] = NoRequest
      BY <1>11, <2>1, <2>4
    <3> QED BY <1>14, <3>1 DEF Placed, Taken
  <2>6. ASSUME NEW i \in 1..Len(operations') PROVE Placed(operations[i])' /\ Taken(operations[i])'
    <3>1. Placed(q[next + i])' /\ inbox'[q[next + i].from] = NoRequest
      BY <1>11, <2>3
    <3>2. operations'[i] = q[next + i]
      BY <2>3
    <3> QED BY <3>1, <3>2 DEF Placed, Taken
  <2>7. OneEach'
    <3>1. ASSUME NEW j \in 1..Len(operations')
          PROVE  /\ active'.from # operations'[j].from
                 /\ \A i \in 1..Len(operations') : operations'[i].from = operations'[j].from => i = j
      <4>1. q[next].from # q[next + j].from
        BY <2>1, <2>3
      <4>2. ASSUME NEW i \in 1..Len(operations'), operations'[i].from = operations'[j].from
            PROVE  i = j
        <5>1. next + i = next + j
          BY <2>3, <4>2
        <5> QED BY <5>1, <2>1, <2>3, <1>1
      <4> QED BY <1>14, <2>3, <4>1, <4>2
    <3> QED BY <3>1 DEF OneEach
  <2>8. NoLeakedLock'
    <3> SUFFICES ASSUME NEW k \in LockKeys, owner'[k] \notin alive' \union {None},
                        <<owner'[k], k>> \notin downs'
                 PROVE  \/ Carries(active', <<owner'[k], k>>)
                        \/ \E j \in 1..Len(operations') : Carries(operations'[j], <<owner'[k], k>>)
      BY LeakParts
    <3>1. PICK j \in 1..Len(q) : j \notin Skipped(q) /\ Carries(q[j], <<owner'[k], k>>)
      BY <1>12
    <3>2. CASE j = next
      BY <1>14, <3>1, <3>2
    <3>3. CASE j # next
      <4>1. j - next \in 1..Len(operations') /\ next + (j - next) = j
        BY <1>1, <2>1, <2>3, <3>1, <3>3
      <4>2. operations'[j - next] = q[j]
        BY <2>3, <4>1
      <4> QED BY <3>1, <4>1, <4>2
    <3> QED BY <3>2, <3>3
  <2>9. active' # NoOperation
    <3>1. q[next] \in Operations
      BY <1>2, <2>1
    <3> QED BY <1>14, <3>1 DEF Operations, Fetches, Commits, NoOperation
  <2>10. AllPlaced' /\ WorkerBusy'
    BY <2>5, <2>6, <2>9 DEF AllPlaced, WorkerBusy
  <2> QED BY <1>10, <2>7, <2>8, <2>10 DEF Holding
<1> QED BY <1>13, <1>14 DEF StartNext

-----------------------------------------------------------------------------
\* The end of an operation.
LEMMA FinishHolds ==
    ASSUME Locking, Holding, NoneAssumption, NEW failed, Finish(failed),
           active # NoOperation, UNCHANGED <<alive, txKey, inbox>>
    PROVE  Holding'
<1> USE TypeParts DEF Locking
<1> DEFINE ended == {active}
           none  == {}
<1>1. operations \in Seq(Operations) /\ ended \in SUBSET Operations
  BY DEF StoreTypeOK, ServerTypeOK
<1>2. none \in SUBSET Clients /\ Unsent(none)
  BY DEF Unsent
<1>3. StartNext(operations, ended, failed)
  BY DEF Finish
<1>4. /\ \A j \in 1..Len(operations) : Placed(operations[j]) /\ inbox'[operations[j].from] = NoRequest
      /\ \A op \in ended : Placed(op) /\ inbox'[op.from] = NoRequest
  BY DEF Holding, AllPlaced, Taken
<1>5. /\ \A i, j \in 1..Len(operations) : operations[i].from = operations[j].from => i = j
      /\ \A op \in ended : \A j \in 1..Len(operations) : op.from # operations[j].from
  BY DEF Holding, OneEach
<1>6. \A k \in LockKeys : owner[k] \notin alive \union {None} =>
          \/ <<owner[k], k>> \in downs
          \/ \E op \in ended : Carries(op, <<owner[k], k>>)
          \/ \E j \in 1..Len(operations) : Carries(operations[j], <<owner[k], k>>)
  BY LeakParts DEF Holding
<1> HIDE DEF ended, none
<1> QED BY <1>1, <1>2, <1>3, <1>4, <1>5, <1>6, StartNextHolds DEF Holding

\* Steps that leave the operations alone, and every operation in its place.
LEMMA KeptInPlace ==
    ASSUME Holding, UNCHANGED <<active, operations>>, WorkerBusy',
           TableAgrees', AsksInTurn',
           StoreTypeOK, \A op \in Operations : Placed(op) /\ Taken(op) => Placed(op)' /\ Taken(op)',
           \A k \in LockKeys : owner'[k] \notin alive' \union {None} =>
               \/ <<owner'[k], k>> \in downs'
               \/ /\ owner'[k] = owner[k] /\ owner[k] \notin alive
                  /\ <<owner[k], k>> \notin downs
    PROVE  Holding'
<1>1. /\ active \in Operations \union {NoOperation}
      /\ \A j \in 1..Len(operations) : operations[j] \in Operations
  BY ElementOfSeq DEF StoreTypeOK, ServerTypeOK
<1>2. AllPlaced'
  <2>1. active' # NoOperation => Placed(active)' /\ Taken(active)'
    <3>1. active # NoOperation => active \in Operations /\ Placed(active) /\ Taken(active)
      BY <1>1 DEF Holding, AllPlaced
    <3> QED BY <3>1 DEF Placed, Taken
  <2>2. ASSUME NEW j \in 1..Len(operations') PROVE Placed(operations[j])' /\ Taken(operations[j])'
    <3>1. operations'[j] = operations[j] /\ j \in 1..Len(operations)
      OBVIOUS
    <3>2. operations[j] \in Operations /\ Placed(operations[j]) /\ Taken(operations[j])
      BY <1>1, <3>1 DEF Holding, AllPlaced
    <3> QED BY <3>1, <3>2 DEF Placed, Taken
  <2> QED BY <2>1, <2>2 DEF AllPlaced
<1>3. OneEach'
  BY DEF Holding, OneEach
<1>4. NoLeakedLock'
  <2> SUFFICES ASSUME NEW k \in LockKeys, owner'[k] \notin alive' \union {None},
                      <<owner'[k], k>> \notin downs'
               PROVE  \/ Carries(active', <<owner'[k], k>>)
                      \/ \E j \in 1..Len(operations') : Carries(operations'[j], <<owner'[k], k>>)
    BY LeakParts
  <2>1. owner'[k] = owner[k] /\ owner[k] \notin alive \union {None} /\ <<owner[k], k>> \notin downs
    OBVIOUS
  <2> QED BY <2>1, LeakParts DEF Holding
<1> QED BY <1>2, <1>3, <1>4 DEF Holding

\* A request that becomes an operation, or is refused.
LEMMA ServeHolds ==
    ASSUME Locking, Holding, NoneAssumption, NEW c \in Clients, NEW new \in Operations, NEW name,
           Serve(c, name, new), inbox[c] # NoRequest, new.from = c, Placed(new),
           \A r : ~Carries(new, r)
    PROVE  Holding'
<1> USE TypeParts DEF Locking
<1> DEFINE caller == {c}
           none == {}
<1>1. caller \in SUBSET Clients /\ Unsent(caller) /\ alive' = alive /\ txKey' = txKey /\ inbox'[c] = NoRequest
  BY DEF Serve, Consumed, Unsent, ClientTypeOK
<1>2. operations \in Seq(Operations) /\ active \in Operations \union {NoOperation} /\ Len(operations) \in Nat
  BY DEF StoreTypeOK, ServerTypeOK
<1>3. /\ active # NoOperation => /\ active.from # c /\ Placed(active)
                                 /\ inbox'[active.from] = NoRequest
      /\ \A j \in 1..Len(operations) : /\ operations[j].from # c /\ Placed(operations[j])
                                        /\ inbox'[operations[j].from] = NoRequest
  <2>1. \A o \in Operations : o.from \in Clients
    BY DEF Operations, Fetches, Commits
  <2>2. \A j \in 1..Len(operations) : operations[j] \in Operations
    BY <1>2, ElementOfSeq
  <2>3. \A o \in Operations : Taken(o) => o.from # c /\ inbox'[o.from] = NoRequest
    BY <2>1, <1>1 DEF Taken, Unsent
  <2> QED BY <1>2, <2>2, <2>3 DEF Holding, AllPlaced
<1> DEFINE q == Append(operations, new)
<1>4. /\ q \in Seq(Operations) /\ Len(q) = Len(operations) + 1
      /\ \A j \in 1..Len(operations) : q[j] = operations[j]
      /\ q[Len(operations) + 1] = new
  BY <1>2, AppendProperties
<1> HIDE DEF q
<1>5. ASSUME NEW j \in 1..Len(q)
      PROVE  \/ j \in 1..Len(operations) /\ q[j] = operations[j]
             \/ j = Len(operations) + 1 /\ q[j] = new
  BY <1>2, <1>4
<1>6. \A j \in 1..Len(q) : Placed(q[j]) /\ inbox'[q[j].from] = NoRequest
  <2> TAKE j \in 1..Len(q)
  <2> QED BY <1>1, <1>3, <1>5
<1>7. ASSUME NEW i \in 1..Len(q), NEW j \in 1..Len(q), q[i].from = q[j].from PROVE i = j
  <2>1. CASE q[i] = operations[i] /\ q[j] = operations[j] /\ i \in 1..Len(operations) /\ j \in 1..Len(operations)
    BY <1>7, <2>1 DEF Holding, OneEach
  <2>2. CASE i = Len(operations) + 1 /\ q[i] = new
    BY <1>3, <1>5, <1>7, <2>2
  <2>3. CASE j = Len(operations) + 1 /\ q[j] = new
    BY <1>3, <1>5, <1>7, <2>3
  <2> QED BY <1>5, <2>1, <2>2, <2>3
<1>8. CASE Outstanding >= MaxQueue /\ Answer({}, {c}, {}, {}) /\ UNCHANGED <<lockVars, active, operations, worker>>
  <2> DEFINE refs == {}
             ok == {}
  <2>1. Release(refs) /\ PromotedBy(refs) = {}
    BY <1>8, ReleaseNothing
  <2>2. Answer(ok, caller, PromotedBy(refs), none)
    BY <1>8, <2>1
  <2>3. /\ refs \in SUBSET (Clients \X LockKeys)
        /\ \A d \in Clients : d \in ok \union caller => inbox'[d] = NoRequest
        /\ \A r \in refs : inbox'[r[1]] = NoRequest
        /\ \A d \in Clients : d \in none => <<d, txKey[d]>> \in refs
        /\ TableAgrees /\ AsksInTurn
    BY <1>1 DEF Holding
  <2>4. \A op \in Operations : Taken(op) =>
            op.from \notin ok \union caller /\ \A k \in LockKeys : <<op.from, k>> \notin refs
    BY DEF Taken
  <2>5. \A op \in Operations : Taken(op) => Taken(op)'
    BY <1>1 DEF Taken, Unsent, Operations, Fetches, Commits
  <2>6. owner' = owner /\ downs' = downs /\ WorkerBusy'
    BY <1>8 DEF lockVars, WorkerBusy, Holding
  <2> HIDE DEF none, caller, refs, ok
  <2>7. TableAgrees' /\ AsksInTurn'
    BY <1>1, <2>1, <2>2, <2>3, Settled
  <2>8. \A op \in Operations :
            /\ Placed(op) /\ op.from \notin ok \union caller
            /\ \A k \in LockKeys : <<op.from, k>> \notin refs
            => Placed(op)'
    BY <1>1, <2>1, <2>2, StaysPlaced
  <2>9. \A op \in Operations : Placed(op) /\ Taken(op) => Placed(op)' /\ Taken(op)'
    BY <2>4, <2>5, <2>8
  <2> QED BY <1>1, <1>8, <2>6, <2>7, <2>9, KeptInPlace
<1>9. CASE active = NoOperation /\ StartNext(q, {}, FALSE)
  <2> DEFINE ended == {}
  <2>1. /\ ended \in SUBSET Operations /\ StartNext(q, ended, FALSE)
        /\ \A o \in ended : Placed(o) /\ inbox'[o.from] = NoRequest
        /\ \A o \in ended : \A j \in 1..Len(q) : o.from # q[j].from
    BY <1>9
  <2>2. ASSUME NEW k \in LockKeys, owner[k] \notin alive \union {None}
        PROVE  \/ <<owner[k], k>> \in downs
               \/ \E j \in 1..Len(q) : Carries(q[j], <<owner[k], k>>)
    <3>1. ~Carries(active, <<owner[k], k>>)
      BY <1>9 DEF Carries, NoOperation
    <3>2. \/ <<owner[k], k>> \in downs
          \/ \E j \in 1..Len(operations) : Carries(operations[j], <<owner[k], k>>)
      BY <2>2, <3>1, LeakParts DEF Holding
    <3>3. \A j \in 1..Len(operations) : j \in 1..Len(q) /\ q[j] = operations[j]
      BY <1>2, <1>4
    <3> QED BY <3>2, <3>3
  <2> HIDE DEF ended, caller
  <2> QED BY <1>1, <1>4, <1>6, <1>7, <2>1, <2>2, StartNextHolds, ZenonT(40) DEF Holding
<1>10. CASE active # NoOperation /\ operations' = q /\ UNCHANGED <<lockVars, active, worker, pc>>
  <2>1. TableAgrees' /\ WorkerBusy'
    BY <1>1, <1>10 DEF Holding, TableAgrees, WorkerBusy, lockVars
  <2>2. AsksInTurn'
    <3> SUFFICES ASSUME NEW d \in Clients
                 PROVE  /\ inbox'[d].op = "unlock" => inbox'[d].key = txKey[d]
                        /\ inbox'[d].op = "fetch" => pc[d] \in {"fetching", "calling"}
                        /\ inbox'[d].op \in {"set", "clear"} => pc[d] = "calling"
                        /\ inbox'[d].op = "commit" => pc[d] = "committing" /\ owner[txKey[d]] = d
      BY <1>1, <1>10 DEF AsksInTurn, lockVars
    <3> QED BY <1>1 DEF Unsent, NoRequest, Holding, AsksInTurn
  <2>3. \A o : Placed(o) => Placed(o)'
    BY <1>1, <1>10 DEF Placed, lockVars
  <2>4. AllPlaced'
    <3>1. Placed(active)' /\ Taken(active)'
      <4>1. Placed(active) /\ inbox'[active.from] = NoRequest /\ active' = active
        BY <1>3, <1>10
      <4> QED BY <4>1, <1>1, <1>10 DEF Placed, Taken, lockVars
    <3>2. ASSUME NEW j \in 1..Len(operations') PROVE Placed(operations[j])' /\ Taken(operations[j])'
      <4>1. operations'[j] = q[j] /\ Placed(q[j]) /\ inbox'[q[j].from] = NoRequest
        BY <1>6, <1>10
      <4> QED BY <4>1, <1>1, <1>10 DEF Placed, Taken, lockVars
    <3> QED BY <3>1, <3>2 DEF AllPlaced
  <2>5. OneEach'
    <3>1. \A j \in 1..Len(q) : active.from # q[j].from
      BY <1>3, <1>5, <1>10 DEF Holding, OneEach
    <3> QED BY <1>7, <1>10, <3>1 DEF OneEach
  <2>6. NoLeakedLock'
    <3> SUFFICES ASSUME NEW k \in LockKeys, owner[k] \notin alive \union {None}
                 PROVE  \/ <<owner[k], k>> \in downs
                        \/ Carries(active, <<owner[k], k>>)
                        \/ \E j \in 1..Len(q) : Carries(q[j], <<owner[k], k>>)
      BY <1>1, <1>10, LeakParts DEF lockVars
    <3>1. \A j \in 1..Len(operations) : j \in 1..Len(q) /\ q[j] = operations[j]
      BY <1>2, <1>4
    <3> QED BY <3>1, LeakParts DEF Holding
  <2> QED BY <2>1, <2>2, <2>4, <2>5, <2>6 DEF Holding
<1> QED BY <1>8, <1>9, <1>10 DEF Serve, EnqueueOperation, q

\* A free key is taken, or its queue grows.
LEMMA ServeLockHolds ==
    ASSUME Locking, Holding, NoneAssumption, NEW c \in Clients, ServeLock(c)
    PROVE  Holding'
<1> USE TypeParts DEF Locking
<1> DEFINE k == inbox[c].key
<1>1. /\ inbox[c].op = "lock" /\ pc[c] = "locking" /\ k = txKey[c] /\ k \in LockKeys
      /\ txKey' = txKey /\ alive' = alive /\ UNCHANGED <<active, operations, worker>>
  BY DEF ServeLock, HandleLock, Received, LockInv, LockRequests, ClientTypeOK, storeVars
<1>2. \A d \in Clients : inbox'[d] = IF d = c THEN NoRequest ELSE inbox[d]
  BY DEF ServeLock, HandleLock, Consumed, ClientTypeOK
<1>3. WorkerBusy'
  BY <1>1 DEF Holding, WorkerBusy
<1>4. StoreTypeOK /\ \A op \in Operations : op.from \in Clients
  BY DEF Operations, Fetches, Commits
<1>5. CASE Acquire(c, k) /\ Answer({}, {}, {c}, {})
  <2>1. /\ owner[k] = None /\ monitors' = monitors \union {<<c, k>>}
        /\ downs' = downs \union DeadOf({<<c, k>>})
        /\ \A l \in LockKeys : owner'[l] = IF l = k THEN c ELSE owner[l]
    BY <1>1, <1>5 DEF Acquire, LockTypeOK
  <2>2. /\ \A d \in Clients : d # c => pc'[d] = pc[d]
        /\ pc'[c] \in {"locking", "body"}
    BY <1>1, <1>5 DEF Answer
  <2>3. TableAgrees'
    <3>1. ASSUME NEW r \in monitors' PROVE owner'[r[2]] = r[1]
      <4>1. CASE r = <<c, k>>
        BY <1>1, <2>1, <4>1
      <4>2. CASE r \in monitors
        <5>1. r[1] \in Clients /\ r[2] \in LockKeys /\ owner[r[2]] = r[1]
          BY <4>2 DEF LockTypeOK, Holding, TableAgrees
        <5> QED BY <2>1, <5>1, NoneAssumption
      <4> QED BY <2>1, <4>1, <4>2
    <3>2. ASSUME NEW l \in LockKeys, owner'[l] # None
          PROVE  /\ <<owner'[l], l>> \in monitors' /\ txKey[owner'[l]] = l
                 /\ pc'[owner'[l]] \notin {"idle", "calling"}
      <4>1. CASE l = k
        <5>1. owner'[l] = c /\ pc'[c] \in {"locking", "body"} /\ <<c, l>> \in monitors'
          BY <2>1, <2>2, <4>1
        <5>2. txKey[c] = l
          BY <1>1, <4>1
        <5> QED BY <5>1, <5>2
      <4>2. CASE l # k
        <5>1. owner'[l] = owner[l] /\ owner[l] \in Clients /\ owner[l] # None
          BY <2>1, <3>2, <4>2 DEF LockTypeOK
        <5>2. <<owner[l], l>> \in monitors /\ txKey[owner[l]] = l
              /\ pc[owner[l]] \notin {"idle", "calling"}
          BY <5>1 DEF Holding, TableAgrees
        <5>3. pc'[owner[l]] \notin {"idle", "calling"}
          BY <2>2, <5>1, <5>2
        <5>4. <<owner[l], l>> \in monitors'
          BY <2>1, <5>2
        <5> QED BY <5>1, <5>2, <5>3, <5>4
      <4> QED BY <4>1, <4>2
    <3>3. downs' \subseteq monitors'
      BY <2>1 DEF DeadOf, Holding, TableAgrees
    <3> QED BY <1>1, <3>1, <3>2, <3>3 DEF TableAgrees
  <2>4. AsksInTurn'
    <3> SUFFICES ASSUME NEW d \in Clients
                 PROVE  /\ inbox'[d].op = "unlock" => inbox'[d].key = txKey[d]
                        /\ inbox'[d].op = "fetch" => pc'[d] \in {"fetching", "calling"}
                        /\ inbox'[d].op \in {"set", "clear"} => pc'[d] = "calling"
                        /\ inbox'[d].op = "commit" => pc'[d] = "committing" /\ owner'[txKey[d]] = d
      BY <1>1 DEF AsksInTurn
    <3>1. CASE d = c
      BY <1>2, <3>1 DEF NoRequest
    <3>2. CASE d # c
      <4>1. inbox[d].op = "commit" => txKey[d] \in LockKeys /\ owner[txKey[d]] = d /\ txKey[d] # k
        BY <2>1, NoneAssumption DEF Holding, AsksInTurn, ClientTypeOK
      <4> QED BY <1>2, <2>1, <2>2, <3>2, <4>1 DEF Holding, AsksInTurn
    <3> QED BY <3>1, <3>2
  <2>5. ASSUME NEW op \in Operations, Placed(op), Taken(op) PROVE Placed(op)' /\ Taken(op)'
    <3>1. op.from \in Clients /\ op.from # c
      BY <1>1, <1>4, <2>5 DEF Taken, NoRequest
    <3>2. op.kind = "commit" /\ op.owner # None => owner'[txKey[op.from]] = op.from
      BY <2>1, <2>5, <3>1, NoneAssumption DEF Placed, ClientTypeOK
    <3>3. Placed(op)'
      BY <1>1, <2>2, <2>5, <3>1, <3>2 DEF Placed
    <3> QED BY <1>2, <2>5, <3>1, <3>3 DEF Taken
  <2>6. \A l \in LockKeys : owner'[l] \notin alive' \union {None} =>
            \/ <<owner'[l], l>> \in downs'
            \/ owner'[l] = owner[l] /\ owner[l] \notin alive /\ <<owner[l], l>> \notin downs
    BY <1>1, <2>1 DEF DeadOf
  <2> QED BY <1>1, <1>3, <1>4, <2>3, <2>4, <2>5, <2>6, KeptInPlace
<1>6. CASE Enqueue(c, k) /\ UNCHANGED pc
  <2>1. UNCHANGED <<owner, monitors, downs, pc>>
    BY <1>6 DEF Enqueue
  <2>2. TableAgrees'
    BY <1>1, <2>1 DEF Holding, TableAgrees
  <2>3. AsksInTurn'
    <3> SUFFICES ASSUME NEW d \in Clients
                 PROVE  /\ inbox'[d].op = "unlock" => inbox'[d].key = txKey[d]
                        /\ inbox'[d].op = "fetch" => pc[d] \in {"fetching", "calling"}
                        /\ inbox'[d].op \in {"set", "clear"} => pc[d] = "calling"
                        /\ inbox'[d].op = "commit" => pc[d] = "committing" /\ owner[txKey[d]] = d
      BY <1>1, <2>1 DEF AsksInTurn
    <3> QED BY <1>2 DEF NoRequest, Holding, AsksInTurn
  <2>4. ASSUME NEW op \in Operations, Placed(op), Taken(op) PROVE Placed(op)' /\ Taken(op)'
    BY <1>1, <1>2, <1>4, <2>1, <2>4 DEF Placed, Taken
  <2>5. \A l \in LockKeys : owner'[l] \notin alive' \union {None} =>
            \/ <<owner'[l], l>> \in downs'
            \/ owner'[l] = owner[l] /\ owner[l] \notin alive /\ <<owner[l], l>> \notin downs
    BY <1>1, <2>1
  <2> QED BY <1>1, <1>3, <1>4, <2>2, <2>3, <2>4, <2>5, KeptInPlace
<1> QED BY <1>5, <1>6 DEF ServeLock, HandleLock

\* A lock is given up by its owner, which has no operation then.
LEMMA ServeUnlockHolds ==
    ASSUME Locking, Holding, NoneAssumption, NEW c \in Clients, ServeUnlock(c)
    PROVE  Holding'
<1> USE TypeParts DEF Locking
<1> DEFINE k == inbox[c].key
           refs == {<<c, k>>}
           ok == {}
           err == {}
           caller == {c}
<1>1. /\ inbox[c].op = "unlock" /\ pc[c] = "unlocking" /\ k = txKey[c] /\ k \in LockKeys
      /\ txKey' = txKey /\ alive' = alive /\ UNCHANGED <<active, operations, worker>>
      /\ TableAgrees /\ AsksInTurn
  BY DEF ServeUnlock, HandleUnlock, Received, LockInv, LockRequests, ClientTypeOK, storeVars,
         Holding, AsksInTurn
<1>2. caller \in SUBSET Clients /\ Unsent(caller) /\ inbox'[c] = NoRequest
  BY DEF ServeUnlock, HandleUnlock, Consumed, ClientTypeOK, Unsent
<1>3. Release(refs) /\ Answer(ok, err, PromotedBy(refs), caller)
  BY DEF ServeUnlock, HandleUnlock
<1>4. /\ refs \in SUBSET (Clients \X LockKeys)
      /\ \A d \in Clients : d \in ok \union err => inbox'[d] = NoRequest
      /\ \A r \in refs : inbox'[r[1]] = NoRequest
      /\ \A d \in Clients : d \in caller => <<d, txKey[d]>> \in refs
  BY <1>1, <1>2
<1>5. ASSUME NEW op \in Operations, Placed(op), Taken(op)
      PROVE  /\ op.from \notin ok \union err
             /\ \A l \in LockKeys : <<op.from, l>> \notin refs
             /\ Taken(op)'
  <2>1. op.from # c
    BY <1>1, <1>5 DEF Taken, NoRequest
  <2>2. op.from \in Clients
    BY DEF Operations, Fetches, Commits
  <2> QED BY <1>2, <1>5, <2>1, <2>2 DEF Taken, Unsent
<1>6. WorkerBusy' /\ StoreTypeOK
  BY <1>1 DEF Holding, WorkerBusy
<1> HIDE DEF refs, ok, err, caller, k
<1>7. TableAgrees' /\ AsksInTurn'
  BY <1>1, <1>2, <1>3, <1>4, Settled
<1>8. ASSUME NEW op \in Operations, Placed(op), Taken(op) PROVE Placed(op)' /\ Taken(op)'
  BY <1>1, <1>3, <1>5, <1>8, StaysPlaced
<1>9. \A l \in LockKeys : owner'[l] \notin alive \union {None} =>
          \/ <<owner'[l], l>> \in downs'
          \/ owner'[l] = owner[l] /\ <<owner[l], l>> \notin refs /\ <<owner[l], l>> \notin downs
  BY <1>1, <1>2, <1>3, <1>4, Settled
<1> QED BY <1>1, <1>6, <1>7, <1>8, <1>9, KeptInPlace

-----------------------------------------------------------------------------
\* mark_owner_down: the commit that keeps a dead owner's lock carries the
\* reference, and loses none.
LEMMA MarkDownKeeps ==
    ASSUME Locking, Holding, NoneAssumption, NEW r \in downs, NEW op \in Operations,
           OwnedBy(op, r[1]), Placed(op)
    PROVE  LET marked == MarkDown(op, r) IN
           /\ marked \in Operations /\ marked.from = op.from
           /\ Placed(marked)
           /\ Carries(marked, r)
           /\ \A k \in LockKeys : owner[k] # None /\ Carries(op, <<owner[k], k>>) =>
                 Carries(marked, <<owner[k], k>>)
<1> USE TypeParts DEF Locking
<1> DEFINE marked == MarkDown(op, r)
<1>1. PICK c \in Clients, l \in LockKeys : r = <<c, l>>
  BY DEF LockTypeOK
<1>2. owner[l] = c /\ txKey[c] = l
  BY <1>1, NoneAssumption DEF Holding, TableAgrees
<1>3. op \in Commits /\ op.owner = c
  BY <1>1 DEF OwnedBy, Operations, Fetches
<1>4. /\ marked \in Commits /\ marked.kind = "commit" /\ marked.from = op.from
      /\ marked.owner = op.owner /\ marked.down = {r}
  BY <1>1, <1>3 DEF MarkDown, Commits
<1> HIDE DEF marked
<1>5. Placed(marked)
  BY <1>1, <1>3, <1>4 DEF Placed, OwnedBy
<1>6. ASSUME NEW k \in LockKeys, owner[k] # None, Carries(op, <<owner[k], k>>)
      PROVE  Carries(marked, <<owner[k], k>>)
  <2>1. owner[k] = c
    BY <1>3, <1>6 DEF Placed, Carries
  <2>2. k = l
    BY <1>2, <1>6, <2>1 DEF Holding, TableAgrees
  <2> QED BY <1>1, <1>4, <2>1, <2>2 DEF Carries
<1>7. Carries(marked, r)
  BY <1>4 DEF Carries
<1> QED BY <1>4, <1>5, <1>6, <1>7 DEF Operations, marked

LEMMA ServeDownHolds ==
    ASSUME Locking, Holding, NoneAssumption, NEW r \in downs, ServeDown(r)
    PROVE  Holding'
<1> USE TypeParts DEF Locking
<1> DEFINE c == r[1]
<1>1. /\ inbox[c] = NoRequest /\ txKey' = txKey /\ alive' = alive /\ inbox' = inbox
      /\ worker' = worker
  BY DEF ServeDown, DownArrived
<1>2. c \in Clients /\ r[2] \in LockKeys /\ r \in Clients \X LockKeys /\ r = <<c, r[2]>>
  BY DEF LockTypeOK
<1>3. /\ active \in Operations \union {NoOperation} /\ operations \in Seq(Operations)
      /\ \A j \in 1..Len(operations) : operations[j] \in Operations
  BY ElementOfSeq DEF StoreTypeOK, ServerTypeOK
<1>4. ASSUME downs' = downs \ {r}, UNCHANGED <<owner, queue, monitors, pc>>
      PROVE  TableAgrees' /\ AsksInTurn' /\ \A op : Placed(op) => Placed(op)'
  <2>1. TableAgrees' /\ AsksInTurn'
    BY <1>1, <1>4 DEF Holding, TableAgrees, AsksInTurn
  <2>2. \A op : Placed(op) => Placed(op)'
    BY <1>1, <1>4 DEF Placed
  <2> QED BY <2>1, <2>2
<1>5. CASE OwnedBy(active, c)
  <2>1. /\ active' = MarkDown(active, r) /\ operations' = operations
        /\ downs' = downs \ {r} /\ UNCHANGED <<owner, queue, monitors, pc>>
    BY <1>5 DEF ServeDown
  <2>2. active \in Operations /\ active # NoOperation /\ Placed(active) /\ Taken(active)
    BY <1>3, <1>5 DEF OwnedBy, NoOperation, Holding, AllPlaced
  <2>3. /\ active' \in Operations /\ active'.from = active.from /\ Placed(active')
        /\ Carries(active', r)
        /\ \A k \in LockKeys : owner[k] # None /\ Carries(active, <<owner[k], k>>) =>
              Carries(active', <<owner[k], k>>)
    BY <1>5, <2>1, <2>2, MarkDownKeeps
  <2>4. active' # NoOperation
    BY <2>3 DEF Carries, NoOperation
  <2>5. AllPlaced'
    <3>1. Placed(active)' /\ Taken(active)'
      BY <1>1, <2>1, <2>2, <2>3 DEF Placed, Taken
    <3>2. \A j \in 1..Len(operations') : Placed(operations[j])' /\ Taken(operations[j])'
      BY <1>1, <2>1 DEF Holding, AllPlaced, Placed, Taken
    <3> QED BY <3>1, <3>2 DEF AllPlaced
  <2>6. OneEach' /\ WorkerBusy'
    BY <1>1, <2>1, <2>2, <2>3, <2>4 DEF Holding, OneEach, WorkerBusy
  <2>7. NoLeakedLock'
    <3> SUFFICES ASSUME NEW k \in LockKeys, owner[k] \notin alive \union {None},
                        <<owner[k], k>> \notin downs'
                 PROVE  \/ Carries(active', <<owner[k], k>>)
                        \/ \E j \in 1..Len(operations) : Carries(operations[j], <<owner[k], k>>)
      BY <1>1, <2>1, LeakParts
    <3>1. <<owner[k], k>> = r => Carries(active', <<owner[k], k>>)
      BY <2>3
    <3> QED BY <2>1, <2>3, <3>1, LeakParts DEF Holding
  <2> QED BY <1>4, <2>1, <2>5, <2>6, <2>7 DEF Holding
<1>6. CASE ~OwnedBy(active, c) /\ Queued(c) # {}
  <2>1. PICK j \in Queued(c) : operations' = [operations EXCEPT ![j] = MarkDown(@, r)]
    BY <1>6 DEF ServeDown
  <2>2. active' = active /\ downs' = downs \ {r} /\ UNCHANGED <<owner, queue, monitors, pc>>
    BY <1>6 DEF ServeDown
  <2>3. /\ j \in 1..Len(operations) /\ operations[j] \in Operations
        /\ OwnedBy(operations[j], c) /\ Placed(operations[j])
    BY <1>3 DEF Queued, Holding, AllPlaced
  <2>4. /\ Len(operations') = Len(operations)
        /\ operations'[j] = MarkDown(operations[j], r)
        /\ \A i \in 1..Len(operations) : i # j => operations'[i] = operations[i]
    BY <1>3, <2>1, <2>3
  <2>5. /\ operations'[j] \in Operations /\ operations'[j].from = operations[j].from
        /\ Placed(operations'[j])
        /\ Carries(operations'[j], r)
        /\ \A k \in LockKeys : owner[k] # None /\ Carries(operations[j], <<owner[k], k>>) =>
              Carries(operations'[j], <<owner[k], k>>)
    BY <2>3, <2>4, MarkDownKeeps
  <2>6. \A i \in 1..Len(operations) : /\ operations'[i].from = operations[i].from
                                      /\ Placed(operations'[i])
                                      /\ inbox[operations[i].from] = NoRequest
    BY <2>4, <2>5 DEF Holding, AllPlaced, Taken
  <2>7. AllPlaced'
    <3>1. active' # NoOperation => Placed(active)' /\ Taken(active)'
      BY <1>1, <2>2 DEF Holding, AllPlaced, Placed, Taken
    <3>2. ASSUME NEW i \in 1..Len(operations') PROVE Placed(operations[i])' /\ Taken(operations[i])'
      <4>1. /\ Placed(operations'[i]) /\ inbox[operations'[i].from] = NoRequest
        BY <2>4, <2>6
      <4> QED BY <4>1, <1>1, <2>2 DEF Placed, Taken
    <3> QED BY <3>1, <3>2 DEF AllPlaced
  <2>8. OneEach' /\ WorkerBusy'
    BY <1>1, <2>2, <2>4, <2>6 DEF Holding, OneEach, WorkerBusy
  <2>9. NoLeakedLock'
    <3> SUFFICES ASSUME NEW k \in LockKeys, owner[k] \notin alive \union {None},
                        <<owner[k], k>> \notin downs'
                 PROVE  \/ Carries(active, <<owner[k], k>>)
                        \/ \E i \in 1..Len(operations) : Carries(operations'[i], <<owner[k], k>>)
      BY <1>1, <2>2, <2>4, LeakParts
    <3>1. CASE <<owner[k], k>> = r
      BY <2>3, <2>5, <3>1
    <3>2. CASE <<owner[k], k>> # r
      <4>1. \/ Carries(active, <<owner[k], k>>)
            \/ \E i \in 1..Len(operations) : Carries(operations[i], <<owner[k], k>>)
        BY <2>2, <3>2, LeakParts DEF Holding
      <4> QED BY <2>4, <2>5, <4>1
    <3> QED BY <3>1, <3>2
  <2> QED BY <1>4, <2>2, <2>7, <2>8, <2>9 DEF Holding
<1>7. CASE ~OwnedBy(active, c) /\ Queued(c) = {}
  <2> DEFINE refs == Known({r})
             ok == {}
             err == {}
             none == {}
             nobody == {}
  <2>1. /\ Release(refs) /\ Answer(ok, err, PromotedBy(refs), none)
        /\ UNCHANGED <<active, operations>>
    BY <1>7 DEF ServeDown
  <2>2. /\ refs \in SUBSET (Clients \X LockKeys)
        /\ \A d \in Clients : d \in ok \union err => inbox'[d] = NoRequest
        /\ \A s \in refs : inbox'[s[1]] = NoRequest
        /\ \A d \in Clients : d \in none => <<d, txKey[d]>> \in refs
        /\ nobody \in SUBSET Clients /\ Unsent(nobody)
        /\ TableAgrees /\ AsksInTurn
    BY <1>1, <1>2 DEF Known, Unsent, Holding
  <2>3. WorkerBusy' /\ StoreTypeOK
    BY <1>1, <2>1 DEF Holding, WorkerBusy
  <2>4. \A s \in refs : s = r
    BY DEF Known
  <2>5. \A op : op.from \notin ok \union err
    OBVIOUS
  <2> HIDE DEF refs, ok, err, none, nobody
  <2>6. TableAgrees' /\ AsksInTurn'
    BY <1>1, <2>1, <2>2, Settled
  <2>7. \A l \in LockKeys : owner'[l] \notin alive \union {None} =>
            \/ <<owner'[l], l>> \in downs'
            \/ owner'[l] = owner[l] /\ <<owner[l], l>> \notin refs /\ <<owner[l], l>> \notin downs
    BY <1>1, <2>1, <2>2, Settled
  <2>8. ASSUME NEW op \in Operations, Placed(op), Taken(op), ~OwnedBy(op, c)
        PROVE  Placed(op)' /\ Taken(op)'
    <3>1. op.kind = "commit" /\ op.owner # None => \A k \in LockKeys : <<op.from, k>> \notin refs
      BY <1>2, <2>4, <2>8 DEF OwnedBy, Placed
    <3>2. Placed(op)'
      BY <1>1, <2>1, <2>5, <2>8, <3>1, StaysPlaced
    <3> QED BY <1>1, <2>8, <3>2 DEF Taken
  <2>9. AllPlaced'
    <3>1. ASSUME active # NoOperation PROVE Placed(active)' /\ Taken(active)'
      <4>1. active \in Operations /\ Placed(active) /\ Taken(active) /\ ~OwnedBy(active, c)
        BY <1>3, <1>7, <3>1 DEF Holding, AllPlaced
      <4> QED BY <2>1, <2>8, <4>1 DEF Placed, Taken
    <3>2. ASSUME NEW j \in 1..Len(operations) PROVE Placed(operations[j])' /\ Taken(operations[j])'
      <4>1. operations[j] \in Operations /\ Placed(operations[j]) /\ Taken(operations[j])
            /\ ~OwnedBy(operations[j], c)
        BY <1>3, <1>7 DEF Holding, AllPlaced, Queued
      <4> QED BY <2>1, <2>8, <4>1 DEF Placed, Taken
    <3> QED BY <2>1, <3>1, <3>2 DEF AllPlaced
  <2>10. OneEach'
    BY <2>1 DEF Holding, OneEach
  <2>11. NoLeakedLock'
    <3> SUFFICES ASSUME NEW k \in LockKeys, owner'[k] \notin alive \union {None},
                        <<owner'[k], k>> \notin downs'
                 PROVE  \/ Carries(active, <<owner'[k], k>>)
                        \/ \E j \in 1..Len(operations) : Carries(operations[j], <<owner'[k], k>>)
      BY <1>1, <2>1, LeakParts
    <3> QED BY <2>7, LeakParts DEF Holding
  <2> QED BY <2>3, <2>6, <2>9, <2>10, <2>11 DEF Holding
<1> QED BY <1>5, <1>6, <1>7

-----------------------------------------------------------------------------
\* A process that does not wait moves.
LEMMA MoveHolds ==
    ASSUME Locking, Holding, NoneAssumption, NEW c \in Clients,
           pc[c] \in {"idle", "body", "ending"},
           UNCHANGED <<lockVars, alive, active, operations, worker>>,
           \A d \in Clients \ {c} :
               pc'[d] = pc[d] /\ txKey'[d] = txKey[d] /\ inbox'[d] = inbox[d],
           pc[c] # "idle" => txKey'[c] = txKey[c] /\ pc'[c] \notin {"idle", "calling"},
           inbox'[c].op = "unlock" => inbox'[c].key = txKey'[c],
           inbox'[c].op = "fetch" => pc'[c] \in {"fetching", "calling"},
           inbox'[c].op \in {"set", "clear"} => pc'[c] = "calling",
           inbox'[c].op = "commit" => pc'[c] = "committing" /\ owner[txKey'[c]] = c
    PROVE  Holding'
<1> USE TypeParts DEF Locking
<1>1. UNCHANGED <<owner, monitors, downs>>
  BY DEF lockVars
<1>2. TableAgrees'
  <2>1. ASSUME NEW k \in LockKeys, owner[k] # None
        PROVE  txKey'[owner[k]] = k /\ pc'[owner[k]] \notin {"idle", "calling"}
    <3>1. owner[k] \in Clients /\ txKey[owner[k]] = k /\ pc[owner[k]] \notin {"idle", "calling"}
      BY <2>1, ZenonT(40) DEF Holding, TableAgrees, LockTypeOK
    <3>2. CASE owner[k] = c
      BY <3>1, <3>2
    <3>3. CASE owner[k] # c
      BY <3>1, <3>3
    <3> QED BY <3>2, <3>3
  <2> QED BY <1>1, <2>1 DEF Holding, TableAgrees
<1>3. AsksInTurn'
  <2> SUFFICES ASSUME NEW d \in Clients
               PROVE  /\ inbox'[d].op = "unlock" => inbox'[d].key = txKey'[d]
                      /\ inbox'[d].op = "fetch" => pc'[d] \in {"fetching", "calling"}
                      /\ inbox'[d].op \in {"set", "clear"} => pc'[d] = "calling"
                      /\ inbox'[d].op = "commit" => pc'[d] = "committing" /\ owner[txKey'[d]] = d
    BY <1>1 DEF AsksInTurn
  <2>1. CASE d = c
    BY <2>1
  <2>2. CASE d # c
    BY <2>2 DEF Holding, AsksInTurn
  <2> QED BY <2>1, <2>2
<1>4. ASSUME NEW op \in Operations, Placed(op), Taken(op) PROVE Placed(op)' /\ Taken(op)'
  <2>1. op.from \in Clients /\ op.kind \in {"fetch", "commit"}
    BY DEF Operations, Fetches, Commits
  <2>2. op.from # c
    BY <1>4, <2>1 DEF Placed
  <2>3. /\ pc'[op.from] = pc[op.from] /\ txKey'[op.from] = txKey[op.from]
        /\ inbox'[op.from] = inbox[op.from]
    BY <2>1, <2>2
  <2> QED BY <1>1, <1>4, <2>3 DEF Placed, Taken
<1>5. WorkerBusy' /\ StoreTypeOK
  BY DEF Holding, WorkerBusy
<1>6. \A k \in LockKeys : owner'[k] \notin alive' \union {None} =>
          \/ <<owner'[k], k>> \in downs'
          \/ owner'[k] = owner[k] /\ owner[k] \notin alive /\ <<owner[k], k>> \notin downs
  BY <1>1
<1> QED BY <1>2, <1>3, <1>4, <1>5, <1>6, KeptInPlace

\* A process dies: its locks' :DOWNs are under way.
LEMMA DieHolds ==
    ASSUME Locking, Holding, NEW c \in Clients, Die(c), UNCHANGED storeVars
    PROVE  Holding'
<1> USE TypeParts DEF Locking
<1>1. /\ UNCHANGED <<owner, monitors, pc, txKey, inbox, active, operations, worker>>
      /\ alive' = alive \ {c} /\ downs' = downs \union {r \in monitors : r[1] = c}
  BY DEF Die, Exit, storeVars
<1>2. TableAgrees' /\ AsksInTurn' /\ WorkerBusy' /\ StoreTypeOK
  BY <1>1 DEF Holding, TableAgrees, AsksInTurn, WorkerBusy
<1>3. \A op \in Operations : Placed(op) /\ Taken(op) => Placed(op)' /\ Taken(op)'
  BY <1>1 DEF Placed, Taken
<1>4. ASSUME NEW k \in LockKeys, owner'[k] \notin alive' \union {None}
      PROVE  \/ <<owner'[k], k>> \in downs'
             \/ owner'[k] = owner[k] /\ owner[k] \notin alive /\ <<owner[k], k>> \notin downs
  <2>1. owner[k] = c => <<owner[k], k>> \in downs'
    BY <1>1, <1>4 DEF Holding, TableAgrees
  <2> QED BY <1>1, <1>4, <2>1
<1> QED BY <1>1, <1>2, <1>3, <1>4, KeptInPlace

\* The callers' steps.
LEMMA CallersHold ==
    ASSUME Locking, Holding, NoneAssumption, NEW c \in Clients,
           Caller(c) \/ Commit(c) \/ Unlock(c) \/ (MayClear /\ Clearing(c))
    PROVE  Holding'
<1> USE TypeParts DEF Locking
<1>1. /\ pc \in [Clients -> PCs] /\ inbox \in [Clients -> Requests]
      /\ txKey \in [Clients -> LockKeys \union {None}] /\ c \in Clients
  BY DEF ClientTypeOK
<1>2. /\ inbox[c].op = "unlock" => inbox[c].key = txKey[c]
      /\ inbox[c].op = "fetch" => pc[c] \in {"fetching", "calling"}
      /\ inbox[c].op \in {"set", "clear"} => pc[c] = "calling"
      /\ inbox[c].op = "commit" => pc[c] = "committing" /\ owner[txKey[c]] = c
  BY DEF Holding, AsksInTurn
<1>3. ASSUME UNCHANGED storeVars PROVE UNCHANGED <<active, operations, worker>>
  BY <1>3 DEF storeVars
<1>4. ASSUME NEW k \in LockKeys, Begin(c, k), UNCHANGED storeVars PROVE Holding'
  BY <1>1, <1>3, <1>4, MoveHolds DEF Begin, At, Call
<1>5. ASSUME NEW request, PlainCall(c, request), UNCHANGED storeVars,
             request.op \in {"fetch", "set", "clear"}
      PROVE  Holding'
  BY <1>1, <1>3, <1>5, MoveHolds DEF PlainCall, At, Call
<1>6. ASSUME NEW ids, GetInside(c, ids) PROVE Holding'
  <2>1. /\ pc[c] = "body" /\ UNCHANGED <<lockVars, alive, txKey>>
        /\ UNCHANGED <<active, operations, worker>>
    BY <1>6, <1>3 DEF GetInside, At
  <2>2. CASE UNCHANGED <<pc, inbox>>
    BY <1>1, <1>2, <2>1, <2>2, MoveHolds
  <2>3. CASE Call(c, [op |-> "fetch", ids |-> MissingIds(buffer[c], ids)], "fetching")
    BY <1>1, <2>1, <2>3, MoveHolds DEF Call
  <2> QED BY <1>6, <2>2, <2>3 DEF GetInside
<1>7. ASSUME \/ \E i \in Ids, value \in Entries : Put(c, i, value)
             \/ Raise(c) \/ ClearInside(c),
             UNCHANGED storeVars
      PROVE  Holding'
  <2>1. /\ pc[c] = "body" /\ UNCHANGED <<lockVars, alive, txKey, inbox>>
        /\ pc' = pc \/ pc' = [pc EXCEPT ![c] = "ending"]
    BY <1>7 DEF Put, Raise, ClearInside, At
  <2> QED BY <1>1, <1>2, <1>3, <1>7, <2>1, MoveHolds
<1>8. ASSUME SendCommit(c), UNCHANGED storeVars PROVE Holding'
  <2>1. /\ c \in alive /\ pc[c] = "body" /\ UNCHANGED <<lockVars, alive, txKey>>
        /\ pc' = [pc EXCEPT ![c] = "committing"]
        /\ \A d \in Clients \ {c} : inbox'[d] = inbox[d]
        /\ inbox'[c].op = "commit"
    BY <1>1, <1>8 DEF SendCommit, Call, At
  <2>2. txKey[c] \in LockKeys /\ In(c, txKey[c])
    BY <2>1 DEF In, Inside, ClientTypeOK
  <2>3. owner[txKey[c]] = c
    BY <2>2 DEF LockInv, OwnerHolds
  <2> QED BY <1>1, <1>3, <1>8, <2>1, <2>3, MoveHolds
<1>9. ASSUME End(c), UNCHANGED storeVars PROVE Holding'
  BY <1>1, <1>3, <1>9, MoveHolds DEF End, Call, At
<1>10. ASSUME Die(c), UNCHANGED storeVars PROVE Holding'
  BY <1>10, DieHolds
<1>11. CASE Caller(c)
  <2>1. CASE \E ids \in ReadSets : Get(c, ids)
    BY <2>1, <1>5 DEF Get
  <2>2. CASE \E i \in Ids, value \in Entries : SetInside(c, i, value)
    BY <2>2, <1>7 DEF SetInside
  <2> QED BY <1>4, <1>5, <1>6, <1>7, <1>10, <1>11, <2>1, <2>2 DEF Caller
<1>12. CASE Commit(c) \/ Unlock(c)
  BY <1>8, <1>9, <1>12 DEF Commit, Unlock
<1>13. CASE Clearing(c)
  BY <1>5, <1>7, <1>13 DEF Clearing
<1> QED BY <1>11, <1>12, <1>13

-----------------------------------------------------------------------------
\* The data requests: each becomes an operation of the process that waits.
LEMMA DataHandlersHold ==
    ASSUME Locking, Holding, NoneAssumption, KeyStoreAssumption, NEW c \in Clients,
           ServeFetch(c) \/ ServeSet(c) \/ ServeClear(c) \/ ServeCommit(c)
    PROVE  Holding'
<1>1. inbox[c] \in Requests
  BY DEF Locking, TypeOK, ClientTypeOK
<1>2. /\ inbox[c].op = "fetch" => pc[c] \in {"fetching", "calling"}
      /\ inbox[c].op \in {"set", "clear"} => pc[c] = "calling"
      /\ inbox[c].op = "commit" => pc[c] = "committing" /\ owner[txKey[c]] = c
      /\ inbox[c].op \in {"set", "commit"} => inbox[c].data \in DataSets
      /\ inbox[c].op = "commit" => inbox[c].clear \in BOOLEAN
      /\ inbox[c].op = "fetch" => inbox[c].ids \in SUBSET Ids
      /\ inbox[c].op # "none" => inbox[c] # NoRequest
  BY <1>1 DEF Holding, AsksInTurn, Requests, NoRequest
<1>3. CASE ServeFetch(c)
  <2> DEFINE op == NewFetch(c, inbox[c].ids)
  <2>1. Serve(c, "fetch", op) /\ inbox[c].op = "fetch"
    BY <1>3 DEF ServeFetch, Serve, Received
  <2>2. op \in Operations /\ op.from = c /\ op.kind = "fetch"
    BY <1>2, <2>1 DEF NewFetch, Operations, Fetches
  <2> HIDE DEF op
  <2>3. Placed(op) /\ \A r : ~Carries(op, r)
    BY <1>2, <2>1, <2>2 DEF Placed, Carries
  <2> QED BY <1>2, <2>1, <2>2, <2>3, ServeHolds
<1>4. ASSUME NEW name, NEW data \in DataSets, NEW clear \in BOOLEAN, NEW txOwner \in {c, None},
             Serve(c, name, NewCommit(c, data, clear, txOwner)), inbox[c] # NoRequest,
             txOwner = None => pc[c] = "calling",
             txOwner # None => pc[c] = "committing" /\ owner[txKey[c]] = c
      PROVE  Holding'
  <2> DEFINE op == NewCommit(c, data, clear, txOwner)
  <2>1. /\ op \in Operations /\ op.from = c /\ op.kind = "commit"
        /\ op.owner = txOwner /\ op.down = {}
    BY <1>4 DEF NewCommit, Operations, Commits, KeyStoreAssumption
  <2>2. Serve(c, name, op)
    BY <1>4
  <2> HIDE DEF op
  <2>3. Placed(op) /\ \A r : ~Carries(op, r)
    BY <1>4, <2>1 DEF Placed, Carries
  <2> QED BY <1>4, <2>1, <2>2, <2>3, ServeHolds
<1>5. CASE ServeSet(c)
  <2>1. inbox[c].op = "set" /\ Serve(c, "set", NewCommit(c, inbox[c].data, FALSE, None))
    BY <1>5 DEF ServeSet, Serve, Received
  <2> QED BY <1>2, <1>4, <2>1
<1>6. CASE ServeClear(c)
  <2>1. inbox[c].op = "clear" /\ Serve(c, "clear", NewCommit(c, NoData, TRUE, None))
    BY <1>6 DEF ServeClear, Serve, Received
  <2> QED BY <1>2, <1>4, <2>1, NoDataType
<1>7. CASE ServeCommit(c)
  <2>1. inbox[c].op = "commit" /\ Serve(c, "commit", NewCommit(c, inbox[c].data, inbox[c].clear, c))
    BY <1>7 DEF ServeCommit, Serve, Received
  <2> QED BY <1>2, <1>4, <2>1, NoneAssumption
<1> QED BY <1>3, <1>5, <1>6, <1>7

\* The task's steps and its results.
LEMMA TaskHolds ==
    ASSUME Locking, Holding, NoneAssumption,
           \/ Worker \/ Faults
           \/ CompleteFetch \/ CompleteCommit \/ Retry \/ RetryTimer \/ Fail
    PROVE  Holding'
<1> USE TypeParts DEF Locking
<1>1. active \in Operations \union {NoOperation}
  BY DEF StoreTypeOK, ServerTypeOK
<1>2. worker.phase # "idle" => active # NoOperation
  BY DEF Holding, WorkerBusy
<1>3. ASSUME UNCHANGED <<lockVars, alive, pc, txKey, inbox, active, operations>>, WorkerBusy'
      PROVE  Holding'
  <2>1. TableAgrees' /\ AsksInTurn' /\ StoreTypeOK
    BY <1>3 DEF Holding, TableAgrees, AsksInTurn, lockVars
  <2>2. \A op \in Operations : Placed(op) /\ Taken(op) => Placed(op)' /\ Taken(op)'
    BY <1>3 DEF Placed, Taken, lockVars
  <2>3. \A k \in LockKeys : owner'[k] \notin alive' \union {None} =>
            \/ <<owner'[k], k>> \in downs'
            \/ owner'[k] = owner[k] /\ owner[k] \notin alive /\ <<owner[k], k>> \notin downs
    BY <1>3 DEF lockVars
  <2> QED BY <1>3, <2>1, <2>2, <2>3, KeptInPlace
<1>4. ASSUME UNCHANGED workerUnchanged, worker.phase # "idle" PROVE Holding'
  <2>1. UNCHANGED <<lockVars, alive, pc, txKey, inbox, active, operations>>
    BY <1>4 DEF workerUnchanged, clientVars, serverVars
  <2>2. WorkerBusy'
    BY <1>2, <1>4, <2>1 DEF WorkerBusy
  <2> QED BY <1>3, <2>1, <2>2
<1>5. CASE Worker
  <2>1. worker.phase # "idle"
    BY <1>5 DEF Worker, Load, Snapshot, Written, Restored, Delete, Write, Restore, Started
  <2>2. UNCHANGED workerUnchanged
    BY <1>5 DEF Worker, Load, Snapshot, Written, Restored, Delete, Write, Restore
  <2> QED BY <1>4, <2>1, <2>2
<1>6. CASE LoadFails \/ RestoreFails \/ \E i \in Ids : WriteFails(i)
  <2>1. worker.phase # "idle"
    BY <1>6 DEF LoadFails, RestoreFails, WriteFails, Started
  <2>2. UNCHANGED workerUnchanged
    BY <1>6 DEF LoadFails, RestoreFails, WriteFails
  <2> QED BY <1>4, <2>1, <2>2
<1>7. CASE TaskExit \/ CompleteFetch \/ CompleteCommit \/ Fail
  <2>1. worker.phase # "idle" /\ UNCHANGED <<alive, txKey, inbox>>
    BY <1>7 DEF TaskExit, CompleteFetch, CompleteCommit, Fail, completeUnchanged
  <2>2. \E failed : Finish(failed)
    BY <1>7 DEF TaskExit, CompleteFetch, CompleteCommit, Fail
  <2> QED BY <1>2, <2>1, <2>2, FinishHolds
<1>8. CASE Retry
  <2>1. /\ active.kind = "commit" /\ active' = [active EXCEPT !.attempts = @ - 1]
        /\ worker' = NoWorker
        /\ UNCHANGED <<lockVars, alive, pc, txKey, inbox, operations>>
    BY <1>8 DEF Retry, MayRetry, completeUnchanged, clientVars
  <2>2. active \in Commits /\ active # NoOperation /\ Placed(active) /\ Taken(active)
    BY <1>1, <2>1 DEF Operations, Fetches, NoOperation, Holding, AllPlaced
  <2>3. /\ active'.kind = "commit" /\ active'.from = active.from
        /\ active'.owner = active.owner /\ active'.down = active.down
    BY <2>1, <2>2 DEF Commits
  <2>4. TableAgrees' /\ AsksInTurn' /\ WorkerBusy'
    BY <2>1 DEF Holding, TableAgrees, AsksInTurn, WorkerBusy, NoWorker, lockVars
  <2>5. AllPlaced'
    <3>1. Placed(active)' /\ Taken(active)'
      BY <2>1, <2>2, <2>3 DEF Placed, Taken, lockVars
    <3>2. \A j \in 1..Len(operations') : Placed(operations[j])' /\ Taken(operations[j])'
      BY <2>1 DEF Holding, AllPlaced, Placed, Taken, lockVars
    <3> QED BY <3>1, <3>2 DEF AllPlaced
  <2>6. OneEach'
    BY <2>1, <2>2, <2>3 DEF Holding, OneEach
  <2>7. NoLeakedLock'
    <3>1. \A r : Carries(active', r) <=> Carries(active, r)
      BY <2>1, <2>3 DEF Carries
    <3>2. owner' = owner /\ downs' = downs /\ alive' = alive /\ operations' = operations
      BY <2>1 DEF lockVars
    <3> SUFFICES ASSUME NEW k \in LockKeys, owner[k] \notin alive \union {None}
                 PROVE  \/ <<owner[k], k>> \in downs
                        \/ Carries(active', <<owner[k], k>>)
                        \/ \E j \in 1..Len(operations) : Carries(operations[j], <<owner[k], k>>)
      BY <3>2, LeakParts
    <3> QED BY <3>1, LeakParts DEF Holding
  <2> QED BY <2>4, <2>5, <2>6, <2>7 DEF Holding
<1>9. CASE RetryTimer
  <2>1. UNCHANGED <<lockVars, alive, pc, txKey, inbox, active, operations>>
    BY <1>9 DEF RetryTimer, clientVars, serverVars
  <2>2. WorkerBusy'
    BY <1>9, <2>1 DEF RetryTimer, WorkerBusy
  <2> QED BY <1>3, <2>1, <2>2
<1> QED BY <1>5, <1>6, <1>7, <1>8, <1>9 DEF Faults

-----------------------------------------------------------------------------
LEMMA InitHolds ==
    ASSUME Init
    PROVE  Holding
<1>1. TableAgrees
  BY DEF Init, LockInit, TableAgrees
<1>2. AsksInTurn
  BY DEF Init, ClientInit, AsksInTurn, NoRequest
<1>3. AllPlaced /\ OneEach /\ WorkerBusy
  BY DEF Init, AllPlaced, OneEach, WorkerBusy, NoWorker
<1>4. NoLeakedLock
  BY DEF Init, LockInit, NoLeakedLock
<1> QED BY <1>1, <1>2, <1>3, <1>4 DEF Holding

LEMMA NextHolds ==
    ASSUME Locking, Holding, [Next]_vars, NoneAssumption, KeyStoreAssumption
    PROVE  Holding'
<1>1. CASE Callers
  BY <1>1, CallersHold DEF Callers
<1>2. CASE Server
  BY <1>2, ServeLockHolds, ServeUnlockHolds, DataHandlersHold, ServeDownHolds, TaskHolds DEF Server
<1>3. CASE Worker \/ Faults
  BY <1>3, TaskHolds
<1>4. CASE Rest \/ UNCHANGED vars
  BY <1>4 DEF Rest, vars, lockVars, clientVars, storeVars, Holding, TableAgrees, AsksInTurn,
       AllPlaced, Placed, Taken, OneEach, WorkerBusy, NoLeakedLock, Held
<1> QED BY <1>1, <1>2, <1>3, <1>4 DEF Next

\* The lock table, the mailbox and the operations agree in every reachable
\* state, whatever dies, fails or is refused.
LEMMA HoldingAlways == Spec => [](Locking /\ Holding)
<1>1. Init => Holding
  BY InitHolds
<1>2. Locking /\ Holding /\ [Next]_vars => Holding'
  BY NextHolds, NoneAssumption, KeyStoreAssumption
<1> QED BY <1>1, <1>2, LocksAgree, PTL DEF Spec

\* A transaction's commit is queued, run and retried under its lock
\* (key_store.ex, enqueue_operation to complete_operation), also when the
\* process that ran the transaction dies: mark_owner_down keeps the lock.
THEOREM CommitsHoldTheirLocks == Spec => []CommitHoldsLock
<1>1. Holding => CommitHoldsLock
  <2> SUFFICES ASSUME Holding, NEW op \in Held, op.kind = "commit", op.owner # None
               PROVE  owner[txKey[op.owner]] = op.owner
    BY DEF CommitHoldsLock
  <2>1. Placed(op)
    BY DEF Held, Holding, AllPlaced
  <2> QED BY <2>1 DEF Placed
<1> QED BY <1>1, HoldingAlways, PTL

\* The lock of a dead process is not forgotten: until it is released, its :DOWN
\* is under way or a commit that will end carries its reference (owner_down).
THEOREM NoLockLeaks == Spec => []NoLeakedLock
<1>1. Holding => NoLeakedLock
  BY DEF Holding
<1> QED BY <1>1, HoldingAlways, PTL

-----------------------------------------------------------------------------
\* What the task of the active operation has done so far, as long as no task
\* was killed and no rollback failed.
Changes(i) == i \in DOMAIN worker.plan \union ClearedIds

WritingInPart ==
    /\ worker.deletes \subseteq ClearedIds
    /\ DOMAIN worker.plan \subseteq SnapshotIds
    /\ DOMAIN worker.writes \subseteq DOMAIN worker.plan
    /\ \A i \in DOMAIN worker.writes : worker.writes[i] = worker.plan[i]
    /\ worker.deletes # {} => DOMAIN worker.writes = DOMAIN worker.plan
    /\ DOMAIN worker.snapshot = SnapshotIds
    /\ \A i \in SnapshotIds \ spared : worker.snapshot[i] = committed[i]
    /\ \A i \in Ids :
          /\ i \in DOMAIN worker.plan \ DOMAIN worker.writes => persisted[i] = worker.plan[i]
          /\ i \in ClearedIds \ (worker.deletes \union DOMAIN worker.plan) => persisted[i] = Missing
          /\ ~Changes(i) /\ i \notin spared => persisted[i] = committed[i]

RestoringInPart ==
    \A i \in Ids \ spared :
        IF i \in DOMAIN worker.writes THEN worker.writes[i] = committed[i]
        ELSE persisted[i] = committed[i]

WrittenWhole ==
    \A i \in Ids :
        /\ i \in DOMAIN worker.plan => persisted[i] = worker.plan[i]
        /\ i \in ClearedIds \ DOMAIN worker.plan => persisted[i] = Missing
        /\ ~Changes(i) /\ i \notin spared => persisted[i] = committed[i]

BackendAgrees == \A i \in Ids \ spared : persisted[i] = committed[i]

\* By what clear/1 says, what it has spared is gone.
SparedAreGone == \A i \in spared : committed[i] = Missing

TaskAgrees ==
    /\ worker.phase = "writing" => WritingInPart
    /\ worker.phase = "restoring" => RestoringInPart
    /\ worker.phase = "written" => WrittenWhole
    /\ worker.phase = "loaded" =>
           \A i \in DOMAIN worker.entries \ spared : worker.entries[i] = committed[i]
    /\ worker.phase # "rollback_failed"
    /\ worker.phase \notin {"writing", "restoring", "written"} => BackendAgrees

\* The task of a commit writes.
CommitsWrite == worker.phase \in {"writing", "written"} => active.kind = "commit"

Atomic == CommitsWrite /\ SparedAreGone /\ (clean => CacheIsCommitted /\ TaskAgrees)

\* What is stored is committed, when nothing is being written.
LEMMA StoredIsCommitted ==
    ASSUME clean, CacheIsCommitted, BackendAgrees, NEW i \in Ids \ spared
    PROVE  Stored(i) = committed[i]
BY DEF Stored, CacheIsCommitted, BackendAgrees

\* The start of another operation: nothing has been written for it.
LEMMA IdleAgrees ==
    ASSUME worker' \in {NoWorker, Started}, SparedAreGone',
           clean' => CacheIsCommitted' /\ BackendAgrees'
    PROVE  Atomic'
BY DEF Atomic, CommitsWrite, TaskAgrees, NoWorker, Started

LEMMA StartNextWorker ==
    ASSUME NEW q, NEW ended, NEW failed, StartNext(q, ended, failed)
    PROVE  worker' \in {NoWorker, Started}
BY DEF StartNext

\* Steps that leave the store, the task and the active operation's data alone.
LEMMA AtomicKept ==
    ASSUME Atomic, UNCHANGED <<cache, known, worker, persisted, historyVars, clean>>,
           \/ worker.phase = "idle"
           \/ /\ active'.kind = active.kind
              /\ active.kind = "commit" => active'.data = active.data /\ active'.clear = active.clear
    PROVE  Atomic'
<1>1. /\ CacheIsCommitted => CacheIsCommitted'
      /\ SparedAreGone => SparedAreGone'
      /\ BackendAgrees => BackendAgrees'
  BY DEF CacheIsCommitted, SparedAreGone, BackendAgrees
<1>2. ASSUME TaskAgrees PROVE TaskAgrees'
  <2>1. worker.phase \in {"writing", "written"} => ClearedIds' = ClearedIds /\ SnapshotIds' = SnapshotIds
    BY DEF ClearedIds, SnapshotIds, Atomic, CommitsWrite
  <2>2. worker.phase = "writing" => WritingInPart'
    BY <1>2, <2>1 DEF TaskAgrees, WritingInPart, Changes
  <2>3. worker.phase = "restoring" => RestoringInPart'
    BY <1>2 DEF TaskAgrees, RestoringInPart
  <2>4. worker.phase = "written" => WrittenWhole'
    BY <1>2, <2>1 DEF TaskAgrees, WrittenWhole, Changes
  <2> QED BY <1>1, <1>2, <2>2, <2>3, <2>4 DEF TaskAgrees
<1> QED BY <1>1, <1>2 DEF Atomic, CommitsWrite

\* The task's own steps.
LEMMA TaskAtomic ==
    ASSUME TypeOK, Atomic, KeyStoreAssumption,
           Worker \/ LoadFails \/ RestoreFails \/ \E i \in Ids : WriteFails(i)
    PROVE  Atomic'
<1> USE TypeParts
<1>1. /\ persisted \in [Ids -> Entries] /\ committed \in [Ids -> Entries] /\ known \subseteq Ids
      /\ StoreTypeOK
  BY DEF StoreTypeOK
<1>2. UNCHANGED <<cache, known, active, historyVars>>
  BY DEF Worker, Load, Snapshot, Written, Restored, Delete, Write, Restore,
         LoadFails, RestoreFails, WriteFails, workerUnchanged, serverVars
<1>3. /\ CacheIsCommitted /\ (clean' => clean) => CacheIsCommitted'
      /\ SparedAreGone => SparedAreGone'
      /\ persisted' = persisted /\ BackendAgrees => BackendAgrees'
  BY <1>2 DEF CacheIsCommitted, SparedAreGone, BackendAgrees
<1>4. ClearedIds' = ClearedIds /\ SnapshotIds' = SnapshotIds
  BY <1>2 DEF ClearedIds, SnapshotIds
<1>5. CASE Load
  <2>1. worker.phase = "start" /\ active.kind = "fetch"
    BY <1>5 DEF Load, Started
  <2>2. worker' = [phase |-> "loaded", entries |-> [i \in active.ids |-> Stored(i)]]
        /\ persisted' = persisted /\ clean' = clean
    BY <1>5 DEF Load
  <2>3. active.ids \subseteq Ids
    BY <1>1, <2>1, ActiveType
  <2>4. ASSUME clean PROVE TaskAgrees'
    <3>1. CacheIsCommitted /\ BackendAgrees
      BY <2>1, <2>4 DEF Atomic, TaskAgrees
    <3>2. \A i \in active.ids \ spared : Stored(i) = committed[i]
      BY <2>3, <2>4, <3>1, StoredIsCommitted
    <3> QED BY <1>2, <1>3, <2>2, <3>1, <3>2 DEF TaskAgrees
  <2> QED BY <1>3, <2>2, <2>4 DEF Atomic, CommitsWrite
<1>6. CASE Snapshot
  <2> DEFINE snapshot == [i \in SnapshotIds |-> Stored(i)]
             plan == Prepare(active.data, snapshot)
  <2>1. /\ worker.phase = "start" /\ active.kind = "commit"
        /\ worker' = [phase |-> "writing", plan |-> plan, snapshot |-> snapshot,
                      deletes |-> ClearedIds, writes |-> plan]
        /\ persisted' = persisted /\ clean' = clean
    BY <1>6 DEF Snapshot, Started
  <2>2. DOMAIN active.data \subseteq Ids /\ SnapshotIds \subseteq Ids /\ ClearedIds \subseteq Ids
    BY <1>1, <2>1, ActiveType DEF SnapshotIds, ClearedIds
  <2>3. DOMAIN plan \subseteq DOMAIN active.data
    BY DEF Prepare
  <2>4. ASSUME clean PROVE TaskAgrees'
    <3>1. CacheIsCommitted /\ BackendAgrees
      BY <2>1, <2>4 DEF Atomic, TaskAgrees
    <3>2. \A i \in SnapshotIds \ spared : snapshot[i] = committed[i]
      BY <2>2, <2>4, <3>1, StoredIsCommitted
    <3>3. DOMAIN snapshot = SnapshotIds
      OBVIOUS
    <3> HIDE DEF plan, snapshot
    <3>4. /\ worker'.phase = "writing" /\ worker'.plan = plan /\ worker'.snapshot = snapshot
          /\ worker'.deletes = ClearedIds /\ worker'.writes = plan
      BY <2>1
    <3>5. DOMAIN plan \subseteq SnapshotIds
      BY <2>3 DEF SnapshotIds
    <3>6. WritingInPart'
      BY <1>2, <1>4, <2>1, <3>1, <3>2, <3>3, <3>4, <3>5 DEF WritingInPart, Changes, BackendAgrees
    <3> QED BY <3>4, <3>6 DEF TaskAgrees
  <2> QED BY <1>2, <1>3, <2>1, <2>4 DEF Atomic, CommitsWrite
<1>7. CASE Written
  <2>1. /\ worker.phase = "writing" /\ worker.deletes = {} /\ DOMAIN worker.writes = {}
        /\ worker' = [phase |-> "written", plan |-> worker.plan]
        /\ persisted' = persisted /\ clean' = clean
    BY <1>7 DEF Written
  <2>2. ASSUME clean PROVE TaskAgrees'
    <3>1. WritingInPart
      BY <2>1, <2>2 DEF Atomic, TaskAgrees
    <3>2. WrittenWhole'
      BY <1>2, <1>4, <2>1, <3>1 DEF WritingInPart, WrittenWhole, Changes
    <3> QED BY <2>1, <3>2 DEF TaskAgrees
  <2> QED BY <1>2, <1>3, <2>1, <2>2 DEF Atomic, CommitsWrite
<1>8. CASE Restored
  <2>1. /\ worker.phase = "restoring" /\ DOMAIN worker.writes = {}
        /\ worker' = [phase |-> "failed"] /\ persisted' = persisted /\ clean' = clean
    BY <1>8 DEF Restored
  <2>2. clean => BackendAgrees'
    BY <1>2, <2>1 DEF Atomic, TaskAgrees, RestoringInPart, BackendAgrees
  <2> QED BY <1>2, <1>3, <2>1, <2>2 DEF Atomic, CommitsWrite, TaskAgrees
<1>9. ASSUME NEW i \in Ids, Delete(i) PROVE Atomic'
  <2>1. /\ worker.phase = "writing" /\ i \in worker.deletes /\ clean' = clean
        /\ \A j \in Ids : persisted'[j] = IF j = i THEN Missing ELSE persisted[j]
    BY <1>1, <1>9 DEF Delete
  <2>2. /\ worker'.phase = "writing" /\ worker'.plan = worker.plan
        /\ worker'.snapshot = worker.snapshot /\ worker'.writes = worker.writes
        /\ worker'.deletes = worker.deletes \ {i}
    BY <1>1, <1>9, ActiveType DEF Delete
  <2>3. ASSUME clean PROVE TaskAgrees'
    <3>1. WritingInPart
      BY <2>1, <2>3 DEF Atomic, TaskAgrees
    <3>2. WritingInPart'
      BY <1>2, <1>4, <2>1, <2>2, <3>1 DEF WritingInPart, Changes
    <3> QED BY <2>2, <3>2 DEF TaskAgrees
  <2> QED BY <1>2, <1>3, <2>1, <2>2, <2>3 DEF Atomic, CommitsWrite
<1>10. ASSUME NEW i \in Ids, Write(i) PROVE Atomic'
  <2>1. /\ worker.phase = "writing" /\ i \in DOMAIN worker.writes /\ worker.deletes = {}
        /\ clean' = clean
        /\ \A j \in Ids : persisted'[j] = IF j = i THEN worker.writes[i] ELSE persisted[j]
    BY <1>1, <1>10 DEF Write
  <2>2. /\ worker'.phase = "writing" /\ worker'.plan = worker.plan
        /\ worker'.snapshot = worker.snapshot /\ worker'.deletes = {}
        /\ worker'.writes = Without(worker.writes, i)
    BY <1>1, <1>10, <2>1, ActiveType DEF Write
  <2>3. /\ DOMAIN worker'.writes = DOMAIN worker.writes \ {i}
        /\ \A j \in DOMAIN worker.writes \ {i} : worker'.writes[j] = worker.writes[j]
    BY <2>2 DEF Without
  <2>4. ASSUME clean PROVE TaskAgrees'
    <3>1. WritingInPart
      BY <2>1, <2>4 DEF Atomic, TaskAgrees
    <3>2. WritingInPart'
      BY <1>2, <1>4, <2>1, <2>2, <2>3, <3>1 DEF WritingInPart, Changes
    <3> QED BY <2>2, <3>2 DEF TaskAgrees
  <2> QED BY <1>2, <1>3, <2>1, <2>2, <2>4 DEF Atomic, CommitsWrite
<1>11. ASSUME NEW i \in Ids, Restore(i) PROVE Atomic'
  <2>1. /\ worker.phase = "restoring" /\ i \in DOMAIN worker.writes /\ clean' = clean
        /\ \A j \in Ids : persisted'[j] = IF j = i THEN worker.writes[i] ELSE persisted[j]
    BY <1>1, <1>11 DEF Restore
  <2>2. worker'.phase = "restoring" /\ worker'.writes = Without(worker.writes, i)
    BY <1>1, <1>11, ActiveType DEF Restore
  <2>3. /\ DOMAIN worker'.writes = DOMAIN worker.writes \ {i}
        /\ \A j \in DOMAIN worker.writes \ {i} : worker'.writes[j] = worker.writes[j]
    BY <2>2 DEF Without
  <2>4. ASSUME clean PROVE TaskAgrees'
    <3>1. RestoringInPart
      BY <2>1, <2>4 DEF Atomic, TaskAgrees
    <3>2. RestoringInPart'
      BY <1>2, <2>1, <2>2, <2>3, <3>1 DEF RestoringInPart
    <3> QED BY <2>2, <3>2 DEF TaskAgrees
  <2> QED BY <1>2, <1>3, <2>1, <2>2, <2>4 DEF Atomic, CommitsWrite
<1>12. CASE LoadFails
  <2>1. /\ worker.phase = "start" /\ worker' = [phase |-> "failed"]
        /\ persisted' = persisted /\ clean' = clean
    BY <1>12 DEF LoadFails, Started
  <2> QED BY <1>2, <1>3, <2>1 DEF Atomic, CommitsWrite, TaskAgrees
<1>13. CASE RestoreFails
  <2>1. worker' = [phase |-> "rollback_failed"] /\ clean' = FALSE
    BY <1>13 DEF RestoreFails
  <2> QED BY <1>3, <2>1 DEF Atomic, CommitsWrite
<1>14. ASSUME NEW i \in Ids, WriteFails(i) PROVE Atomic'
  <2>1. /\ worker.phase = "writing" /\ clean' = clean
        /\ worker' = [phase |-> "restoring", writes |-> worker.snapshot]
        /\ i \in worker.deletes \union DOMAIN worker.writes
        /\ \A j \in Ids : j # i => persisted'[j] = persisted[j]
    BY <1>1, <1>14 DEF WriteFails
  <2>2. ASSUME clean PROVE TaskAgrees'
    <3>1. WritingInPart
      BY <2>1, <2>2 DEF Atomic, TaskAgrees
    <3>2. i \in SnapshotIds
      BY <2>1, <3>1 DEF WritingInPart, SnapshotIds
    <3>3. \A j \in Ids : j \notin SnapshotIds => ~Changes(j)
      BY <3>1 DEF WritingInPart, Changes, SnapshotIds
    <3>4. worker'.phase = "restoring" /\ worker'.writes = worker.snapshot
      BY <2>1
    <3>5. RestoringInPart'
      BY <1>2, <2>1, <3>1, <3>2, <3>3, <3>4 DEF WritingInPart, RestoringInPart
    <3> QED BY <3>4, <3>5 DEF TaskAgrees
  <2> QED BY <1>2, <1>3, <2>1, <2>2 DEF Atomic, CommitsWrite
<1> QED BY <1>5, <1>6, <1>7, <1>8, <1>9, <1>10, <1>11, <1>12, <1>13, <1>14 DEF Worker

\* The results of tasks.
LEMMA ResultsAtomic ==
    ASSUME TypeOK, Atomic, Holding,
           CompleteFetch \/ CompleteCommit \/ Retry \/ RetryTimer \/ Fail \/ TaskExit
    PROVE  Atomic'
<1> USE TypeParts
<1>1. /\ cache \in [Ids -> Rows] /\ known \subseteq Ids /\ StoreTypeOK
      /\ persisted \in [Ids -> Entries] /\ committed \in [Ids -> Entries]
  BY DEF StoreTypeOK
<1>2. ASSUME NEW failed, Finish(failed) PROVE worker' \in {NoWorker, Started}
  BY <1>2, StartNextWorker DEF Finish
<1>3. CASE CompleteFetch
  <2>1. /\ worker.phase = "loaded" /\ Finish(FALSE)
        /\ cache' = Overlay(cache, worker.entries)
        /\ persisted' = persisted /\ UNCHANGED historyVars /\ clean' = clean
    BY <1>3 DEF CompleteFetch, completeUnchanged
  <2>2. ASSUME clean PROVE CacheIsCommitted' /\ BackendAgrees'
    <3>1. /\ CacheIsCommitted /\ BackendAgrees
          /\ \A i \in DOMAIN worker.entries \ spared : worker.entries[i] = committed[i]
      BY <2>1, <2>2 DEF Atomic, TaskAgrees
    <3>2. \A i \in Ids : cache'[i] = IF i \in DOMAIN worker.entries THEN worker.entries[i] ELSE cache[i]
      BY <1>1, <2>1 DEF Overlay
    <3> QED BY <2>1, <2>2, <3>1, <3>2 DEF CacheIsCommitted, BackendAgrees
  <2> QED BY <1>2, <2>1, <2>2, IdleAgrees DEF Atomic, SparedAreGone
<1>4. CASE CompleteCommit
  <2> DEFINE plan == worker.plan
             kept == IF active.clear THEN Cleared ELSE committed
  <2>1. /\ worker.phase = "written" /\ Finish(FALSE)
        /\ cache' = Overlay(CacheBase, plan)
        /\ committed' = Overlay(kept, plan) /\ spared' = Spared
        /\ persisted' = persisted /\ clean' = clean
    BY <1>4 DEF CompleteCommit, completeUnchanged
  <2>2. /\ \A i \in Ids : CacheBase[i] = IF active.clear THEN NotCached ELSE cache[i]
        /\ DOMAIN CacheBase = Ids
    BY <1>1 DEF CacheBase, NoRows
  <2>3. /\ \A i \in Ids : kept[i] = IF active.clear THEN Missing ELSE committed[i]
        /\ DOMAIN kept = Ids
    BY <1>1 DEF Cleared
  <2> HIDE DEF kept
  <2>4. \A i \in Ids : cache'[i] = IF i \in DOMAIN plan THEN plan[i]
                                 ELSE IF active.clear THEN NotCached ELSE cache[i]
    BY <2>1, <2>2 DEF Overlay
  <2>5. \A i \in Ids : committed'[i] = IF i \in DOMAIN plan THEN plan[i]
                                     ELSE IF active.clear THEN Missing ELSE committed[i]
    BY <2>1, <2>3 DEF Overlay
  <2>6. \A i \in Ids \ spared' : i \in DOMAIN plan
            \/ IF active.clear THEN i \in known \/ persisted[i] = Missing ELSE i \notin spared
    BY <2>1 DEF Spared
  <2>7. SparedAreGone'
    <3>1. spared \subseteq Ids
      BY <1>1 DEF StoreTypeOK
    <3>2. spared' = Spared
      BY <2>1
    <3> HIDE DEF plan
    <3>3. \A i \in Spared : i \in Ids /\ i \notin DOMAIN worker.plan /\ (active.clear \/ i \in spared)
      BY <3>1 DEF Spared
    <3> USE DEF plan
    <3>4. \A i \in Spared : committed'[i] = Missing
      BY <2>5, <3>3 DEF Atomic, SparedAreGone
    <3> QED BY <3>2, <3>4 DEF SparedAreGone
  <2>8. ASSUME clean PROVE CacheIsCommitted' /\ BackendAgrees'
    <3> HIDE DEF plan
    <3>1. CacheIsCommitted /\ WrittenWhole
      <4>1. worker.phase = "written" /\ clean
        BY <2>1, <2>8
      <4> QED BY <4>1 DEF Atomic, TaskAgrees
    <3> USE DEF plan
    <3>2. CacheIsCommitted'
      BY <2>4, <2>5, <2>6, <2>8, <3>1 DEF CacheIsCommitted
    <3>3. BackendAgrees'
      BY <2>1, <2>5, <2>6, <3>1 DEF BackendAgrees, WrittenWhole, ClearedIds, Changes
    <3> QED BY <3>2, <3>3
  <2> QED BY <1>2, <2>1, <2>7, <2>8, IdleAgrees
<1>5. CASE Retry
  <2>1. /\ worker.phase = "failed" /\ worker' = NoWorker
        /\ UNCHANGED <<cache, persisted, historyVars, clean>>
    BY <1>5 DEF Retry, completeUnchanged
  <2> QED BY <2>1, IdleAgrees DEF Atomic, TaskAgrees, CacheIsCommitted, BackendAgrees, SparedAreGone
<1>6. CASE RetryTimer
  <2>1. /\ worker = NoWorker /\ worker' = Started
        /\ UNCHANGED <<cache, persisted, historyVars, clean>>
    BY <1>6 DEF RetryTimer, serverVars
  <2> QED BY <2>1, IdleAgrees DEF Atomic, TaskAgrees, CacheIsCommitted, BackendAgrees, SparedAreGone, NoWorker
<1>7. CASE Fail
  <2>1. /\ worker.phase \in {"failed", "rollback_failed"} /\ Finish(TRUE)
        /\ UNCHANGED <<cache, persisted, historyVars, clean>>
    BY <1>7 DEF Fail, completeUnchanged
  <2> QED BY <1>2, <2>1, IdleAgrees DEF Atomic, TaskAgrees, CacheIsCommitted, BackendAgrees, SparedAreGone
<1>8. CASE TaskExit
  <2>1. /\ clean' = (clean /\ worker.phase = "start") /\ Finish(TRUE)
        /\ UNCHANGED <<cache, persisted, historyVars>>
    BY <1>8 DEF TaskExit, completeUnchanged
  <2> QED BY <1>2, <2>1, IdleAgrees DEF Atomic, TaskAgrees, CacheIsCommitted, BackendAgrees, SparedAreGone
<1> QED BY <1>3, <1>4, <1>5, <1>6, <1>7, <1>8

\* The handlers change the active operation only when there is none, or to note
\* a reference in it.
LEMMA HandlersAtomic ==
    ASSUME TypeOK, Atomic, Holding,
           \/ \E c \in Clients : \/ Caller(c) \/ Commit(c) \/ Unlock(c) \/ (MayClear /\ Clearing(c))
                                \/ ServeLock(c) \/ ServeUnlock(c) \/ ServeFetch(c)
                                \/ ServeSet(c) \/ ServeClear(c) \/ ServeCommit(c)
           \/ \E r \in downs : ServeDown(r)
           \/ Rest \/ UNCHANGED vars
    PROVE  Atomic'
<1> USE TypeParts
<1>1. active \in Operations \union {NoOperation}
  BY DEF StoreTypeOK, ServerTypeOK
<1>2. CASE UNCHANGED storeVars
  BY <1>2, AtomicKept DEF storeVars
<1>3. ASSUME NEW c \in Clients, NEW name, NEW op, Serve(c, name, op) PROVE Atomic'
  <2>1. UNCHANGED <<cache, known, persisted, historyVars, clean>>
    BY <1>3 DEF Serve
  <2>2. CASE UNCHANGED <<active, worker>>
    BY <2>1, <2>2, AtomicKept
  <2>3. CASE active = NoOperation /\ StartNext(Append(operations, op), {}, FALSE)
    <3>1. worker.phase = "idle"
      BY <2>3 DEF Holding, WorkerBusy
    <3>2. clean' => CacheIsCommitted' /\ BackendAgrees'
      BY <2>1, <3>1 DEF Atomic, TaskAgrees, CacheIsCommitted, BackendAgrees
    <3> QED BY <2>1, <2>3, <3>2, StartNextWorker, IdleAgrees DEF Atomic, SparedAreGone
  <2> QED BY <1>3, <2>2, <2>3 DEF Serve, EnqueueOperation
<1>4. ASSUME NEW r \in downs, ServeDown(r) PROVE Atomic'
  <2>1. UNCHANGED <<cache, known, worker, persisted, historyVars, clean>>
    BY <1>4 DEF ServeDown
  <2>2. CASE active' = active
    BY <2>1, <2>2, AtomicKept
  <2>3. CASE OwnedBy(active, r[1]) /\ active' = MarkDown(active, r)
    <3>1. active \in Commits
      BY <1>1, <2>3 DEF OwnedBy, Operations, Fetches, NoOperation
    <3>2. active'.kind = active.kind /\ active'.data = active.data /\ active'.clear = active.clear
      BY <2>3, <3>1 DEF MarkDown, Commits
    <3> QED BY <2>1, <3>2, AtomicKept
  <2> QED BY <1>4, <2>2, <2>3 DEF ServeDown
<1>5. ASSUME NEW c \in Clients,
             Caller(c) \/ Commit(c) \/ Unlock(c) \/ Clearing(c) \/ ServeLock(c) \/ ServeUnlock(c)
      PROVE  UNCHANGED storeVars
  BY <1>5 DEF Caller, Commit, Unlock, Clearing, Get, GetInside, SetInside, ServeLock, ServeUnlock
<1>6. Rest \/ UNCHANGED vars => UNCHANGED storeVars
  BY DEF Rest, vars, storeVars
<1> QED BY <1>2, <1>3, <1>4, <1>5, <1>6 DEF ServeFetch, ServeSet, ServeClear, ServeCommit

LEMMA AtomicAlways == Spec => []Atomic
<1>1. Init => Atomic
  BY DEF Init, Atomic, CommitsWrite, TaskAgrees, CacheIsCommitted, BackendAgrees, SparedAreGone,
         NoWorker, NoRows
<1>2. Locking /\ Holding /\ Atomic /\ [Next]_vars => Atomic'
  <2> SUFFICES ASSUME Locking, Holding, Atomic, [Next]_vars PROVE Atomic'
    OBVIOUS
  <2>1. TypeOK
    BY DEF Locking
  <2> QED BY <2>1, TaskAtomic, ResultsAtomic, HandlersAtomic, KeyStoreAssumption
         DEF Next, Callers, Server, Faults
<1> QED BY <1>1, <1>2, HoldingAlways, PTL DEF Spec

\* The cache shows what the commits made and nothing else (apply_cache_plan
\* after persist_commit): not while a commit runs, fails, is rolled back or
\* retried, and whatever fetches run meanwhile.
THEOREM CacheShowsCommits == Spec => []CacheIsCommitted
<1>1. Atomic => CacheIsCommitted
  BY DEF Atomic, CacheIsCommitted
<1> QED BY <1>1, AtomicAlways, PTL

\* Between attempts the backend holds exactly the commits applied: a commit is
\* persisted whole or, after restore_failed_commit, not at all.
THEOREM CommitsAreAtomic == Spec => []BackendIsCommitted
<1>1. Atomic => BackendIsCommitted
  <2> SUFFICES ASSUME Atomic PROVE BackendIsCommitted
    OBVIOUS
  <2>1. CASE clean /\ worker.phase = "written"
    <3>1. WrittenWhole
      BY <2>1 DEF Atomic, TaskAgrees
    <3>2. \A i \in Ids \ Spared : i \in DOMAIN worker.plan
              \/ IF active.clear THEN i \in known \/ persisted[i] = Missing ELSE i \notin spared
      BY DEF Spared
    <3>3. \A i \in Ids \ Spared : persisted[i] =
              IF i \in DOMAIN worker.plan THEN worker.plan[i]
              ELSE IF active.clear THEN Missing ELSE committed[i]
      BY <3>1, <3>2 DEF WrittenWhole, ClearedIds, Changes
    <3> QED BY <2>1, <3>3 DEF BackendIsCommitted
  <2>2. CASE clean /\ worker.phase \notin {"writing", "restoring", "written"}
    <3>1. BackendAgrees
      BY <2>2 DEF Atomic, TaskAgrees
    <3> QED BY <2>2, <3>1 DEF BackendIsCommitted, BackendAgrees
  <2>3. CASE ~clean \/ worker.phase \in {"writing", "restoring"}
    BY <2>3 DEF BackendIsCommitted
  <2> QED BY <2>1, <2>2, <2>3
<1> QED BY <1>1, AtomicAlways, PTL

-----------------------------------------------------------------------------
\* What a transaction submits touches ids of its key and ids of no key.
RequestsTouch ==
    \A c \in Clients :
        /\ \A i \in Ids : buffer[c].mutation[i] # NotCached => GuardKey[i] \in {txKey[c], None}
        /\ inbox[c].op = "commit" =>
              \A i \in DOMAIN inbox[c].data : GuardKey[i] \in {txKey[c], None}

Touches(op) ==
    op.kind = "commit" /\ op.owner # None =>
        \A i \in DOMAIN op.data : GuardKey[i] \in {txKey[op.owner], None}

OperationsTouch ==
    /\ active # NoOperation => Touches(active)
    /\ \A j \in 1..Len(operations) : Touches(operations[j])
    /\ worker.phase \in {"writing", "written"} => DOMAIN worker.plan \subseteq DOMAIN active.data

\* What is read in a transaction is what the commits made, from the lock on,
\* unless the process has written it itself, or somebody outside transactions.
Watches(c, i) ==
    /\ GuardKey[i] = txKey[c]
    /\ buffer[c].mutation[i] = NotCached
    /\ ~buffer[c].cleared
    /\ <<c, calls[c], i>> \notin intruded

ReadsAgree ==
    clean => \A c \in alive :
        /\ pc[c] = "locking" => buffer[c] = NewBuffer
        /\ pc[c] \in {"body", "fetching"} =>
              \A i \in Ids \ spared : Watches(c, i)
                  => buffer[c].cache[i] \in {NotCached, committed[i]}

Reading == RequestsTouch /\ OperationsTouch /\ ReadsAgree

\* The callers' steps.
LEMMA CallersRead ==
    ASSUME Locking, Holding, Reading, NoneAssumption, MarkersAssumption,
           NEW c \in Clients, KeyStoreAssumption,
           Caller(c) \/ Commit(c) \/ Unlock(c) \/ (MayClear /\ Clearing(c))
    PROVE  Reading'
<1> USE TypeParts DEF Locking
<1>1. /\ pc \in [Clients -> PCs] /\ inbox \in [Clients -> Requests]
      /\ txKey \in [Clients -> LockKeys \union {None}] /\ buffer \in [Clients -> BufferType]
      /\ alive \subseteq Clients
  BY DEF ClientTypeOK, LockTypeOK
<1>2. UNCHANGED storeVars
  BY DEF Caller, Commit, Unlock, Clearing, Get, GetInside, SetInside
<1>3. UNCHANGED <<active, operations, worker, clean, committed, spared, intruded>>
  BY <1>2 DEF storeVars
\* the step changes only what is c's
<1>4. ASSUME \A d \in Clients \ {c} : /\ pc'[d] = pc[d] /\ txKey'[d] = txKey[d]
                                      /\ buffer'[d] = buffer[d] /\ inbox'[d] = inbox[d]
                                      /\ calls'[d] = calls[d],
             alive' \subseteq alive,
             txKey'[c] = txKey[c] \/ pc[c] = "idle",
             /\ \A i \in Ids : buffer'[c].mutation[i] # NotCached => GuardKey[i] \in {txKey'[c], None}
             /\ inbox'[c].op = "commit" =>
                   \A i \in DOMAIN inbox'[c].data : GuardKey[i] \in {txKey'[c], None},
             clean /\ c \in alive' =>
                /\ pc'[c] = "locking" => buffer'[c] = NewBuffer
                /\ pc'[c] \in {"body", "fetching"} =>
                      \A i \in Ids \ spared : Watches(c, i)'
                          => buffer'[c].cache[i] \in {NotCached, committed[i]}
      PROVE  Reading'
  <2>1. RequestsTouch'
    BY <1>4 DEF Reading, RequestsTouch
  <2>2. ASSUME NEW op \in Operations, Placed(op), Touches(op) PROVE Touches(op)'
    <3>1. op.kind = "commit" /\ op.owner # None => op.owner \in Clients /\ pc[op.owner] = "committing"
      BY <2>2 DEF Placed, Operations, Fetches, Commits
    <3>2. op.kind = "commit" /\ op.owner # None => txKey'[op.owner] = txKey[op.owner]
      BY <1>4, <3>1
    <3> QED BY <2>2, <3>2 DEF Touches
  <2>3. /\ active \in Operations \union {NoOperation}
        /\ \A j \in 1..Len(operations) : operations[j] \in Operations
    BY ElementOfSeq DEF StoreTypeOK, ServerTypeOK
  <2>4. ASSUME active # NoOperation PROVE Touches(active)'
    <3>1. active \in Operations /\ Placed(active) /\ Touches(active)
      BY <2>3, <2>4 DEF Holding, AllPlaced, Reading, OperationsTouch
    <3> QED BY <1>3, <2>2, <3>1 DEF Touches
  <2>5. ASSUME NEW j \in 1..Len(operations) PROVE Touches(operations[j])'
    <3>1. operations[j] \in Operations /\ Placed(operations[j]) /\ Touches(operations[j])
      BY <2>3 DEF Holding, AllPlaced, Reading, OperationsTouch
    <3> QED BY <1>3, <2>2, <3>1 DEF Touches
  <2>6. OperationsTouch'
    BY <1>3, <2>4, <2>5 DEF Reading, OperationsTouch, Touches
  <2>7. ReadsAgree'
    <3>1. ASSUME NEW d \in Clients \ {c}, NEW i PROVE Watches(d, i)' => Watches(d, i)
      BY <1>3, <1>4 DEF Watches
    <3> QED BY <1>1, <1>3, <1>4, <3>1 DEF Reading, ReadsAgree
  <2> QED BY <2>1, <2>6, <2>7 DEF Reading
\* what holds of c before
<1>5. /\ \A i \in Ids : buffer[c].mutation[i] # NotCached => GuardKey[i] \in {txKey[c], None}
      /\ inbox[c].op = "commit" =>
            \A i \in DOMAIN inbox[c].data : GuardKey[i] \in {txKey[c], None}
  BY DEF Reading, RequestsTouch
<1>6. clean /\ c \in alive =>
         /\ pc[c] = "locking" => buffer[c] = NewBuffer
         /\ pc[c] \in {"body", "fetching"} =>
               \A i \in Ids \ spared : Watches(c, i) => buffer[c].cache[i] \in {NotCached, committed[i]}
  BY DEF Reading, ReadsAgree
<1>7. /\ \A i \in Ids : NewBuffer.mutation[i] = NotCached /\ NewBuffer.cache[i] = NotCached
  BY DEF NewBuffer, NoRows
<1>8. ASSUME NEW k \in LockKeys, Begin(c, k) PROVE Reading'
  <2>1. /\ pc' = [pc EXCEPT ![c] = "locking"] /\ txKey' = [txKey EXCEPT ![c] = k]
        /\ buffer' = [buffer EXCEPT ![c] = NewBuffer]
        /\ inbox' = [inbox EXCEPT ![c] = [op |-> "lock", key |-> k]]
        /\ alive' = alive /\ pc[c] = "idle" /\ calls' = [calls EXCEPT ![c] = @ + 1]
    BY <1>8 DEF Begin, Call, At
  <2>2. /\ inbox'[c].op = "lock" /\ buffer'[c] = NewBuffer /\ pc'[c] = "locking"
    BY <1>1, <2>1
  <2> QED BY <1>1, <1>4, <1>7, <2>1, <2>2
<1>9. ASSUME NEW request, PlainCall(c, request),
             request.op \in {"fetch", "set", "clear"}
      PROVE  Reading'
  <2>1. /\ pc' = [pc EXCEPT ![c] = "calling"] /\ inbox' = [inbox EXCEPT ![c] = request]
        /\ UNCHANGED <<alive, txKey, buffer>> /\ calls' = [calls EXCEPT ![c] = @ + 1]
    BY <1>9 DEF PlainCall, Call
  <2>2. pc'[c] = "calling" /\ inbox'[c] = request
    BY <1>1, <2>1
  <2> QED BY <1>1, <1>4, <1>5, <1>9, <2>1, <2>2
<1>10. ASSUME NEW ids, GetInside(c, ids) PROVE Reading'
  <2>1. /\ pc[c] = "body" /\ c \in alive /\ UNCHANGED <<alive, txKey, calls>>
        /\ \/ /\ buffer' = [buffer EXCEPT ![c] = CacheFetched(@, MissingIds(buffer[c], ids), NoData)]
              /\ UNCHANGED <<pc, inbox>> /\ buffer[c].cleared
           \/ /\ Call(c, [op |-> "fetch", ids |-> MissingIds(buffer[c], ids)], "fetching")
              /\ buffer' = buffer
    BY <1>10 DEF GetInside, At
  <2>2. CASE buffer' = buffer /\ Call(c, [op |-> "fetch", ids |-> MissingIds(buffer[c], ids)], "fetching")
    <3>1. /\ pc' = [pc EXCEPT ![c] = "fetching"]
          /\ \A d \in Clients \ {c} : inbox'[d] = inbox[d]
          /\ inbox'[c].op = "fetch"
      BY <1>1, <2>2 DEF Call
    <3>2. \A i : Watches(c, i)' => Watches(c, i)
      BY <1>3, <2>1, <2>2 DEF Watches
    <3> QED BY <1>1, <1>4, <1>5, <1>6, <2>1, <2>2, <3>1, <3>2
  <2>3. CASE /\ buffer' = [buffer EXCEPT ![c] = CacheFetched(@, MissingIds(buffer[c], ids), NoData)]
             /\ UNCHANGED <<pc, inbox>> /\ buffer[c].cleared
    <3>1. /\ buffer'[c] = CacheFetched(buffer[c], MissingIds(buffer[c], ids), NoData)
          /\ \A d \in Clients \ {c} : buffer'[d] = buffer[d]
          /\ buffer[c] \in BufferType
      BY <1>1, <2>3
    <3>2. buffer'[c].mutation = buffer[c].mutation /\ buffer'[c].cleared
      BY <2>3, <3>1 DEF CacheFetched, BufferType
    <3>3. \A i : ~Watches(c, i)'
      BY <3>2 DEF Watches
    <3> QED BY <1>1, <1>4, <1>5, <2>1, <2>3, <3>1, <3>2, <3>3
  <2> QED BY <2>1, <2>2, <2>3
<1>11. ASSUME NEW i \in Ids, NEW value \in Entries, Put(c, i, value) PROVE Reading'
  <2>1. /\ pc[c] = "body" /\ c \in alive /\ UNCHANGED <<alive, pc, txKey, inbox, calls>>
        /\ GuardKey[i] \in {txKey[c], None}
        /\ buffer' = [buffer EXCEPT ![c] = PutEntry(@, i, value)]
    BY <1>11 DEF Put, At, Touchable
  <2>2. /\ buffer[c] \in BufferType /\ buffer'[c] = PutEntry(buffer[c], i, value)
        /\ \A d \in Clients \ {c} : buffer'[d] = buffer[d]
    BY <1>1, <2>1
  <2>3. /\ buffer'[c].cleared = buffer[c].cleared
        /\ buffer'[c].mutation[i] = value
        /\ \A j \in Ids \ {i} : /\ buffer'[c].mutation[j] = buffer[c].mutation[j]
                                /\ buffer'[c].cache[j] = buffer[c].cache[j]
    BY <2>2 DEF PutEntry, BufferType
  <2>4. value # NotCached
    BY DEF MarkersAssumption, Entries
  <2>5. \A j \in Ids : Watches(c, j)' => j # i /\ Watches(c, j)
    BY <1>3, <2>1, <2>3, <2>4 DEF Watches
  <2> QED BY <1>1, <1>4, <1>5, <1>6, <2>1, <2>2, <2>3, <2>5
<1>12. ASSUME SendCommit(c) PROVE Reading'
  <2>1. /\ pc' = [pc EXCEPT ![c] = "committing"] /\ UNCHANGED <<alive, txKey, buffer, calls>>
        /\ inbox' = [inbox EXCEPT ![c] = [op |-> "commit", data |-> MutationData(buffer[c]),
                                          clear |-> buffer[c].cleared]]
    BY <1>12 DEF SendCommit, Call
  <2>2. /\ inbox'[c].op = "commit" /\ pc'[c] = "committing"
        /\ inbox'[c].data = MutationData(buffer[c])
    BY <1>1, <2>1
  <2>3. \A i \in DOMAIN MutationData(buffer[c]) : i \in Ids /\ buffer[c].mutation[i] # NotCached
    <3>1. buffer[c] \in BufferType
      BY <1>1
    <3> QED BY <3>1 DEF MutationData, Present, BufferType
  <2> QED BY <1>1, <1>4, <1>5, <2>1, <2>2, <2>3
<1>13. ASSUME Raise(c) PROVE Reading'
  <2>1. pc' = [pc EXCEPT ![c] = "ending"] /\ UNCHANGED <<alive, txKey, buffer, inbox, calls>>
    BY <1>13 DEF Raise
  <2> QED BY <1>1, <1>4, <1>5, <2>1
<1>14. ASSUME End(c) PROVE Reading'
  <2>1. /\ pc' = [pc EXCEPT ![c] = "unlocking"] /\ UNCHANGED <<alive, txKey, calls>>
        /\ buffer' = [buffer EXCEPT ![c] = NewBuffer]
        /\ inbox' = [inbox EXCEPT ![c] = [op |-> "unlock", key |-> txKey[c]]]
    BY <1>14 DEF End, Call
  <2>2. inbox'[c].op = "unlock" /\ buffer'[c] = NewBuffer /\ pc'[c] = "unlocking"
    BY <1>1, <2>1
  <2> QED BY <1>1, <1>4, <1>7, <2>1, <2>2
<1>15. ASSUME Die(c) PROVE Reading'
  <2>1. /\ buffer' = [buffer EXCEPT ![c] = NewBuffer] /\ UNCHANGED <<pc, txKey, inbox, calls>>
        /\ alive' = alive \ {c}
    BY <1>15 DEF Die, Exit
  <2> QED BY <1>1, <1>4, <1>5, <1>7, <2>1
<1>16. CASE Caller(c)
  <2>2. CASE \E ids \in ReadSets : Get(c, ids)
    BY <2>2, <1>9 DEF Get
  <2>3. CASE \E data \in PlainSets : PlainCall(c, [op |-> "set", data |-> data])
    BY <2>3, <1>9
  <2>4. CASE \E i \in Ids, value \in Entries : SetInside(c, i, value)
    BY <2>4, <1>11 DEF SetInside
  <2>5. CASE \E ids \in ReadSets : GetInside(c, ids)
    BY <2>5, <1>10
  <2>6. CASE \E k \in LockKeys : Begin(c, k)
    BY <2>6, <1>8
  <2>7. \/ \E k \in LockKeys : Begin(c, k)
        \/ \E ids \in ReadSets : Get(c, ids)
        \/ \E ids \in ReadSets : GetInside(c, ids)
        \/ \E i \in Ids, value \in Entries : SetInside(c, i, value)
        \/ \E data \in PlainSets : PlainCall(c, [op |-> "set", data |-> data])
        \/ Raise(c) \/ Die(c)
    BY <1>16 DEF Caller
  <2> QED BY <1>13, <1>15, <2>2, <2>3, <2>4, <2>5, <2>6, <2>7
<1>17. ASSUME ClearInside(c) PROVE Reading'
  <2>1. UNCHANGED <<alive, pc, txKey, inbox, calls>> /\ buffer' = [buffer EXCEPT ![c] = ClearBuffer]
    BY <1>17 DEF ClearInside
  <2>2. buffer'[c] = ClearBuffer /\ \A d \in Clients \ {c} : buffer'[d] = buffer[d]
    BY <1>1, <2>1
  <2>3. ClearBuffer.cleared /\ \A i \in Ids : ClearBuffer.mutation[i] = NotCached
    BY DEF ClearBuffer, NoRows
  <2>4. \A i : ~Watches(c, i)'
    BY <2>2, <2>3 DEF Watches
  <2>5. pc[c] = "body"
    BY <1>17 DEF ClearInside, At
  <2> QED BY <1>1, <1>4, <1>5, <2>1, <2>2, <2>3, <2>4, <2>5
<1>18. CASE Clearing(c)
  <2>1. CASE PlainCall(c, [op |-> "clear"])
    BY <1>9, <2>1
  <2> QED BY <1>17, <1>18, <2>1 DEF Clearing
<1> QED BY <1>12, <1>14, <1>16, <1>18 DEF Commit, Unlock

-----------------------------------------------------------------------------
\* What an answer does to the readers: who reads has read or waited before.
LEMMA AnswerReaders ==
    ASSUME NEW ok, NEW err, NEW granted, NEW unlocked, Answer(ok, err, granted, unlocked),
           NEW c \in Clients
    PROVE  /\ pc'[c] = "locking" => pc[c] = "locking"
           /\ pc'[c] \in {"body", "fetching"} => pc[c] \in {"locking", "body", "fetching"}
BY DEF Answer, OnOk, OnError

\* Reads agree as long as nothing under the key of a reader changes.
LEMMA ReadsKept ==
    ASSUME ReadsAgree, alive \subseteq Clients, alive' = alive, UNCHANGED <<txKey, buffer, calls>>,
           clean' => clean, intruded \subseteq intruded',
           \A c \in Clients :
               /\ pc'[c] = "locking" => pc[c] = "locking"
               /\ pc'[c] \in {"body", "fetching"} => pc[c] \in {"locking", "body", "fetching"},
           clean' => \A c \in alive : \A i \in Ids \ spared' :
               pc[c] \in {"body", "fetching"} /\ GuardKey[i] = txKey[c] =>
                   \/ i \notin spared /\ committed'[i] = committed[i]
                   \/ <<c, calls[c], i>> \in intruded'
    PROVE  ReadsAgree'
<1>1. \A i \in Ids : NewBuffer.cache[i] = NotCached
  BY DEF NewBuffer, NoRows
<1>2. \A c, i : Watches(c, i)' => Watches(c, i) /\ <<c, calls[c], i>> \notin intruded'
  BY DEF Watches
<1> SUFFICES ASSUME clean', NEW c \in alive'
             PROVE  /\ pc'[c] = "locking" => buffer'[c] = NewBuffer
                    /\ pc'[c] \in {"body", "fetching"} =>
                          \A i \in Ids \ spared' : Watches(c, i)'
                              => buffer'[c].cache[i] \in {NotCached, committed'[i]}
  BY DEF ReadsAgree
<1>3. c \in alive /\ c \in Clients
  OBVIOUS
<1>4. CASE pc'[c] = "locking"
  BY <1>3, <1>4 DEF ReadsAgree
<1>5. ASSUME pc'[c] \in {"body", "fetching"}, NEW i \in Ids \ spared', Watches(c, i)'
      PROVE  buffer'[c].cache[i] \in {NotCached, committed'[i]}
  <2>1. CASE pc[c] = "locking"
    BY <1>1, <1>3, <2>1 DEF ReadsAgree
  <2>2. CASE pc[c] \in {"body", "fetching"}
    <3>1. GuardKey[i] = txKey[c] /\ Watches(c, i) /\ <<c, calls[c], i>> \notin intruded'
      BY <1>2, <1>5 DEF Watches
    <3>2. i \notin spared /\ committed'[i] = committed[i]
      BY <1>3, <2>2, <3>1
    <3> QED BY <1>3, <2>2, <3>1, <3>2 DEF ReadsAgree
  <2> QED BY <1>3, <1>5, <2>1, <2>2
<1> QED BY <1>4, <1>5

\* The operations of a queue touch what they may, and so do those left of it.
LEMMA StartNextTouches ==
    ASSUME NEW q \in Seq(Operations), NEW ended, NEW failed, StartNext(q, ended, failed),
           txKey' = txKey, \A j \in 1..Len(q) : Touches(q[j])
    PROVE  OperationsTouch'
<1>1. CASE Starting(q) = {} /\ active' = NoOperation /\ worker' = NoWorker /\ operations' = << >>
  BY <1>1 DEF OperationsTouch, NoWorker
<1>2. ASSUME NEW next \in Starting(q), active' = q[next], worker' = Started,
             operations' = SubSeq(q, next + 1, Len(q))
      PROVE  OperationsTouch'
  <2>1. next \in 1..Len(q) /\ Len(q) \in Nat
    BY SkippedPrefix
  <2> DEFINE rest == SubSeq(q, next + 1, Len(q))
  <2>2. /\ Len(rest) = Len(q) - next
        /\ \A i \in 1..(Len(q) - next) : next + i \in 1..Len(q) /\ rest[i] = q[next + i]
    BY ONLY <2>1, q \in Seq(Operations), SuffixAt
  <2>3. operations' = rest
    BY <1>2
  <2> HIDE DEF rest
  <2>4. \A i \in 1..Len(operations') : Touches(operations'[i])
    BY <2>2, <2>3
  <2>5. Touches(active')
    BY <1>2, <2>1
  <2>6. \A op : Touches(op) => Touches(op)'
    BY DEF Touches
  <2>7. worker'.phase = "start"
    BY <1>2 DEF Started
  <2> QED BY <2>4, <2>5, <2>7 DEF OperationsTouch, Touches
<1> QED BY <1>1, <1>2 DEF StartNext

\* A request that becomes an operation, or is refused.
LEMMA ServeReads ==
    ASSUME Locking, Reading, NEW c \in Clients, NEW new \in Operations, NEW name,
           Serve(c, name, new), Touches(new)
    PROVE  Reading'
<1> USE TypeParts DEF Locking
<1>1. /\ operations \in Seq(Operations) /\ active \in Operations \union {NoOperation}
      /\ Len(operations) \in Nat /\ alive \subseteq Clients /\ inbox \in [Clients -> Requests]
  BY DEF StoreTypeOK, ServerTypeOK, LockTypeOK, ClientTypeOK
<1>2. /\ UNCHANGED <<alive, txKey, buffer, calls, committed, spared, intruded, clean>>
      /\ inbox' = [inbox EXCEPT ![c] = NoRequest]
  BY DEF Serve, Consumed
<1>3. RequestsTouch'
  BY <1>1, <1>2 DEF Reading, RequestsTouch, NoRequest
<1>4. \A d \in Clients :
         /\ pc'[d] = "locking" => pc[d] = "locking"
         /\ pc'[d] \in {"body", "fetching"} => pc[d] \in {"locking", "body", "fetching"}
  BY AnswerReaders DEF Serve, EnqueueOperation, StartNext
<1>5. ReadsAgree'
  BY <1>1, <1>2, <1>4, ReadsKept DEF Reading
<1> DEFINE q == Append(operations, new)
<1>6. /\ q \in Seq(Operations) /\ Len(q) = Len(operations) + 1
      /\ \A j \in 1..Len(operations) : q[j] = operations[j]
      /\ q[Len(operations) + 1] = new
  BY <1>1, AppendProperties
<1> HIDE DEF q
<1>7. ASSUME NEW j \in 1..Len(q) PROVE Touches(q[j])
  <2>1. \/ j \in 1..Len(operations) /\ q[j] = operations[j]
        \/ q[j] = new
    BY <1>1, <1>6
  <2> QED BY <2>1 DEF Reading, OperationsTouch
<1>8. \A op : Touches(op) => Touches(op)'
  BY <1>2 DEF Touches
<1>9. OperationsTouch'
  <2>1. CASE UNCHANGED <<active, operations, worker>>
    BY <1>2, <2>1 DEF Reading, OperationsTouch, Touches
  <2>2. CASE StartNext(q, {}, FALSE)
    BY <1>2, <1>6, <1>7, <2>2, StartNextTouches
  <2>3. CASE operations' = q /\ UNCHANGED <<active, worker>>
    BY <1>2, <1>7, <2>3 DEF Reading, OperationsTouch, Touches
  <2> QED BY <2>1, <2>2, <2>3 DEF Serve, EnqueueOperation, q
<1> QED BY <1>3, <1>5, <1>9 DEF Reading

\* The handlers.
LEMMA HandlersRead ==
    ASSUME Locking, Reading, KeyStoreAssumption, NoneAssumption, NEW c \in Clients,
           \/ ServeLock(c) \/ ServeUnlock(c) \/ ServeFetch(c)
           \/ ServeSet(c) \/ ServeClear(c) \/ ServeCommit(c)
    PROVE  Reading'
<1> USE TypeParts DEF Locking
<1>1. inbox[c] \in Requests /\ inbox \in [Clients -> Requests] /\ alive \subseteq Clients
  BY DEF ClientTypeOK, LockTypeOK
<1>2. /\ inbox[c].op \in {"set", "commit"} => inbox[c].data \in DataSets
      /\ inbox[c].op = "commit" => inbox[c].clear \in BOOLEAN
      /\ inbox[c].op = "fetch" => inbox[c].ids \in SUBSET Ids
  BY <1>1 DEF Requests
<1>3. inbox[c].op = "commit" =>
            \A i \in DOMAIN inbox[c].data : GuardKey[i] \in {txKey[c], None}
  BY DEF Reading, RequestsTouch
<1>4. CASE ServeLock(c) \/ ServeUnlock(c)
  <2>1. /\ UNCHANGED <<alive, txKey, buffer, calls, committed, spared, intruded, clean>>
        /\ UNCHANGED <<active, operations, worker>>
        /\ inbox' = [inbox EXCEPT ![c] = NoRequest]
    BY <1>4 DEF ServeLock, ServeUnlock, HandleLock, HandleUnlock, Consumed, storeVars
  <2>2. \A d \in Clients :
           /\ pc'[d] = "locking" => pc[d] = "locking"
           /\ pc'[d] \in {"body", "fetching"} => pc[d] \in {"locking", "body", "fetching"}
    BY <1>4, AnswerReaders DEF ServeLock, ServeUnlock, HandleLock, HandleUnlock
  <2>3. RequestsTouch'
    BY <1>1, <2>1 DEF Reading, RequestsTouch, NoRequest
  <2>4. ReadsAgree'
    BY <1>1, <2>1, <2>2, ReadsKept DEF Reading
  <2>5. OperationsTouch'
    BY <2>1 DEF Reading, OperationsTouch, Touches
  <2> QED BY <2>3, <2>4, <2>5 DEF Reading
<1>5. CASE ServeFetch(c)
  <2> DEFINE op == NewFetch(c, inbox[c].ids)
  <2>1. Serve(c, "fetch", op) /\ inbox[c].op = "fetch"
    BY <1>5 DEF ServeFetch, Serve, Received
  <2>2. op \in Operations /\ Touches(op)
    BY <1>2, <2>1 DEF NewFetch, Operations, Fetches, Touches
  <2> HIDE DEF op
  <2> QED BY <2>1, <2>2, ServeReads
<1>6. ASSUME NEW name, NEW data \in DataSets, NEW clear \in BOOLEAN, NEW txOwner \in {c, None},
             Serve(c, name, NewCommit(c, data, clear, txOwner)),
             txOwner # None => \A i \in DOMAIN data : GuardKey[i] \in {txKey[txOwner], None}
      PROVE  Reading'
  <2> DEFINE op == NewCommit(c, data, clear, txOwner)
  <2>1. op \in Operations /\ Touches(op)
    BY <1>6 DEF NewCommit, Operations, Commits, KeyStoreAssumption, Touches
  <2>2. Serve(c, name, op)
    BY <1>6
  <2> HIDE DEF op
  <2> QED BY <2>1, <2>2, ServeReads
<1>7. CASE ServeSet(c)
  <2>1. inbox[c].op = "set" /\ Serve(c, "set", NewCommit(c, inbox[c].data, FALSE, None))
    BY <1>7 DEF ServeSet, Serve, Received
  <2> QED BY <1>2, <1>3, <1>6, <2>1
<1>8. CASE ServeClear(c)
  BY <1>6, <1>8, NoDataType DEF ServeClear
<1>9. CASE ServeCommit(c)
  <2>1. inbox[c].op = "commit" /\ Serve(c, "commit", NewCommit(c, inbox[c].data, inbox[c].clear, c))
    BY <1>9 DEF ServeCommit, Serve, Received
  <2> QED BY <1>2, <1>3, <1>6, <2>1
<1> QED BY <1>4, <1>5, <1>7, <1>8, <1>9

\* A :DOWN is noted in a commit, or releases the lock.
LEMMA DownReads ==
    ASSUME Locking, Reading, NEW r \in downs, ServeDown(r)
    PROVE  Reading'
<1> USE TypeParts DEF Locking
<1>1. /\ operations \in Seq(Operations) /\ active \in Operations \union {NoOperation}
      /\ alive \subseteq Clients
      /\ UNCHANGED <<alive, txKey, buffer, inbox, calls, worker, committed, spared, intruded, clean>>
  BY DEF StoreTypeOK, ServerTypeOK, LockTypeOK, ServeDown
<1>2. RequestsTouch'
  BY <1>1 DEF Reading, RequestsTouch
<1>3. \A d \in Clients :
         /\ pc'[d] = "locking" => pc[d] = "locking"
         /\ pc'[d] \in {"body", "fetching"} => pc[d] \in {"locking", "body", "fetching"}
  BY AnswerReaders DEF ServeDown
<1>4. ReadsAgree'
  BY <1>1, <1>3, ReadsKept DEF Reading
<1>5. ASSUME NEW op \in Operations, OwnedBy(op, r[1]), Touches(op)
      PROVE  Touches(MarkDown(op, r))' /\ MarkDown(op, r).data = op.data
  <2>1. op \in Commits
    BY <1>5 DEF OwnedBy, Operations, Fetches
  <2> QED BY <1>1, <1>5, <2>1 DEF MarkDown, Commits, Touches
<1>6. \A op : Touches(op) => Touches(op)'
  BY <1>1 DEF Touches
<1>7. OperationsTouch'
  <2>1. CASE OwnedBy(active, r[1]) /\ active' = MarkDown(active, r) /\ operations' = operations
    <3>1. active # NoOperation
      BY <2>1 DEF OwnedBy, NoOperation
    <3>2. Touches(active)' /\ active'.data = active.data
      BY <1>1, <1>5, <2>1, <3>1 DEF Reading, OperationsTouch, Touches
    <3> QED BY <1>1, <1>6, <2>1, <3>2 DEF Reading, OperationsTouch, Touches
  <2>2. ASSUME NEW j \in Queued(r[1]), operations' = [operations EXCEPT ![j] = MarkDown(@, r)],
               active' = active
        PROVE  OperationsTouch'
    <3>1. j \in 1..Len(operations) /\ OwnedBy(operations[j], r[1])
      BY DEF Queued
    <3>2. /\ Len(operations') = Len(operations)
          /\ operations'[j] = MarkDown(operations[j], r)
          /\ \A i \in 1..Len(operations) : i # j => operations'[i] = operations[i]
      BY <1>1, <2>2, <3>1
    <3>3. operations[j] \in Operations /\ Touches(operations[j])
      BY <1>1, <3>1, ElementOfSeq DEF Reading, OperationsTouch
    <3>4. Touches(operations[j])'
      BY <1>5, <3>1, <3>2, <3>3 DEF Touches
    <3>5. ASSUME NEW i \in 1..Len(operations') PROVE Touches(operations[i])'
      BY <1>6, <3>2, <3>4 DEF Reading, OperationsTouch, Touches
    <3>6. Touches(active)' \/ active = NoOperation
      BY <1>6, <2>2 DEF Reading, OperationsTouch, Touches
    <3> QED BY <1>1, <2>2, <3>5, <3>6 DEF Reading, OperationsTouch
  <2>3. CASE UNCHANGED <<active, operations>>
    BY <1>1, <2>3 DEF Reading, OperationsTouch, Touches
  <2> QED BY <2>1, <2>2, <2>3 DEF ServeDown
<1> QED BY <1>2, <1>4, <1>7 DEF Reading

\* The task's own steps: the plan is made of the operation's data.
LEMMA TaskReads ==
    ASSUME Locking, Reading,
           Worker \/ LoadFails \/ RestoreFails \/ \E i \in Ids : WriteFails(i)
    PROVE  Reading'
<1> USE TypeParts DEF Locking
<1>1. /\ UNCHANGED <<lockVars, alive, clientVars, serverVars, committed, spared, intruded>>
      /\ alive \subseteq Clients /\ clean \in BOOLEAN
  BY DEF Worker, LoadFails, RestoreFails, WriteFails, Load, Snapshot, Written, Restored,
         Delete, Write, Restore, workerUnchanged, LockTypeOK, StoreTypeOK
<1>2. clean' => clean
  BY <1>1 DEF Worker, LoadFails, RestoreFails, WriteFails, Load, Snapshot, Written, Restored,
         Delete, Write, Restore
<1>3. RequestsTouch'
  BY <1>1 DEF clientVars, Reading, RequestsTouch
<1>4. ReadsAgree'
  BY <1>1, <1>2, ReadsKept DEF clientVars, Reading
<1>5. worker'.phase \in {"writing", "written"} => DOMAIN worker'.plan \subseteq DOMAIN active.data
  <2>1. worker \in Workers
    BY DEF StoreTypeOK, Locking, TypeOK
  <2>2. CASE Snapshot
    <3>1. worker'.plan = Prepare(active.data, [i \in SnapshotIds |-> Stored(i)])
      BY <2>2 DEF Snapshot
    <3> QED BY <3>1 DEF Prepare
  <2>3. CASE Written
    BY <2>3 DEF Written, Reading, OperationsTouch
  <2>4. CASE \E i \in Ids : Delete(i) \/ Write(i)
    BY <2>1, <2>4 DEF Delete, Write, Reading, OperationsTouch, Workers
  <2>5. CASE Load \/ LoadFails \/ Restored \/ RestoreFails \/ \E i \in Ids : WriteFails(i)
    BY <2>5 DEF Load, LoadFails, Restored, RestoreFails, WriteFails
  <2>6. CASE \E i \in Ids : Restore(i)
    BY <2>1, <2>6 DEF Restore, Workers
  <2> QED BY <2>2, <2>3, <2>4, <2>5, <2>6 DEF Worker
<1>6. OperationsTouch'
  BY <1>1, <1>5 DEF clientVars, serverVars, Reading, OperationsTouch, Touches
<1> QED BY <1>3, <1>4, <1>6 DEF Reading

\* The ends of operations: what a commit changes is under no reader's key.
LEMMA ResultsRead ==
    ASSUME Locking, Holding, Atomic, Reading, NoneAssumption, TransactionsAssumption,
           CompleteFetch \/ CompleteCommit \/ Retry \/ RetryTimer \/ Fail \/ TaskExit
    PROVE  Reading'
<1> USE TypeParts DEF Locking
<1>1. /\ operations \in Seq(Operations) /\ active \in Operations \union {NoOperation}
      /\ alive \subseteq Clients /\ worker \in Workers /\ known \subseteq Ids
      /\ committed \in [Ids -> Entries] /\ buffer \in [Clients -> BufferType]
      /\ UNCHANGED <<alive, txKey, inbox, calls>>
  BY DEF StoreTypeOK, ServerTypeOK, LockTypeOK, ClientTypeOK, CompleteFetch, CompleteCommit, Retry,
         RetryTimer, Fail, TaskExit, completeUnchanged, clientVars
<1>2. ASSUME buffer' = buffer PROVE RequestsTouch'
  BY <1>1, <1>2 DEF Reading, RequestsTouch
<1>3. ASSUME NEW failed, Finish(failed)
      PROVE  /\ OperationsTouch'
             /\ \A c \in Clients :
                   /\ pc'[c] = "locking" => pc[c] = "locking"
                   /\ pc'[c] \in {"body", "fetching"} => pc[c] \in {"locking", "body", "fetching"}
  <2>1. StartNext(operations, {active}, failed)
    BY <1>3 DEF Finish
  <2>2. OperationsTouch'
    BY <1>1, <2>1, StartNextTouches DEF Reading, OperationsTouch
  <2> QED BY <2>1, <2>2, AnswerReaders DEF StartNext
<1>4. ASSUME NEW failed, Finish(failed), UNCHANGED <<buffer, historyVars>>, clean' => clean
      PROVE  Reading'
  BY <1>1, <1>2, <1>3, <1>4, ReadsKept DEF Reading
<1>5. CASE CompleteFetch
  <2> DEFINE entries == worker.entries
             c       == active.from
             ids     == DOMAIN worker.entries
  <2>1. /\ worker.phase = "loaded" /\ Finish(FALSE) /\ UNCHANGED <<historyVars, clean>>
        /\ buffer' = IF At(c, "fetching")
                     THEN [buffer EXCEPT ![c] = CacheFetched(@, ids, entries)]
                     ELSE buffer
    BY <1>5 DEF CompleteFetch
  <2>2. active \in Operations /\ c \in Clients
    BY <1>1, <2>1 DEF Holding, WorkerBusy, Operations, Fetches, Commits
  <2>3. CASE ~At(c, "fetching")
    BY <1>4, <2>1, <2>3
  <2>4. CASE At(c, "fetching")
    <3>1. /\ buffer'[c] = CacheFetched(buffer[c], ids, entries)
          /\ \A d \in Clients \ {c} : buffer'[d] = buffer[d]
      BY <1>1, <2>1, <2>2, <2>4
    <3>2. buffer[c] \in BufferType
      BY <1>1, <2>2
    <3>3. /\ buffer'[c].mutation = buffer[c].mutation /\ buffer'[c].cleared = buffer[c].cleared
          /\ \A i \in Ids : buffer'[c].cache[i] = IF i \in ids THEN entries[i] ELSE buffer[c].cache[i]
      BY <3>1, <3>2 DEF CacheFetched, BufferType
    <3>4. RequestsTouch'
      BY <1>1, <3>1, <3>3 DEF Reading, RequestsTouch
    <3>5. clean => \A i \in ids \ spared : entries[i] = committed[i]
      BY <2>1 DEF Atomic, TaskAgrees
    <3>6. pc[c] = "fetching"
      BY <2>4 DEF At
    <3>7. \A d \in Clients :
             /\ pc'[d] = "locking" => pc[d] = "locking"
             /\ pc'[d] \in {"body", "fetching"} => pc[d] \in {"locking", "body", "fetching"}
      BY <1>3, <2>1
    <3>8. \A i \in Ids : NewBuffer.cache[i] = NotCached
      BY DEF NewBuffer, NoRows
    <3>9. ReadsAgree'
      <4> SUFFICES ASSUME clean, NEW d \in alive
                   PROVE  /\ pc'[d] = "locking" => buffer'[d] = NewBuffer
                          /\ pc'[d] \in {"body", "fetching"} =>
                                \A i \in Ids \ spared : Watches(d, i)'
                                    => buffer'[d].cache[i] \in {NotCached, committed[i]}
        BY <1>1, <2>1 DEF ReadsAgree
      <4>1. \A i : Watches(d, i)' => Watches(d, i)
        BY <1>1, <2>1, <3>1, <3>3 DEF Watches
      <4>2. CASE d # c
        BY <1>1, <3>1, <3>7, <3>8, <4>1, <4>2 DEF Reading, ReadsAgree
      <4>3. CASE d = c
        BY <1>1, <3>3, <3>5, <3>6, <3>7, <4>1, <4>3 DEF Reading, ReadsAgree
      <4> QED BY <4>2, <4>3
    <3> QED BY <1>3, <2>1, <3>4, <3>9 DEF Reading
  <2> QED BY <2>3, <2>4
<1>6. CASE CompleteCommit
  <2> DEFINE plan == worker.plan
             kept == IF active.clear THEN Cleared ELSE committed
  <2>1. /\ worker.phase = "written" /\ Finish(FALSE)
        /\ committed' = Overlay(kept, plan) /\ UNCHANGED <<clean, buffer>>
        /\ spared' = Spared /\ intruded' = intruded \union Intrusions
    BY <1>6 DEF CompleteCommit
  <2>2. active.kind = "commit" /\ active # NoOperation /\ Touches(active) /\ Placed(active)
    BY <2>1 DEF Atomic, CommitsWrite, NoOperation, Reading, OperationsTouch, Holding, AllPlaced
  <2>3. ~active.clear => \A i \in Ids : i \notin DOMAIN plan => committed'[i] = committed[i]
    BY <1>1, <2>1 DEF Overlay
  <2>4. ~active.clear => \A i \in Ids \ Spared : i \in DOMAIN plan \/ i \notin spared
    BY DEF Spared
  <2>5. DOMAIN plan \subseteq DOMAIN active.data
    BY <2>1 DEF Reading, OperationsTouch
  <2>6. ASSUME NEW c \in alive, NEW i \in Ids \ spared',
               pc[c] \in {"body", "fetching"}, GuardKey[i] = txKey[c]
        PROVE  \/ i \notin spared /\ committed'[i] = committed[i]
               \/ <<c, calls[c], i>> \in intruded'
    <3>1. c \in Readers
      BY <1>1, <2>6 DEF Readers
    <3>2. i \in Intrudes => <<c, calls[c], i>> \in Intrusions
      BY <3>1 DEF Intrusions
    <3>3. CASE i \in Intrudes
      BY <2>1, <3>2, <3>3
    <3>4. CASE i \notin DOMAIN plan /\ ~active.clear
      BY <2>1, <2>3, <2>4, <2>6, <3>4
    <3>5. CASE i \in DOMAIN plan /\ ~active.clear /\ active.owner # None
      <4>1. c \in Clients /\ txKey[c] \in LockKeys
        BY <1>1, <2>6 DEF ClientTypeOK
      <4>2. GuardKey[i] # None
        BY <2>6, <4>1 DEF TransactionsAssumption
      <4>3. txKey[active.owner] = txKey[c]
        BY <2>2, <2>5, <2>6, <3>5, <4>2 DEF Touches
      <4>4. owner[txKey[c]] = active.owner /\ pc[active.owner] = "committing"
        BY <2>2, <3>5, <4>3 DEF Placed
      <4>5. owner[txKey[c]] = c
        BY <2>6, <4>1 DEF LockInv, OwnerHolds, In, Inside
      <4> QED BY <2>6, <4>4, <4>5
    <3> QED BY <3>3, <3>4, <3>5 DEF Intrudes
  <2>7. ReadsAgree'
    BY <1>1, <1>3, <2>1, <2>6, ReadsKept DEF Reading
  <2> QED BY <1>2, <1>3, <2>1, <2>7 DEF Reading
<1>7. CASE Retry \/ RetryTimer
  <2>1. UNCHANGED <<pc, buffer, operations, historyVars, clean>>
    BY <1>7 DEF Retry, RetryTimer, clientVars, serverVars
  <2>2. OperationsTouch'
    <3>1. CASE Retry
      <4>1. active \in Commits /\ active' = [active EXCEPT !.attempts = @ - 1] /\ worker' = NoWorker
        BY <1>1, <3>1 DEF Retry, MayRetry, Operations, Fetches, NoOperation
      <4>2. /\ active'.kind = active.kind /\ active'.clear = active.clear
            /\ active'.data = active.data /\ active'.owner = active.owner
        BY <4>1 DEF Commits
      <4>3. active # NoOperation
        BY <4>1 DEF Commits, NoOperation
      <4> QED BY <1>1, <2>1, <4>1, <4>2, <4>3 DEF Reading, OperationsTouch, Touches, NoWorker
    <3>2. CASE RetryTimer
      BY <1>1, <2>1, <3>2 DEF RetryTimer, serverVars, Reading, OperationsTouch, Touches, Started
    <3> QED BY <1>7, <3>1, <3>2
  <2>3. ReadsAgree'
    BY <1>1, <2>1, ReadsKept DEF Reading
  <2> QED BY <1>2, <2>1, <2>2, <2>3 DEF Reading
<1>8. CASE Fail
  BY <1>4, <1>8 DEF Fail
<1>9. CASE TaskExit
  <2>1. clean' => clean
    BY <1>9 DEF TaskExit, StoreTypeOK
  <2> QED BY <1>4, <1>9, <2>1 DEF TaskExit
<1> QED BY <1>5, <1>6, <1>7, <1>8, <1>9

LEMMA ReadingUnchanged == ASSUME Reading, UNCHANGED vars PROVE Reading'
BY DEF vars, lockVars, clientVars, storeVars, Reading, RequestsTouch, OperationsTouch, Touches, ReadsAgree, Watches

LEMMA ReadingAlways == Spec => []Reading
<1>1. Init => Reading
  BY TransactionsAssumption
     DEF Init, LockInit, ClientInit, Reading, RequestsTouch, OperationsTouch, ReadsAgree, NewBuffer,
         NoRows, NoRequest, NoWorker
<1>2. Locking /\ Holding /\ Atomic /\ Reading /\ [Next]_vars => Reading'
  <2> SUFFICES ASSUME Locking, Holding, Atomic, Reading, [Next]_vars PROVE Reading'
    OBVIOUS
  <2> USE KeyStoreAssumption, NoneAssumption, MarkersAssumption, TransactionsAssumption
  <2>1. CASE Callers
    BY <2>1, CallersRead DEF Callers
  <2>2. CASE Server
    BY <2>2, HandlersRead, DownReads, ResultsRead DEF Server
  <2>3. CASE Worker \/ Faults
    BY <2>3, TaskReads, ResultsRead DEF Faults
  <2>4. CASE Rest \/ UNCHANGED vars
    BY <2>4, ReadingUnchanged DEF Rest
  <2> QED BY <2>1, <2>2, <2>3, <2>4 DEF Next
<1> QED BY <1>1, <1>2, HoldingAlways, AtomicAlways, PTL DEF Spec

\* What a transaction has read under its key is so until it ends: the
\* fetch_missing of another process, its commit and the server's lock table
\* leave no room for a lost update between transactions.  Only a set or a clear
\* outside transactions makes one.
THEOREM ReadsHold == Spec => []ReadsStillHold
<1>1. Reading => ReadsStillHold
  BY DEF Reading, ReadsAgree, ReadsStillHold, Watches
<1> QED BY <1>1, ReadingAlways, PTL

-----------------------------------------------------------------------------
\* What the server holds is one operation of each process.
LEMMA OneHeld ==
    Locking /\ Holding =>
        /\ \A op \in Held : op \in Operations /\ Placed(op) /\ Taken(op)
        /\ \A op, other \in Held : op.from = other.from => op = other
<1> SUFFICES ASSUME Locking, Holding
             PROVE  /\ \A op \in Held : op \in Operations /\ Placed(op) /\ Taken(op)
                    /\ \A op, other \in Held : op.from = other.from => op = other
  OBVIOUS
<1>1. operations \in Seq(Operations) /\ active \in Operations \union {NoOperation}
  BY DEF Locking, TypeOK
<1>2. ASSUME NEW op \in Held
      PROVE  \/ op = active /\ active # NoOperation
             \/ \E j \in 1..Len(operations) : op = operations[j]
  BY DEF Held
<1>3. ASSUME NEW op \in Held PROVE op \in Operations /\ Placed(op) /\ Taken(op)
  BY <1>1, <1>2, ElementOfSeq DEF Holding, AllPlaced
<1>4. ASSUME NEW op \in Held, NEW other \in Held, op.from = other.from PROVE op = other
  BY <1>2, <1>4 DEF Holding, OneEach
<1> QED BY <1>3, <1>4

\* What a process has submitted: its commit that the server holds, or the one in
\* its request, or nothing.
Submission(data, clear) == [data |-> data, clear |-> clear]

Pending ==
    /\ \A op \in Held : op.kind = "commit" => Submitted[op.from] = Submission(op.data, op.clear)
    /\ \A c \in Clients :
          /\ inbox[c].op = "commit"
                => Submitted[c] = Submission(inbox[c].data, inbox[c].clear)
          /\ inbox[c].op = "set" => Submitted[c] = Submission(inbox[c].data, FALSE)
          /\ inbox[c].op = "clear" => Submitted[c] = Submission(NoData, TRUE)
          /\ /\ \A op \in Held : op.from = c => op.kind # "commit"
             /\ inbox[c].op \notin {"set", "commit", "clear"}
             => Submitted[c] = Serial!Nothing

LEMMA PendingOf == Locking /\ Holding => Pending
<1> SUFFICES ASSUME Locking, Holding, NEW c \in Clients
             PROVE  /\ \A op \in Held : op.from = c /\ op.kind = "commit"
                          => Submitted[c] = Submission(op.data, op.clear)
                    /\ inbox[c].op = "commit"
                          => Submitted[c] = Submission(inbox[c].data, inbox[c].clear)
                    /\ inbox[c].op = "set" => Submitted[c] = Submission(inbox[c].data, FALSE)
                    /\ inbox[c].op = "clear" => Submitted[c] = Submission(NoData, TRUE)
                    /\ /\ \A op \in Held : op.from = c => op.kind # "commit"
                       /\ inbox[c].op \notin {"set", "commit", "clear"}
                       => Submitted[c] = Serial!Nothing
  <2>1. Locking /\ Holding => \A op \in Held : op.from \in Clients
    BY OneHeld DEF Operations, Fetches, Commits
  <2> QED BY <2>1 DEF Pending
<1> DEFINE mine == {o \in Held : o.kind = "commit" /\ o.from = c}
           held == {Submission(op.data, op.clear) : op \in mine}
           asked == IF inbox[c].op = "commit"
                    THEN {Submission(inbox[c].data, inbox[c].clear)} ELSE {}
           set == IF inbox[c].op = "set"
                  THEN {Submission(inbox[c].data, FALSE)} ELSE {}
           cleared == IF inbox[c].op = "clear" THEN {Submission(NoData, TRUE)} ELSE {}
           all == ((held \union asked) \union set) \union cleared
<1>1. Submitted[c] = IF all = {} THEN Submission(NoData, FALSE)
                     ELSE CHOOSE s \in all : TRUE
  BY DEF Submitted, SubmittedBy, Submission
<1> HIDE DEF all
<1>2. ASSUME NEW x, all = {x} PROVE Submitted[c] = x
  <2>1. (CHOOSE s \in all : TRUE) \in all
    BY <1>2
  <2> QED BY <1>1, <1>2, <2>1
<1>3. all = {} => Submitted[c] = Serial!Nothing
  BY <1>1 DEF Serial!Nothing, NoData, Submission
<1>4. ASSUME NEW op \in Held, op.from = c, op.kind = "commit"
      PROVE  Submitted[c] = Submission(op.data, op.clear)
  <2>1. inbox[c].op \notin {"set", "commit", "clear"}
    BY <1>4, OneHeld DEF Taken, NoRequest
  <2>2. mine = {op}
    BY <1>4, OneHeld
  <2>3. held = {Submission(op.data, op.clear)}
    BY <2>2
  <2>4. asked = {} /\ set = {} /\ cleared = {}
    BY <2>1
  <2> HIDE DEF mine, held, asked, set, cleared
  <2>5. all = {Submission(op.data, op.clear)}
    BY <2>3, <2>4 DEF all
  <2> QED BY <1>2, <2>5
<1>5. inbox[c].op \in {"set", "commit", "clear"} => mine = {}
  BY OneHeld DEF Taken, NoRequest
<1>6. mine = {} => held = {}
  OBVIOUS
<1>7. ASSUME inbox[c].op = "commit"
      PROVE  Submitted[c] = Submission(inbox[c].data, inbox[c].clear)
  <2>1. held = {} /\ set = {} /\ cleared = {}
    BY <1>5, <1>6, <1>7
  <2>2. asked = {Submission(inbox[c].data, inbox[c].clear)}
    BY <1>7
  <2> HIDE DEF mine, held, asked, set, cleared
  <2>3. all = {Submission(inbox[c].data, inbox[c].clear)}
    BY <2>1, <2>2 DEF all
  <2> QED BY <1>2, <2>3
<1>8. ASSUME inbox[c].op = "set"
      PROVE  Submitted[c] = Submission(inbox[c].data, FALSE)
  <2>1. held = {} /\ asked = {} /\ cleared = {}
    BY <1>5, <1>6, <1>8
  <2>2. set = {Submission(inbox[c].data, FALSE)}
    BY <1>8
  <2> HIDE DEF mine, held, asked, set, cleared
  <2>3. all = {Submission(inbox[c].data, FALSE)}
    BY <2>1, <2>2 DEF all
  <2> QED BY <1>2, <2>3
<1>9. ASSUME \A op \in Held : op.from = c => op.kind # "commit",
             inbox[c].op \notin {"set", "commit", "clear"}
      PROVE  Submitted[c] = Serial!Nothing
  <2>1. mine = {} /\ asked = {} /\ set = {} /\ cleared = {}
    BY <1>9
  <2>2. held = {}
    BY <1>6, <2>1
  <2> HIDE DEF mine, held, asked, set, cleared
  <2>3. all = {}
    BY <2>1, <2>2 DEF all
  <2> QED BY <1>3, <2>3
<1>10. ASSUME inbox[c].op = "clear" PROVE Submitted[c] = Submission(NoData, TRUE)
  <2>1. held = {} /\ asked = {} /\ set = {}
    BY <1>5, <1>6, <1>10
  <2>2. cleared = {Submission(NoData, TRUE)}
    BY <1>10
  <2> HIDE DEF mine, held, asked, set, cleared
  <2>3. all = {Submission(NoData, TRUE)}
    BY <2>1, <2>2 DEF all
  <2> QED BY <1>2, <2>3
<1> QED BY <1>4, <1>7, <1>8, <1>9, <1>10

LEMMA PendingNext == Locking' /\ Holding' => Pending'
BY PendingOf, PTL

\* Steps that leave the operations and the requests that submit something alone.
LEMMA SubmittedFrame ==
    ASSUME UNCHANGED <<active, operations>>, NEW c \in Clients,
           \/ inbox'[c] = inbox[c]
           \/ inbox[c].op \notin {"set", "commit", "clear"} /\ inbox'[c].op \notin {"set", "commit", "clear"}
    PROVE  Submitted'[c] = Submitted[c]
<1>1. Held' = Held
  BY DEF Held
<1>2. SubmittedBy(c)' = SubmittedBy(c)
  BY <1>1 DEF SubmittedBy
<1> QED BY <1>2 DEF Submitted

LEMMA SubmittedSame ==
    ASSUME \A c \in Clients : Submitted'[c] = Submitted[c]
    PROVE  Submitted' = Submitted
<1> DEFINE S == Submitted
           T == Submitted'
<1>1. S = [c \in Clients |-> S[c]] /\ T = [c \in Clients |-> T[c]]
  BY DEF Submitted
<1>2. \A c \in Clients : T[c] = S[c]
  OBVIOUS
<1> HIDE DEF S, T
<1>3. T = S
  BY <1>1, <1>2
<1> QED BY <1>3 DEF S, T

LEMMA SubmittedOne ==
    ASSUME NEW c \in Clients, NEW s, Submitted'[c] = s,
           \A d \in Clients \ {c} : Submitted'[d] = Submitted[d]
    PROVE  Submitted' = [Submitted EXCEPT ![c] = s]
<1> DEFINE S == Submitted
           T == Submitted'
<1>1. S = [d \in Clients |-> S[d]] /\ T = [d \in Clients |-> T[d]]
  BY DEF Submitted
<1>2. T[c] = s /\ \A d \in Clients \ {c} : T[d] = S[d]
  OBVIOUS
<1> HIDE DEF S, T
<1>3. T = [S EXCEPT ![c] = s]
  BY <1>1, <1>2
<1> QED BY <1>3 DEF S, T

abstractVars == <<owner, Submitted, committed>>

\* A process that is idle holds no key.
LEMMA IdleHoldsNone ==
    ASSUME TableAgrees, NoneAssumption, NEW c \in Clients, pc[c] = "idle"
    PROVE  \A k \in LockKeys : owner[k] # c
BY NoneAssumption DEF TableAgrees

\* A caller's step submits something, or shows nothing.
LEMMA CallersRefine ==
    ASSUME Locking, Holding, Holding', Locking', Reading, NoneAssumption,
           TransactionsAssumption, KeyStoreAssumption, NEW c \in Clients,
           Caller(c) \/ Commit(c) \/ Unlock(c) \/ (MayClear /\ Clearing(c))
    PROVE  [Serial!Next]_abstractVars
<1> USE TypeParts DEF Locking
<1>1. Pending /\ Pending'
  BY PendingOf, PendingNext
<1>2. UNCHANGED storeVars
  BY DEF Caller, Commit, Unlock, Clearing, Get, GetInside, SetInside
<1>3. UNCHANGED <<active, operations, committed>>
  BY <1>2 DEF storeVars
<1>4. pc[c] \in {"idle", "body", "ending"} =>
         inbox[c].op \notin {"set", "commit", "clear"} /\ \A op \in Held : op.from # c
  BY OneHeld DEF Holding, AsksInTurn, Placed, Operations, Fetches, Commits
<1>5. ASSUME owner' = owner, inbox'[c] = inbox[c] \/
                (inbox[c].op \notin {"set", "commit", "clear"} /\ inbox'[c].op \notin {"set", "commit", "clear"}),
             \A d \in Clients \ {c} : inbox'[d] = inbox[d]
      PROVE  UNCHANGED abstractVars
  <2>1. \A d \in Clients : Submitted'[d] = Submitted[d]
    BY <1>3, <1>5, SubmittedFrame
  <2> QED BY <1>3, <1>5, <2>1, SubmittedSame DEF abstractVars
<1>6. ASSUME pc[c] \in {"idle", "body"}, owner' = owner,
             \A d \in Clients \ {c} : inbox'[d] = inbox[d],
             NEW data \in DataSets, NEW clear \in BOOLEAN, Submitted'[c] = Submission(data, clear),
             \/ \A k \in LockKeys : owner[k] # c
             \/ \A i \in DOMAIN data : GuardKey[i] # None => owner[GuardKey[i]] = c
      PROVE  Serial!Submit(c)
  <2> DEFINE s == Submission(data, clear)
  <2>1. Submitted[c] = Serial!Nothing
    BY <1>1, <1>4, <1>6 DEF Pending
  <2>2. \A d \in Clients \ {c} : Submitted'[d] = Submitted[d]
    BY <1>3, <1>6, SubmittedFrame
  <2>3. s \in Serial!Submissions /\ s.data = data
    BY DEF Serial!Submissions, DataSets, Submission
  <2>4. Submitted'[c] = s
    BY <1>6
  <2> HIDE DEF s
  <2>5. Submitted' = [Submitted EXCEPT ![c] = s]
    BY <2>2, <2>4, SubmittedOne
  <2> QED BY <1>3, <1>6, <2>1, <2>3, <2>5 DEF Serial!Submit, Serial!MayTouch, Serial!InNone
<1>7. ASSUME NEW request, PlainCall(c, request), request.op = "fetch"
      PROVE  UNCHANGED abstractVars
  BY <1>4, <1>5, <1>7 DEF PlainCall, At, Call, lockVars
<1>8. ASSUME NEW data \in PlainSets, PlainCall(c, [op |-> "set", data |-> data])
      PROVE  Serial!Submit(c)
  <2>1. /\ pc[c] = "idle" /\ owner' = owner
        /\ inbox' = [inbox EXCEPT ![c] = [op |-> "set", data |-> data]]
    BY <1>8 DEF PlainCall, At, Call, lockVars
  <2>2. inbox'[c].op = "set" /\ inbox'[c].data = data /\ \A d \in Clients \ {c} : inbox'[d] = inbox[d]
    BY <2>1 DEF ClientTypeOK
  <2>3. Submitted'[c] = Submission(data, FALSE)
    BY <1>1, <2>2 DEF Pending
  <2>4. data \in DataSets /\ \A k \in LockKeys : owner[k] # c
    BY <2>1, IdleHoldsNone DEF KeyStoreAssumption, Holding
  <2> QED BY <1>6, <2>1, <2>2, <2>3, <2>4
<1>14. ASSUME PlainCall(c, [op |-> "clear"]) PROVE Serial!Submit(c)
  <2>1. /\ pc[c] = "idle" /\ owner' = owner
        /\ inbox' = [inbox EXCEPT ![c] = [op |-> "clear"]]
    BY <1>14 DEF PlainCall, At, Call, lockVars
  <2>2. inbox'[c].op = "clear" /\ \A d \in Clients \ {c} : inbox'[d] = inbox[d]
    BY <2>1 DEF ClientTypeOK
  <2>3. Submitted'[c] = Submission(NoData, TRUE)
    BY <1>1, <2>2 DEF Pending
  <2>4. \A k \in LockKeys : owner[k] # c
    BY <2>1, IdleHoldsNone DEF Holding
  <2> QED BY <1>6, <2>1, <2>2, <2>3, <2>4, NoDataType
<1>9. ASSUME SendCommit(c) PROVE Serial!Submit(c)
  <2> DEFINE data == MutationData(buffer[c])
  <2>1. /\ pc[c] = "body" /\ c \in alive /\ owner' = owner
        /\ inbox' = [inbox EXCEPT ![c] = [op |-> "commit", data |-> data, clear |-> buffer[c].cleared]]
    BY <1>9 DEF SendCommit, At, Call, lockVars
  <2>2. buffer[c] \in BufferType /\ buffer[c].cleared \in BOOLEAN
    BY DEF ClientTypeOK, BufferType
  <2>3. data \in DataSets
    BY <2>2, MutationDataType
  <2>4. \A i \in DOMAIN data : GuardKey[i] \in {txKey[c], None}
    BY <2>2 DEF MutationData, Present, BufferType, Reading, RequestsTouch
  <2> HIDE DEF data
  <2>5. /\ inbox'[c].op = "commit" /\ inbox'[c].data = data /\ inbox'[c].clear = buffer[c].cleared
        /\ \A d \in Clients \ {c} : inbox'[d] = inbox[d]
    BY <2>1, <2>2 DEF ClientTypeOK
  <2>6. Submitted'[c] = Submission(data, buffer[c].cleared)
    BY <1>1, <2>5 DEF Pending
  <2>7. txKey[c] \in LockKeys /\ owner[txKey[c]] = c
    BY <2>1 DEF ClientTypeOK, LockInv, OwnerHolds, In, Inside
  <2> QED BY <1>6, <2>1, <2>2, <2>3, <2>4, <2>5, <2>6, <2>7
<1>10. ASSUME End(c) \/ \E k \in LockKeys : Begin(c, k) PROVE UNCHANGED abstractVars
  <2>1. /\ pc[c] \in {"idle", "ending"} /\ owner' = owner /\ inbox'[c].op \in {"lock", "unlock"}
        /\ \A d \in Clients \ {c} : inbox'[d] = inbox[d]
    BY <1>10 DEF Begin, End, At, Call, lockVars, ClientTypeOK
  <2> QED BY <1>4, <1>5, <2>1
<1>11. ASSUME NEW ids, GetInside(c, ids) PROVE UNCHANGED abstractVars
  <2>1. /\ pc[c] = "body" /\ owner' = owner
        /\ inbox' = inbox \/ Call(c, [op |-> "fetch", ids |-> MissingIds(buffer[c], ids)], "fetching")
    BY <1>11 DEF GetInside, At, lockVars
  <2>2. /\ inbox'[c] = inbox[c] \/ inbox'[c].op = "fetch"
        /\ \A d \in Clients \ {c} : inbox'[d] = inbox[d]
    BY <2>1 DEF Call, ClientTypeOK
  <2> QED BY <1>4, <1>5, <2>1, <2>2
<1>12. ASSUME Raise(c) \/ Die(c) \/ \E i \in Ids, value \in Entries : SetInside(c, i, value)
       PROVE  UNCHANGED abstractVars
  BY <1>5, <1>12 DEF Raise, Die, Exit, SetInside, Put, lockVars
<1>13. CASE Caller(c)
  <2>1. CASE \E ids \in ReadSets : Get(c, ids)
    BY <2>1, <1>7 DEF Get
  <2> QED BY <1>8, <1>10, <1>11, <1>12, <1>13, <2>1 DEF Caller, Serial!Next
<1>15. CASE Clearing(c)
  <2>1. ASSUME ClearInside(c) PROVE UNCHANGED abstractVars
    BY <1>5, <2>1 DEF ClearInside, lockVars
  <2> QED BY <1>14, <1>15, <2>1 DEF Clearing, Serial!Next
<1> QED BY <1>9, <1>10, <1>13, <1>15 DEF Commit, Unlock, Serial!Next

-----------------------------------------------------------------------------
\* What is left of a queue: the operations that were not skipped.
LEMMA HeldAfter ==
    ASSUME NEW q \in Seq(Operations), NEW ended, NEW failed, StartNext(q, ended, failed)
    PROVE  \A op : op \in Held' <=> \E j \in 1..Len(q) : j \notin Skipped(q) /\ op = q[j]
<1>1. CASE Starting(q) = {} /\ active' = NoOperation /\ worker' = NoWorker /\ operations' = << >>
  BY <1>1, SkippedPrefix DEF Held
<1>2. ASSUME NEW next \in Starting(q), active' = q[next], operations' = SubSeq(q, next + 1, Len(q))
      PROVE  \A op : op \in Held' <=> \E j \in 1..Len(q) : j \notin Skipped(q) /\ op = q[j]
  <2>1. next \in 1..Len(q) /\ Len(q) \in Nat /\ Skipped(q) = 1..(next - 1)
    BY SkippedPrefix
  <2>2. q[next] # NoOperation
    <3>1. q[next] \in Operations
      BY <2>1, ElementOfSeq
    <3> QED BY <3>1 DEF Operations, Fetches, Commits, NoOperation
  <2> DEFINE rest == SubSeq(q, next + 1, Len(q))
  <2>3. /\ Len(rest) = Len(q) - next
        /\ \A i \in 1..(Len(q) - next) : next + i \in 1..Len(q) /\ rest[i] = q[next + i]
    BY ONLY <2>1, q \in Seq(Operations), SuffixAt
  <2>4. operations' = rest
    BY <1>2
  <2> HIDE DEF rest
  <2>5. ASSUME NEW op \in Held' PROVE \E j \in 1..Len(q) : j \notin Skipped(q) /\ op = q[j]
    <3>1. CASE op = q[next]
      BY <2>1, <3>1
    <3>2. ASSUME NEW i \in 1..Len(operations'), op = operations'[i]
          PROVE  \E j \in 1..Len(q) : j \notin Skipped(q) /\ op = q[j]
      <4>1. next + i \in 1..Len(q) /\ next + i \notin Skipped(q) /\ op = q[next + i]
        BY <2>1, <2>3, <2>4, <3>2
      <4> QED BY <4>1
    <3> QED BY <1>2, <3>1, <3>2 DEF Held
  <2>6. ASSUME NEW j \in 1..Len(q), j \notin Skipped(q) PROVE q[j] \in Held'
    <3>1. CASE j = next
      BY <1>2, <2>2, <3>1 DEF Held
    <3>2. CASE j # next
      <4>1. j - next \in 1..Len(operations') /\ next + (j - next) = j
        BY <2>1, <2>3, <2>4, <2>6, <3>2
      <4>2. operations'[j - next] = q[j]
        BY <2>1, <2>3, <2>4, <4>1
      <4> QED BY <4>1, <4>2 DEF Held
    <3> QED BY <3>1, <3>2
  <2> QED BY <2>5, <2>6
<1> QED BY <1>1, <1>2 DEF StartNext

\* What the end of operations and the start of the next shows: the pending
\* submissions of the queue stay, and keys change hands only when their
\* holders have none.
LEMMA StartNextShows ==
    ASSUME Locking, Locking', Holding', NoneAssumption, NEW q \in Seq(Operations),
           NEW ended \in SUBSET Operations, NEW failed, StartNext(q, ended, failed),
           \A j \in 1..Len(q) : Placed(q[j]) /\ inbox'[q[j].from] = NoRequest,
           \A op \in ended : Placed(op) /\ inbox'[op.from] = NoRequest,
           \A i, j \in 1..Len(q) : q[i].from = q[j].from => i = j,
           \A op \in ended : \A j \in 1..Len(q) : op.from # q[j].from
    PROVE  /\ \A j \in 1..Len(q) : q[j].kind = "commit" =>
                 Submitted'[q[j].from] = Submission(q[j].data, q[j].clear)
           /\ \A c \in Clients : /\ inbox'[c].op \notin {"set", "commit", "clear"}
                                 /\ \A j \in 1..Len(q) : q[j].from = c => q[j].kind # "commit"
                                 => Submitted'[c] = Serial!Nothing
           /\ Serial!HandOver
<1> USE TypeParts DEF Locking
<1>1. Pending' /\ Len(q) \in Nat /\ \A j \in 1..Len(q) : q[j] \in Operations /\ q[j].from \in Clients
  BY PendingNext, ElementOfSeq DEF Operations, Fetches, Commits
<1>2. \A op : op \in Held' <=> \E j \in 1..Len(q) : j \notin Skipped(q) /\ op = q[j]
  BY HeldAfter
<1>3. ASSUME NEW c \in Clients, inbox'[c].op \notin {"set", "commit", "clear"},
             \A j \in 1..Len(q) : q[j].from = c /\ j \notin Skipped(q) => q[j].kind # "commit"
      PROVE  Submitted'[c] = Serial!Nothing
  <2>1. \A op \in Held' : op.from = c => op.kind # "commit"
    BY <1>2, <1>3
  <2> QED BY <1>1, <1>3, <2>1 DEF Pending
<1>4. ASSUME NEW j \in 1..Len(q), q[j].kind = "commit"
      PROVE  Submitted'[q[j].from] = Submission(q[j].data, q[j].clear)
  <2>1. CASE j \notin Skipped(q)
    BY <1>1, <1>2, <1>4, <2>1 DEF Pending
  <2>2. CASE j \in Skipped(q)
    <3>1. ~q[j].clear /\ DOMAIN q[j].data = {} /\ q[j] \in Commits
      BY <1>1, <1>4, <2>2 DEF Skipped, NothingToDo, Operations, Fetches
    <3>2. q[j].clear = FALSE /\ q[j].data = [i \in {} |-> Missing]
      BY <3>1 DEF Commits, DataSets
    <3>3. inbox'[q[j].from].op \notin {"set", "commit", "clear"}
      BY DEF NoRequest
    <3>4. Submitted'[q[j].from] = Serial!Nothing
      BY <1>1, <1>3, <2>2, <3>3
    <3> QED BY <3>2, <3>4 DEF Serial!Nothing, Submission
  <2> QED BY <2>1, <2>2
<1>5. Serial!HandOver
  <2> DEFINE refs == DownOf({q[j] : j \in Skipped(q)} \union ended)
  <2>1. Release(refs)
    BY DEF StartNext
  <2>2. owner' \in [LockKeys -> Clients \union {None}]
    BY <2>1, ReleaseType
  <2>3. ASSUME NEW k \in LockKeys, owner'[k] # owner[k], owner[k] # None
        PROVE  Submitted'[owner[k]] = Serial!Nothing
    <3>1. <<owner[k], k>> \in refs /\ owner[k] \in Clients
      BY <2>1, <2>3, ReleaseEffect DEF ReleasedKeys, LockTypeOK
    <3>2. PICK op \in {q[j] : j \in Skipped(q)} \union ended :
              op.kind = "commit" /\ <<owner[k], k>> \in op.down
      BY <3>1 DEF DownOf, Known
    <3>3. CASE op \in ended
      <4>1. owner[k] = op.from
        BY <3>2, <3>3, CarriedOf
      <4> QED BY <1>3, <3>1, <3>3, <4>1 DEF NoRequest
    <3>4. ASSUME NEW j \in Skipped(q), op = q[j] PROVE Submitted'[owner[k]] = Serial!Nothing
      <4>1. j \in 1..Len(q)
        BY DEF Skipped
      <4>2. owner[k] = q[j].from
        BY <1>1, <3>2, <3>4, <4>1, CarriedOf
      <4>3. inbox'[owner[k]].op \notin {"set", "commit", "clear"}
        BY <4>1, <4>2 DEF NoRequest
      <4> QED BY <1>3, <3>1, <4>1, <4>2, <4>3
    <3> QED BY <3>3, <3>4
  <2> QED BY <2>2, <2>3 DEF Serial!HandOver
<1>6. ASSUME NEW c \in Clients, inbox'[c].op \notin {"set", "commit", "clear"},
             \A j \in 1..Len(q) : q[j].from = c => q[j].kind # "commit"
      PROVE  Submitted'[c] = Serial!Nothing
  <2>1. \A j \in 1..Len(q) : q[j].from = c /\ j \notin Skipped(q) => q[j].kind # "commit"
    BY <1>6
  <2> QED BY <1>3, <1>6, <2>1
<1> QED BY <1>4, <1>5, <1>6

\* The end of the active operation settles what its process has submitted.
LEMMA FinishShows ==
    ASSUME Locking, Holding, Locking', Holding', NoneAssumption, NEW failed, Finish(failed),
           active # NoOperation, UNCHANGED inbox
    PROVE  /\ active.from \in Clients
           /\ Submitted' = [Submitted EXCEPT ![active.from] = Serial!Nothing]
           /\ Serial!HandOver
<1> USE TypeParts DEF Locking
<1> DEFINE ended == {active}
           c == active.from
<1>1. /\ operations \in Seq(Operations) /\ ended \in SUBSET Operations /\ c \in Clients
      /\ Len(operations) \in Nat
  BY DEF StoreTypeOK, ServerTypeOK, Operations, Fetches, Commits
<1>2. StartNext(operations, ended, failed)
  BY DEF Finish
<1>3. /\ \A j \in 1..Len(operations) : Placed(operations[j]) /\ inbox'[operations[j].from] = NoRequest
      /\ \A op \in ended : Placed(op) /\ inbox'[op.from] = NoRequest
  BY DEF Holding, AllPlaced, Taken
<1>4. /\ \A i, j \in 1..Len(operations) : operations[i].from = operations[j].from => i = j
      /\ \A op \in ended : \A j \in 1..Len(operations) : op.from # operations[j].from
  BY DEF Holding, OneEach
<1> HIDE DEF ended
<1>5. /\ \A j \in 1..Len(operations) : operations[j].kind = "commit" =>
            Submitted'[operations[j].from] = Submission(operations[j].data, operations[j].clear)
      /\ \A d \in Clients : /\ inbox'[d].op \notin {"set", "commit", "clear"}
                            /\ \A j \in 1..Len(operations) : operations[j].from = d => operations[j].kind # "commit"
                            => Submitted'[d] = Serial!Nothing
      /\ Serial!HandOver
  BY <1>1, <1>2, <1>3, <1>4, StartNextShows
<1>6. Pending /\ Pending'
  BY PendingOf, PendingNext
<1>7. Submitted'[c] = Serial!Nothing
  <2>1. inbox'[c].op \notin {"set", "commit", "clear"}
    BY <1>3 DEF ended, NoRequest
  <2>2. \A j \in 1..Len(operations) : operations[j].from # c
    BY <1>4 DEF ended
  <2> QED BY <1>1, <1>5, <2>1, <2>2
<1>8. ASSUME NEW d \in Clients \ {c} PROVE Submitted'[d] = Submitted[d]
  <2>1. ASSUME NEW j \in 1..Len(operations), operations[j].kind = "commit", operations[j].from = d
        PROVE  Submitted'[d] = Submitted[d]
    <3>1. operations[j] \in Held
      BY DEF Held
    <3> QED BY <1>5, <1>6, <2>1, <3>1 DEF Pending
  <2>2. CASE inbox[d].op \in {"set", "commit", "clear"}
    BY <1>6, <2>2, ZenonT(40) DEF Pending
  <2>3. ASSUME \A j \in 1..Len(operations) : operations[j].from = d => operations[j].kind # "commit",
               inbox[d].op \notin {"set", "commit", "clear"}
        PROVE  Submitted'[d] = Submitted[d]
    <3>1. \A op \in Held : op.from = d => op.kind # "commit"
      BY <2>3 DEF Held
    <3> QED BY <1>5, <1>6, <2>3, <3>1 DEF Pending
  <2> QED BY <2>1, <2>2, <2>3
<1>9. Submitted' = [Submitted EXCEPT ![c] = Serial!Nothing]
  BY <1>1, <1>7, <1>8, SubmittedOne
<1> QED BY <1>1, <1>5, <1>9

\* A request that becomes an operation shows nothing; one that is refused is
\* settled.
LEMMA ServeRefines ==
    ASSUME Locking, Holding, Locking', Holding', NoneAssumption,
           NEW c \in Clients, NEW new \in Operations, NEW name, Serve(c, name, new),
           inbox[c] # NoRequest, new.from = c, Placed(new),
           new.kind = "commit" => Submitted[c] = Submission(new.data, new.clear),
           new.kind = "fetch" => Submitted[c] = Serial!Nothing
    PROVE  [Serial!Next]_abstractVars
<1> USE TypeParts DEF Locking
<1>1. /\ operations \in Seq(Operations) /\ active \in Operations \union {NoOperation}
      /\ Len(operations) \in Nat /\ inbox \in [Clients -> Requests]
      /\ owner \in [LockKeys -> Clients \union {None}]
  BY DEF StoreTypeOK, ServerTypeOK, ClientTypeOK, LockTypeOK
<1>2. /\ committed' = committed /\ inbox'[c] = NoRequest
      /\ \A d \in Clients \ {c} : inbox'[d] = inbox[d]
  BY <1>1 DEF Serve, Consumed
<1>3. Pending /\ Pending'
  BY PendingOf, PendingNext
<1>11. inbox'[c].op \notin {"set", "commit", "clear"}
  BY <1>2 DEF NoRequest
<1>14. ASSUME NEW d \in Clients, inbox'[d].op \notin {"set", "commit", "clear"},
              \A op \in Held' : op.from = d => op.kind # "commit"
       PROVE  Submitted'[d] = Serial!Nothing
  BY ONLY <1>3, <1>14 DEF Pending
<1>12. /\ \A op \in Held : op.kind = "commit" => Submitted[op.from] = Submission(op.data, op.clear)
       /\ \A op \in Held' : op.kind = "commit" => Submitted'[op.from] = Submission(op.data, op.clear)
  BY <1>3 DEF Pending
<1>13. ASSUME NEW d \in Clients, inbox[d].op \in {"set", "commit", "clear"}, inbox'[d] = inbox[d]
       PROVE  Submitted'[d] = Submitted[d]
  BY ONLY <1>3, <1>13, ZenonT(40) DEF Pending
<1>4. /\ \A j \in 1..Len(operations) : /\ operations[j].from # c /\ Placed(operations[j])
                                        /\ operations[j].from \in Clients
                                        /\ inbox'[operations[j].from] = NoRequest
      /\ \A op \in Held : op.from # c
  <2>1. \A op \in Held : op.from # c /\ Placed(op) /\ op.from \in Clients /\ inbox[op.from] = NoRequest
    BY OneHeld DEF Taken, Operations, Fetches, Commits
  <2>2. \A j \in 1..Len(operations) : operations[j] \in Held
    BY DEF Held
  <2> QED BY <1>2, <2>1, <2>2
<1>5. ASSUME Submitted'[c] = Submitted[c] \/ Submitted'[c] = Serial!Nothing, Serial!HandOver,
             \A d \in Clients \ {c} : Submitted'[d] = Submitted[d]
      PROVE  Serial!Next
  <2>1. CASE Submitted'[c] = Submitted[c]
    <3>1. Submitted' = Submitted
      BY <1>5, <2>1, SubmittedSame
    <3> QED BY <1>2, <1>5, <3>1 DEF Serial!Next
  <2>2. CASE Submitted'[c] = Serial!Nothing
    <3>1. Submitted' = [Submitted EXCEPT ![c] = Serial!Nothing]
      BY <1>5, <2>2, SubmittedOne
    <3> QED BY <1>2, <1>5, <3>1 DEF Serial!Next, Serial!Settle
  <2> QED BY <1>5, <2>1, <2>2
<1> DEFINE q == Append(operations, new)
<1>6. /\ q \in Seq(Operations) /\ Len(q) = Len(operations) + 1
      /\ \A j \in 1..Len(operations) : q[j] = operations[j]
      /\ q[Len(operations) + 1] = new
  BY <1>1, AppendProperties
<1> HIDE DEF q
<1>7. ASSUME NEW j \in 1..Len(q)
      PROVE  \/ j \in 1..Len(operations) /\ q[j] = operations[j]
             \/ j = Len(operations) + 1 /\ q[j] = new
  BY <1>1, <1>6
<1>8. CASE UNCHANGED <<lockVars, active, operations>>
  <2>1. \A d \in Clients \ {c} : Submitted'[d] = Submitted[d]
    BY <1>2, <1>8, SubmittedFrame
  <2>2. Held' = Held
    BY <1>8 DEF Held
  <2>3. Submitted'[c] = Serial!Nothing
    BY <1>4, <1>11, <1>14, <2>2
  <2>4. Serial!HandOver
    BY <1>1, <1>8 DEF lockVars, Serial!HandOver
  <2> QED BY <1>5, <2>1, <2>3, <2>4
<1>9. CASE active = NoOperation /\ StartNext(q, {}, FALSE)
  <2> DEFINE ended == {}
  <2>1. /\ ended \in SUBSET Operations /\ StartNext(q, ended, FALSE)
        /\ \A o \in ended : Placed(o) /\ inbox'[o.from] = NoRequest
        /\ \A o \in ended : \A j \in 1..Len(q) : o.from # q[j].from
    BY <1>9
  <2>2. \A j \in 1..Len(q) : Placed(q[j]) /\ inbox'[q[j].from] = NoRequest
    <3> TAKE j \in 1..Len(q)
    <3> QED BY <1>2, <1>4, <1>7
  <2>3. ASSUME NEW i \in 1..Len(q), NEW j \in 1..Len(q), q[i].from = q[j].from PROVE i = j
    <3>1. CASE q[i] = operations[i] /\ q[j] = operations[j] /\ i \in 1..Len(operations) /\ j \in 1..Len(operations)
      BY <2>3, <3>1 DEF Holding, OneEach
    <3>2. CASE i = Len(operations) + 1 /\ q[i] = new
      BY <1>4, <1>7, <2>3, <3>2
    <3>3. CASE j = Len(operations) + 1 /\ q[j] = new
      BY <1>4, <1>7, <2>3, <3>3
    <3> QED BY <1>7, <3>1, <3>2, <3>3
  <2> HIDE DEF ended
  <2>4. /\ \A j \in 1..Len(q) : q[j].kind = "commit" =>
              Submitted'[q[j].from] = Submission(q[j].data, q[j].clear)
        /\ \A d \in Clients : /\ inbox'[d].op \notin {"set", "commit", "clear"}
                              /\ \A j \in 1..Len(q) : q[j].from = d => q[j].kind # "commit"
                              => Submitted'[d] = Serial!Nothing
        /\ Serial!HandOver
    BY <1>6, <2>1, <2>2, <2>3, StartNextShows
  <2>5. Submitted'[c] = Submitted[c]
    <3>1. Len(operations) + 1 \in 1..Len(q)
      BY <1>1, <1>6
    <3>2. CASE new.kind = "commit"
      BY <1>6, <2>4, <3>1, <3>2
    <3>3. CASE new.kind = "fetch"
      <4>1. \A j \in 1..Len(q) : q[j].from = c => q[j].kind # "commit"
        BY <1>4, <1>7, <3>3
      <4>2. inbox'[c].op \notin {"set", "commit", "clear"}
        BY <1>2 DEF NoRequest
      <4> QED BY <2>4, <3>3, <4>1, <4>2
    <3> QED BY <3>2, <3>3 DEF Operations, Fetches, Commits
  <2>6. ASSUME NEW d \in Clients \ {c} PROVE Submitted'[d] = Submitted[d]
    <3>1. ASSUME NEW j \in 1..Len(operations), operations[j].kind = "commit", operations[j].from = d
          PROVE  Submitted'[d] = Submitted[d]
      <4>1. operations[j] \in Held
        BY DEF Held
      <4>2. j \in 1..Len(q) /\ q[j] = operations[j]
        BY <1>1, <1>6
      <4> QED BY <1>12, <2>4, <3>1, <4>1, <4>2
    <3>2. CASE inbox[d].op \in {"set", "commit", "clear"}
      BY <1>2, <1>13, <3>2
    <3>3. ASSUME \A j \in 1..Len(operations) : operations[j].from = d => operations[j].kind # "commit",
                 inbox[d].op \notin {"set", "commit", "clear"}
          PROVE  Submitted'[d] = Submitted[d]
      <4>1. \A op \in Held : op.from = d => op.kind # "commit"
        BY <1>9, <3>3 DEF Held
      <4>2. \A j \in 1..Len(q) : q[j].from = d => q[j].kind # "commit"
        BY <1>7, <3>3
      <4> QED BY <1>2, <1>3, <2>4, <3>3, <4>1, <4>2 DEF Pending
    <3> QED BY <3>1, <3>2, <3>3
  <2> QED BY <1>5, <2>4, <2>5, <2>6
<1>10. CASE active # NoOperation /\ operations' = q /\ UNCHANGED <<lockVars, active>>
  <2>1. \A op : op \in Held' <=> op \in Held \/ op = new
    <3>1. \A op : op \in Held' <=> op = active \/ \E j \in 1..Len(q) : op = q[j]
      BY <1>1, <1>10 DEF Held
    <3>2. \A op : (\E j \in 1..Len(q) : op = q[j]) <=>
             op = new \/ \E j \in 1..Len(operations) : op = operations[j]
      BY <1>1, <1>6, <1>7
    <3>3. \A op : op \in Held <=> op = active \/ \E j \in 1..Len(operations) : op = operations[j]
      BY <1>10 DEF Held
    <3> QED BY <3>1, <3>2, <3>3
  <2>2. Submitted'[c] = Submitted[c]
    <3>1. CASE new.kind = "commit"
      BY <1>12, <2>1, <3>1
    <3>2. CASE new.kind = "fetch"
      <4>1. \A op \in Held' : op.from = c => op.kind # "commit"
        BY <1>4, <2>1, <3>2
      <4> QED BY <1>11, <1>14, <3>2, <4>1
    <3> QED BY <3>1, <3>2 DEF Operations, Fetches, Commits
  <2>3. ASSUME NEW d \in Clients \ {c} PROVE Submitted'[d] = Submitted[d]
    <3>1. ASSUME NEW op \in Held, op.from = d, op.kind = "commit" PROVE Submitted'[d] = Submitted[d]
      BY <1>12, <2>1, <3>1
    <3>2. CASE inbox[d].op \in {"set", "commit", "clear"}
      BY <1>2, <1>13, <3>2
    <3>3. ASSUME \A op \in Held : op.from = d => op.kind # "commit", inbox[d].op \notin {"set", "commit", "clear"}
          PROVE  Submitted'[d] = Submitted[d]
      <4>1. \A op \in Held' : op.from = d => op.kind # "commit"
        BY <2>1, <3>3
      <4> QED BY <1>2, <1>3, <1>14, <3>3, <4>1 DEF Pending
    <3> QED BY <3>1, <3>2, <3>3
  <2>4. Serial!HandOver
    BY <1>1, <1>10 DEF lockVars, Serial!HandOver
  <2> QED BY <1>5, <2>2, <2>3, <2>4
<1> QED BY <1>8, <1>9, <1>10 DEF Serve, EnqueueOperation, q

-----------------------------------------------------------------------------
LEMMA NothingOf ==
    ASSUME Locking, Holding, NEW c \in Clients, inbox[c].op \notin {"set", "commit", "clear"},
           \A op \in Held : op.from = c => op.kind # "commit"
    PROVE  Submitted[c] = Serial!Nothing
BY PendingOf DEF Pending

\* Operations that are marked or counted down submit what they did.
LEMMA SubmittedMoved ==
    ASSUME Locking, Holding, Locking', Holding', UNCHANGED inbox,
           \A op \in Held : op.kind = "commit" => \E new \in Held' :
               /\ new.kind = "commit" /\ new.from = op.from
               /\ new.data = op.data /\ new.clear = op.clear,
           \A new \in Held' : new.kind = "commit" => \E op \in Held :
               op.kind = "commit" /\ op.from = new.from
    PROVE  Submitted' = Submitted
<1>1. Pending /\ Pending'
  BY PendingOf, PendingNext
<1>2. /\ \A op \in Held : op.kind = "commit" => Submitted[op.from] = Submission(op.data, op.clear)
      /\ \A op \in Held' : op.kind = "commit" => Submitted'[op.from] = Submission(op.data, op.clear)
  BY <1>1 DEF Pending
<1>3. ASSUME NEW d \in Clients PROVE Submitted'[d] = Submitted[d]
  <2>1. ASSUME NEW op \in Held, op.from = d, op.kind = "commit" PROVE Submitted'[d] = Submitted[d]
    <3>1. PICK new \in Held' : /\ new.kind = "commit" /\ new.from = op.from
                               /\ new.data = op.data /\ new.clear = op.clear
      BY <2>1
    <3> QED BY <1>2, <2>1, <3>1
  <2>2. CASE inbox[d].op \in {"set", "commit", "clear"}
    BY ONLY <1>1, <2>2, inbox' = inbox, d \in Clients DEF Pending
  <2>3. ASSUME \A op \in Held : op.from = d => op.kind # "commit", inbox[d].op \notin {"set", "commit", "clear"}
        PROVE  Submitted'[d] = Submitted[d]
    <3>1. \A op \in Held' : op.from = d => op.kind # "commit"
      BY <2>3
    <3> QED BY ONLY <1>1, <2>3, <3>1, inbox' = inbox, d \in Clients DEF Pending
  <2> QED BY <2>1, <2>2, <2>3
<1> QED BY <1>3, SubmittedSame

LEMMA HandsOver ==
    ASSUME LockTypeOK, NEW refs, Release(refs), NEW c \in Clients,
           \A k \in LockKeys : <<owner[k], k>> \in refs => owner[k] = c,
           Submitted'[c] = Serial!Nothing
    PROVE  Serial!HandOver
<1>1. owner' \in [LockKeys -> Clients \union {None}]
  BY ReleaseType
<1>2. ASSUME NEW k \in LockKeys, owner'[k] # owner[k] PROVE owner[k] = c
  <2>1. k \in ReleasedKeys(refs)
    BY <1>2, ReleaseEffect
  <2> QED BY <2>1 DEF ReleasedKeys
<1> QED BY <1>1, <1>2 DEF Serial!HandOver

\* The handlers of locks: keys change hands when nothing is pending.
LEMMA LocksRefine ==
    ASSUME Locking, Holding, NoneAssumption, NEW c \in Clients, ServeLock(c) \/ ServeUnlock(c)
    PROVE  [Serial!Next]_abstractVars
<1> USE TypeParts DEF Locking
<1>1. inbox \in [Clients -> Requests] /\ LockTypeOK /\ UNCHANGED <<active, operations, committed>>
  BY DEF ClientTypeOK, ServeLock, ServeUnlock, storeVars
<1>2. /\ inbox'[c] = NoRequest /\ inbox[c].op \in {"lock", "unlock"} /\ inbox[c] # NoRequest
      /\ \A d \in Clients \ {c} : inbox'[d] = inbox[d]
  BY <1>1 DEF ServeLock, ServeUnlock, HandleLock, HandleUnlock, Received, Consumed, NoRequest
<1>3. Submitted' = Submitted
  <2>1. \A d \in Clients : Submitted'[d] = Submitted[d]
    BY <1>1, <1>2, SubmittedFrame DEF NoRequest
  <2> QED BY <2>1, SubmittedSame
<1>4. Submitted'[c] = Serial!Nothing
  <2>1. \A op \in Held : op.from # c
    BY <1>2, OneHeld DEF Taken
  <2> QED BY <1>2, <1>3, <2>1, NothingOf
<1>5. CASE ServeLock(c)
  <2> DEFINE k == inbox[c].key
  <2>1. k \in LockKeys
    BY <1>1, <1>5 DEF ServeLock, HandleLock, Received, Requests
  <2>2. CASE Acquire(c, k)
    <3>1. owner[k] = None /\ owner' = [owner EXCEPT ![k] = c]
      BY <2>2 DEF Acquire
    <3>2. Serial!HandOver
      BY <2>1, <3>1 DEF Serial!HandOver, LockTypeOK
    <3> QED BY <1>1, <1>3, <3>2 DEF Serial!Next
  <2>3. CASE Enqueue(c, k)
    BY <1>1, <1>3, <2>3 DEF Enqueue, abstractVars
  <2> QED BY <1>5, <2>2, <2>3 DEF ServeLock, HandleLock
<1>6. CASE ServeUnlock(c)
  <2> DEFINE refs == {<<c, inbox[c].key>>}
  <2>1. Release(refs) /\ \A k \in LockKeys : <<owner[k], k>> \in refs => owner[k] = c
    BY <1>6 DEF ServeUnlock, HandleUnlock
  <2> HIDE DEF refs
  <2> QED BY <1>1, <1>3, <1>4, <2>1, HandsOver DEF Serial!Next
<1> QED BY <1>5, <1>6

\* The handlers of data.
LEMMA DataRefines ==
    ASSUME Locking, Holding, Locking', Holding', Reading, NoneAssumption, KeyStoreAssumption,
           NEW c \in Clients, ServeFetch(c) \/ ServeSet(c) \/ ServeClear(c) \/ ServeCommit(c)
    PROVE  [Serial!Next]_abstractVars
<1> USE TypeParts DEF Locking
<1>1. inbox[c] \in Requests
  BY DEF ClientTypeOK
<1>2. /\ inbox[c].op = "fetch" => pc[c] \in {"fetching", "calling"}
      /\ inbox[c].op = "set" => pc[c] = "calling"
      /\ inbox[c].op = "commit" => pc[c] = "committing" /\ owner[txKey[c]] = c
      /\ inbox[c].op \in {"set", "commit"} => inbox[c].data \in DataSets
      /\ inbox[c].op = "commit" => inbox[c].clear \in BOOLEAN
      /\ inbox[c].op = "fetch" => inbox[c].ids \in SUBSET Ids
      /\ inbox[c].op # "none" => inbox[c] # NoRequest
      /\ inbox[c].op = "clear" => pc[c] = "calling"
  BY <1>1 DEF Holding, AsksInTurn, Requests, NoRequest
<1>3. Pending
  BY PendingOf
<1>4. CASE ServeFetch(c)
  <2> DEFINE op == NewFetch(c, inbox[c].ids)
  <2>1. Serve(c, "fetch", op) /\ inbox[c].op = "fetch"
    BY <1>4 DEF ServeFetch, Serve, Received
  <2>2. op \in Operations /\ op.from = c /\ op.kind = "fetch"
    BY <1>2, <2>1 DEF NewFetch, Operations, Fetches
  <2>3. Submitted[c] = Serial!Nothing
    <3>1. \A o \in Held : o.from # c
      BY <1>2, <2>1, OneHeld DEF Taken
    <3> QED BY <2>1, <3>1, NothingOf
  <2> HIDE DEF op
  <2>4. Placed(op)
    BY <1>2, <2>1, <2>2 DEF Placed
  <2> QED BY <1>2, <2>1, <2>2, <2>3, <2>4, ServeRefines
<1>5. ASSUME NEW name, NEW data \in DataSets, NEW clear \in BOOLEAN, NEW txOwner \in {c, None},
             Serve(c, name, NewCommit(c, data, clear, txOwner)), inbox[c] # NoRequest,
             txOwner = None => pc[c] = "calling",
             txOwner # None => pc[c] = "committing" /\ owner[txKey[c]] = c,
             Submitted[c] = Submission(data, clear)
      PROVE  [Serial!Next]_abstractVars
  <2> DEFINE op == NewCommit(c, data, clear, txOwner)
  <2>1. /\ op \in Operations /\ op.from = c /\ op.kind = "commit"
        /\ op.owner = txOwner /\ op.down = {} /\ op.data = data /\ op.clear = clear
    BY <1>5 DEF NewCommit, Operations, Commits, KeyStoreAssumption
  <2>2. Serve(c, name, op)
    BY <1>5
  <2> HIDE DEF op
  <2>3. Placed(op)
    BY <1>5, <2>1 DEF Placed
  <2> QED BY <1>5, <2>1, <2>2, <2>3, ServeRefines
<1>6. CASE ServeSet(c)
  <2>1. inbox[c].op = "set" /\ Serve(c, "set", NewCommit(c, inbox[c].data, FALSE, None))
    BY <1>6 DEF ServeSet, Serve, Received
  <2>2. Submitted[c] = Submission(inbox[c].data, FALSE)
    BY <1>3, <2>1 DEF Pending
  <2> QED BY <1>2, <1>5, <2>1, <2>2
<1>7. CASE ServeCommit(c)
  <2>1. inbox[c].op = "commit" /\ Serve(c, "commit", NewCommit(c, inbox[c].data, inbox[c].clear, c))
    BY <1>7 DEF ServeCommit, Serve, Received
  <2>2. Submitted[c] = Submission(inbox[c].data, inbox[c].clear)
    BY <1>3, <2>1 DEF Pending
  <2> QED BY <1>2, <1>5, <2>1, <2>2, NoneAssumption
<1>8. CASE ServeClear(c)
  <2>1. inbox[c].op = "clear" /\ Serve(c, "clear", NewCommit(c, NoData, TRUE, None))
    BY <1>8 DEF ServeClear, Serve, Received
  <2>2. Submitted[c] = Submission(NoData, TRUE)
    BY <1>3, <2>1 DEF Pending
  <2> QED BY <1>2, <1>5, <2>1, <2>2, NoDataType
<1> QED BY <1>4, <1>6, <1>7, <1>8

\* mark_owner_down shows nothing; the key of a dead process with nothing
\* pending changes hands.
LEMMA DownRefines ==
    ASSUME Locking, Holding, Locking', Holding', NoneAssumption, NEW r \in downs, ServeDown(r)
    PROVE  [Serial!Next]_abstractVars
<1> USE TypeParts DEF Locking
<1> DEFINE c == r[1]
<1>1. /\ inbox[c] = NoRequest /\ inbox' = inbox /\ committed' = committed
      /\ c \in Clients /\ r[2] \in LockKeys /\ r = <<c, r[2]>>
      /\ LockTypeOK
  BY DEF ServeDown, DownArrived, LockTypeOK
<1>2. /\ active \in Operations \union {NoOperation} /\ operations \in Seq(Operations)
      /\ \A j \in 1..Len(operations) : operations[j] \in Operations
  BY ElementOfSeq DEF StoreTypeOK, ServerTypeOK
<1>3. ASSUME NEW op \in Operations, OwnedBy(op, c)
      PROVE  LET new == MarkDown(op, r) IN
             new.kind = "commit" /\ new.from = op.from /\ new.data = op.data /\ new.clear = op.clear
  <2>1. op \in Commits /\ op.kind = "commit"
    BY <1>3 DEF OwnedBy, Operations, Fetches
  <2> QED BY <2>1 DEF MarkDown, Commits
<1>4. CASE OwnedBy(active, c)
  <2>1. active' = MarkDown(active, r) /\ operations' = operations /\ owner' = owner
    BY <1>4 DEF ServeDown
  <2>2. active \in Operations /\ active # NoOperation /\ active.kind = "commit"
    BY <1>2, <1>4 DEF OwnedBy, NoOperation
  <2>3. /\ active'.kind = "commit" /\ active'.from = active.from
        /\ active'.data = active.data /\ active'.clear = active.clear
    BY <1>3, <1>4, <2>1, <2>2
  <2>4. active' # NoOperation
    BY <2>3 DEF NoOperation
  <2>5. /\ \A op : op \in Held <=> op = active \/ \E j \in 1..Len(operations) : op = operations[j]
        /\ \A op : op \in Held' <=> op = active' \/ \E j \in 1..Len(operations) : op = operations[j]
    BY <2>1, <2>2, <2>4 DEF Held
  <2>6. \A op \in Held : op.kind = "commit" => \E new \in Held' :
            new.kind = "commit" /\ new.from = op.from /\ new.data = op.data /\ new.clear = op.clear
    BY <2>3, <2>5
  <2>7. \A new \in Held' : new.kind = "commit" =>
            \E op \in Held : op.kind = "commit" /\ op.from = new.from
    BY <2>2, <2>3, <2>5
  <2>8. Submitted' = Submitted
    BY <1>1, <2>6, <2>7, SubmittedMoved
  <2> QED BY <1>1, <2>1, <2>8 DEF abstractVars
<1>5. ASSUME ~OwnedBy(active, c), NEW j \in Queued(c),
             operations' = [operations EXCEPT ![j] = MarkDown(@, r)], UNCHANGED <<active, owner>>
      PROVE  UNCHANGED abstractVars
  <2>1. /\ j \in 1..Len(operations) /\ operations[j] \in Operations
        /\ OwnedBy(operations[j], c) /\ operations[j].kind = "commit"
    BY <1>2 DEF Queued, OwnedBy
  <2>2. /\ Len(operations') = Len(operations)
        /\ operations'[j] = MarkDown(operations[j], r)
        /\ \A i \in 1..Len(operations) : i # j => operations'[i] = operations[i]
    BY <1>2, <1>5, <2>1
  <2>3. /\ operations'[j].kind = "commit" /\ operations'[j].from = operations[j].from
        /\ operations'[j].data = operations[j].data /\ operations'[j].clear = operations[j].clear
    BY <1>3, <2>1, <2>2
  <2>4. /\ \A op : op \in Held <=> \/ op = active /\ active # NoOperation
                                   \/ \E i \in 1..Len(operations) : op = operations[i]
        /\ \A op : op \in Held' <=> \/ op = active /\ active # NoOperation
                                    \/ \E i \in 1..Len(operations) : op = operations'[i]
    BY <1>5, <2>2 DEF Held
  <2>5. \A op \in Held : op.kind = "commit" => \E new \in Held' :
            new.kind = "commit" /\ new.from = op.from /\ new.data = op.data /\ new.clear = op.clear
    <3> SUFFICES ASSUME NEW op \in Held, op.kind = "commit"
                 PROVE  \E new \in Held' : /\ new.kind = "commit" /\ new.from = op.from
                                           /\ new.data = op.data /\ new.clear = op.clear
      OBVIOUS
    <3>1. CASE op = active /\ active # NoOperation
      BY <2>4, <3>1
    <3>2. ASSUME NEW i \in 1..Len(operations), op = operations[i]
          PROVE  /\ operations'[i] \in Held'
                 /\ operations'[i].kind = "commit" /\ operations'[i].from = op.from
                 /\ operations'[i].data = op.data /\ operations'[i].clear = op.clear
      BY <2>2, <2>3, <2>4, <3>2
    <3> QED BY <2>4, <3>1, <3>2
  <2>6. \A new \in Held' : new.kind = "commit" =>
            \E op \in Held : op.kind = "commit" /\ op.from = new.from
    <3> SUFFICES ASSUME NEW new \in Held', new.kind = "commit"
                 PROVE  \E op \in Held : op.kind = "commit" /\ op.from = new.from
      OBVIOUS
    <3>1. CASE new = active /\ active # NoOperation
      BY <2>4, <3>1
    <3>2. ASSUME NEW i \in 1..Len(operations), new = operations'[i]
          PROVE  operations[i] \in Held /\ operations[i].kind = "commit" /\ operations[i].from = new.from
      BY <2>1, <2>2, <2>3, <2>4, <3>2
    <3> QED BY <2>4, <3>1, <3>2
  <2>7. Submitted' = Submitted
    BY <1>1, <2>5, <2>6, SubmittedMoved
  <2> QED BY <1>1, <1>5, <2>7 DEF abstractVars
<1>6. CASE ~OwnedBy(active, c) /\ Queued(c) = {}
  <2> DEFINE refs == Known({r})
  <2>1. Release(refs) /\ UNCHANGED <<active, operations>>
    BY <1>6 DEF ServeDown
  <2>2. Submitted' = Submitted
    BY <1>1, <2>1, SubmittedFrame, SubmittedSame
  <2>3. Submitted[c] = Serial!Nothing
    <3>1. owner[r[2]] = c /\ c # None
      BY <1>1, NoneAssumption DEF Holding, TableAgrees
    <3>2. pc[c] # "calling"
      BY <1>1, <3>1 DEF Holding, TableAgrees
    <3>3. ASSUME NEW op \in Held, op.from = c, op.kind = "commit" PROVE FALSE
      <4>1. op.owner = c
        BY <3>2, <3>3, OneHeld DEF Placed
      <4>2. op = active \/ \E j \in 1..Len(operations) : op = operations[j]
        BY DEF Held
      <4> QED BY <1>6, <3>3, <4>1, <4>2 DEF OwnedBy, Queued
    <3> QED BY <1>1, <3>3, NothingOf DEF NoRequest
  <2>4. \A k \in LockKeys : <<owner[k], k>> \in refs => owner[k] = c
    BY DEF Known
  <2> HIDE DEF c, refs
  <2> QED BY <1>1, <2>1, <2>2, <2>3, <2>4, HandsOver DEF Serial!Next
<1> QED BY <1>4, <1>5, <1>6 DEF ServeDown

-----------------------------------------------------------------------------
\* The plan of a commit makes its data so: what it leaves out is deletions of
\* what does not exist (prepare_commit_data).
PlanMakes ==
    clean /\ worker.phase \in {"writing", "written"} =>
        /\ DOMAIN worker.plan \subseteq DOMAIN active.data
        /\ \A i \in DOMAIN active.data :
              IF i \in DOMAIN worker.plan THEN worker.plan[i] = active.data[i]
              ELSE active.data[i] = Missing /\ committed[i] = Missing

LEMMA PlanKept ==
    ASSUME PlanMakes, clean' => clean,
           \/ worker' \in {NoWorker, Started}
           \/ worker'.phase \notin {"writing", "written"}
           \/ /\ committed' = committed
              /\ worker.phase \in {"writing", "written"}
              /\ worker'.plan = worker.plan /\ active'.data = active.data
    PROVE  PlanMakes'
BY DEF PlanMakes, NoWorker, Started

LEMMA TaskPlans ==
    ASSUME Locking, Atomic, PlanMakes,
           Worker \/ LoadFails \/ RestoreFails \/ \E i \in Ids : WriteFails(i)
    PROVE  PlanMakes'
<1> USE TypeParts DEF Locking
<1>1. UNCHANGED <<active, committed>> /\ worker \in Workers /\ clean \in BOOLEAN
  <2>1. UNCHANGED <<active, committed>>
    BY DEF Worker, LoadFails, RestoreFails, WriteFails, Load, Snapshot, Written, Restored,
           Delete, Write, Restore, workerUnchanged, serverVars
  <2> QED BY <2>1 DEF StoreTypeOK, ServerTypeOK
<1>2. clean' => clean
  BY <1>1 DEF Worker, LoadFails, RestoreFails, WriteFails, Load, Snapshot, Written, Restored,
         Delete, Write, Restore
<1>3. CASE Snapshot
  <2> DEFINE snapshot == [i \in SnapshotIds |-> Stored(i)]
             plan     == Prepare(active.data, snapshot)
  <2>1. worker'.plan = plan /\ worker = Started /\ clean' = clean /\ active.kind = "commit"
    BY <1>3 DEF Snapshot
  <2>2. active \in Commits
    BY <2>1 DEF StoreTypeOK, ServerTypeOK, Operations, Fetches, NoOperation
  <2>3. ASSUME clean, NEW i \in DOMAIN active.data, snapshot[i] = Missing PROVE committed[i] = Missing
    <3>1. i \in Ids /\ i \in SnapshotIds
      BY <2>2 DEF Commits, DataSets, SnapshotIds
    <3>2. BackendAgrees /\ CacheIsCommitted
      BY <2>1, <2>3 DEF Atomic, TaskAgrees, Started
    <3>3. i \notin spared => Stored(i) = committed[i]
      BY <2>3, <3>1, <3>2, StoredIsCommitted
    <3>4. i \in spared => committed[i] = Missing
      BY DEF Atomic, SparedAreGone
    <3> QED BY <2>3, <3>1, <3>3, <3>4
  <2> HIDE DEF snapshot
  <2>4. /\ DOMAIN plan \subseteq DOMAIN active.data
        /\ \A i \in DOMAIN active.data :
              IF i \in DOMAIN plan THEN plan[i] = active.data[i]
              ELSE active.data[i] = Missing /\ snapshot[i] = Missing
    BY DEF Prepare
  <2> HIDE DEF plan
  <2> QED BY <1>1, <2>1, <2>3, <2>4 DEF PlanMakes
<1>4. CASE Written
  BY <1>1, <1>2, <1>4, PlanKept DEF Written
<1>5. ASSUME NEW i \in Ids, Delete(i) \/ Write(i) PROVE PlanMakes'
  <2>1. worker.phase = "writing" /\ worker'.plan = worker.plan
    BY <1>1, <1>5 DEF Delete, Write, Workers
  <2> QED BY <1>1, <1>2, <2>1, PlanKept
<1>6. CASE Load \/ LoadFails \/ Restored \/ RestoreFails \/ \E i \in Ids : WriteFails(i)
  <2>1. worker'.phase \notin {"writing", "written"}
    BY <1>6 DEF Load, LoadFails, Restored, RestoreFails, WriteFails
  <2> QED BY <1>2, <2>1, PlanKept
<1>7. ASSUME NEW i \in Ids, Restore(i) PROVE PlanMakes'
  <2>1. worker'.phase \notin {"writing", "written"}
    BY <1>1, <1>7 DEF Restore, Workers
  <2> QED BY <1>2, <2>1, PlanKept
<1> QED BY <1>3, <1>4, <1>5, <1>6, <1>7 DEF Worker

LEMMA OthersPlan ==
    ASSUME Locking, Holding, PlanMakes,
           \/ \E c \in Clients : \/ Caller(c) \/ Commit(c) \/ Unlock(c) \/ (MayClear /\ Clearing(c))
                                \/ ServeLock(c) \/ ServeUnlock(c) \/ ServeFetch(c)
                                \/ ServeSet(c) \/ ServeClear(c) \/ ServeCommit(c)
           \/ \E r \in downs : ServeDown(r)
           \/ CompleteFetch \/ CompleteCommit \/ Retry \/ RetryTimer \/ Fail \/ TaskExit
           \/ Rest \/ UNCHANGED vars
    PROVE  PlanMakes'
<1> USE TypeParts DEF Locking
<1>1. active \in Operations \union {NoOperation} /\ clean \in BOOLEAN
  BY DEF StoreTypeOK, ServerTypeOK
<1>2. CASE UNCHANGED storeVars
  BY <1>2 DEF storeVars, PlanMakes
<1>3. ASSUME NEW c \in Clients, NEW name, NEW op, Serve(c, name, op) PROVE PlanMakes'
  <2>1. UNCHANGED <<committed, clean>>
    BY <1>3 DEF Serve
  <2>2. CASE UNCHANGED <<active, worker>>
    BY <2>1, <2>2 DEF PlanMakes
  <2>3. CASE StartNext(Append(operations, op), {}, FALSE)
    BY <2>1, <2>3, StartNextWorker, PlanKept
  <2> QED BY <1>3, <2>2, <2>3 DEF Serve, EnqueueOperation
<1>4. ASSUME NEW r \in downs, ServeDown(r) PROVE PlanMakes'
  <2>1. UNCHANGED <<worker, committed, clean>>
    BY <1>4 DEF ServeDown
  <2>2. CASE active' = active
    BY <2>1, <2>2 DEF PlanMakes
  <2>3. CASE OwnedBy(active, r[1]) /\ active' = MarkDown(active, r)
    <3>1. active \in Commits
      BY <1>1, <2>3 DEF OwnedBy, Operations, Fetches, NoOperation
    <3>2. active'.data = active.data
      BY <2>3, <3>1 DEF MarkDown, Commits
    <3> QED BY <2>1, <3>2 DEF PlanMakes
  <2> QED BY <1>4, <2>2, <2>3 DEF ServeDown
<1>5. CASE CompleteFetch \/ CompleteCommit \/ Retry \/ RetryTimer \/ Fail \/ TaskExit
  <2>1. clean' => clean
    BY <1>1, <1>5 DEF CompleteFetch, CompleteCommit, Retry, RetryTimer, Fail, TaskExit
  <2>2. worker' \in {NoWorker, Started}
    BY <1>5, StartNextWorker
       DEF CompleteFetch, CompleteCommit, Retry, RetryTimer, Fail, TaskExit, Finish
  <2> QED BY <2>1, <2>2, PlanKept
<1>6. ASSUME NEW c \in Clients,
             Caller(c) \/ Commit(c) \/ Unlock(c) \/ Clearing(c) \/ ServeLock(c) \/ ServeUnlock(c)
      PROVE  UNCHANGED storeVars
  BY <1>6 DEF Caller, Commit, Unlock, Clearing, Get, GetInside, SetInside, ServeLock, ServeUnlock
<1>7. Rest \/ UNCHANGED vars => UNCHANGED storeVars
  BY DEF Rest, vars, storeVars
<1> QED BY <1>2, <1>3, <1>4, <1>5, <1>6, <1>7 DEF ServeFetch, ServeSet, ServeClear, ServeCommit

LEMMA PlansMake == Spec => []PlanMakes
<1>1. Init => PlanMakes
  BY DEF Init, PlanMakes, NoWorker
<1>2. Locking /\ Holding /\ Atomic /\ PlanMakes /\ [Next]_vars => PlanMakes'
  BY TaskPlans, OthersPlan DEF Next, Callers, Server, Faults
<1> QED BY <1>1, <1>2, HoldingAlways, AtomicAlways, PTL DEF Spec

-----------------------------------------------------------------------------
\* The ends of operations: a commit that is persisted is applied whole, what
\* fails is dropped, what is retried shows nothing.
LEMMA ResultsRefine ==
    ASSUME Locking, Holding, Locking', Holding', Atomic, Reading, PlanMakes, NoneAssumption, clean',
           CompleteFetch \/ CompleteCommit \/ Retry \/ RetryTimer \/ Fail \/ TaskExit
    PROVE  [Serial!Next]_abstractVars
<1> USE TypeParts DEF Locking
<1>1. active \in Operations \union {NoOperation} /\ committed \in [Ids -> Entries]
  BY DEF StoreTypeOK, ServerTypeOK
<1>2. ASSUME NEW failed, Finish(failed), worker.phase # "idle", UNCHANGED inbox,
             committed' = committed \/ committed' = Serial!Applied(Submitted[active.from])
      PROVE  Serial!Next
  <2>1. active # NoOperation
    BY <1>2 DEF Holding, WorkerBusy
  <2> DEFINE c == active.from
  <2>2. /\ c \in Clients /\ Submitted' = [Submitted EXCEPT ![c] = Serial!Nothing]
        /\ Serial!HandOver
    BY <1>2, <2>1, FinishShows
  <2>3. Serial!Settle(c)
    BY <1>2, <2>2 DEF Serial!Settle
  <2> QED BY <2>2, <2>3 DEF Serial!Next
<1>3. CASE CompleteFetch
  BY <1>2, <1>3 DEF CompleteFetch, completeUnchanged
<1>4. CASE CompleteCommit
  <2> DEFINE plan == worker.plan
  <2>1. /\ worker.phase = "written" /\ Finish(FALSE) /\ UNCHANGED inbox /\ clean
        /\ committed' = Overlay(IF active.clear THEN Cleared ELSE committed, plan)
    BY <1>4 DEF CompleteCommit, completeUnchanged
  <2>2. active.kind = "commit" /\ active # NoOperation
    BY <2>1 DEF Atomic, CommitsWrite, NoOperation
  <2>3. active \in Commits /\ active.clear \in BOOLEAN
    BY <1>1, <2>2 DEF Operations, Fetches, Commits
  <2> DEFINE kept == [i \in Ids |-> IF active.clear THEN Missing ELSE committed[i]]
  <2>4. committed' = [i \in Ids |-> IF i \in DOMAIN plan THEN plan[i] ELSE kept[i]]
    <3>1. (IF active.clear THEN Cleared ELSE committed) = kept
      BY <1>1 DEF Cleared
    <3> HIDE DEF plan
    <3> QED BY <2>1, <3>1 DEF Overlay
  <2>5. Submitted[active.from] = Submission(active.data, active.clear)
    <3>1. active \in Held
      BY <2>2 DEF Held
    <3> QED BY <2>2, <2>3, <3>1, PendingOf DEF Pending
  <2>6. Serial!Applied(Submitted[active.from]) =
            [i \in Ids |-> IF i \in DOMAIN active.data THEN active.data[i]
                           ELSE IF active.clear THEN Missing ELSE committed[i]]
    BY <2>5 DEF Serial!Applied, Submission
  <2>7. \A i \in Ids : (IF i \in DOMAIN plan THEN plan[i] ELSE kept[i])
                     = (IF i \in DOMAIN active.data THEN active.data[i]
                        ELSE IF active.clear THEN Missing ELSE committed[i])
    BY <2>1 DEF PlanMakes
  <2> HIDE DEF plan, kept
  <2>8. committed' = Serial!Applied(Submitted[active.from])
    BY <2>4, <2>6, <2>7
  <2> QED BY <1>2, <2>1, <2>8
<1>5. CASE Fail
  BY <1>2, <1>5 DEF Fail, completeUnchanged
<1>6. CASE TaskExit
  BY <1>2, <1>6 DEF TaskExit, completeUnchanged
<1>7. CASE RetryTimer
  <2>1. UNCHANGED <<owner, inbox, active, operations, committed>>
    BY <1>7 DEF RetryTimer, lockVars, clientVars, serverVars
  <2>2. Submitted' = Submitted
    BY <2>1, SubmittedFrame, SubmittedSame
  <2> QED BY <2>1, <2>2 DEF abstractVars
<1>8. CASE Retry
  <2>1. /\ UNCHANGED <<owner, inbox, operations, committed>>
        /\ active' = [active EXCEPT !.attempts = @ - 1]
    BY <1>8 DEF Retry, lockVars, clientVars
  <2>2. active \in Commits
    BY <1>1, <1>8 DEF Retry, MayRetry, Operations, Fetches, NoOperation
  <2>3. /\ active'.kind = "commit" /\ active'.from = active.from /\ active.kind = "commit"
        /\ active'.data = active.data /\ active'.clear = active.clear
    BY <2>1, <2>2 DEF Commits
  <2>4. active' # NoOperation /\ active # NoOperation
    BY <2>3 DEF NoOperation
  <2>5. /\ \A op : op \in Held <=> op = active \/ \E j \in 1..Len(operations) : op = operations[j]
        /\ \A op : op \in Held' <=> op = active' \/ \E j \in 1..Len(operations) : op = operations[j]
    BY <2>1, <2>4 DEF Held
  <2>6. \A op \in Held : op.kind = "commit" => \E new \in Held' :
            new.kind = "commit" /\ new.from = op.from /\ new.data = op.data /\ new.clear = op.clear
    BY <2>3, <2>5
  <2>7. \A new \in Held' : new.kind = "commit" =>
            \E op \in Held : op.kind = "commit" /\ op.from = new.from
    BY <2>3, <2>5
  <2>8. Submitted' = Submitted
    BY <2>1, <2>6, <2>7, SubmittedMoved
  <2> QED BY <2>1, <2>8 DEF abstractVars
<1> QED BY <1>3, <1>4, <1>5, <1>6, <1>7, <1>8

\* The task's own steps, and the end of everything, show nothing.
LEMMA OthersRefine ==
    ASSUME Worker \/ LoadFails \/ RestoreFails \/ (\E i \in Ids : WriteFails(i)) \/ Rest \/ UNCHANGED vars
    PROVE  UNCHANGED abstractVars
<1>1. UNCHANGED <<owner, inbox, active, operations, committed>>
  BY DEF Worker, LoadFails, RestoreFails, WriteFails, Load, Snapshot, Written, Restored,
         Delete, Write, Restore, Rest, workerUnchanged, vars, storeVars, serverVars, lockVars, clientVars
<1>2. Submitted' = Submitted
  BY <1>1, SubmittedFrame, SubmittedSame
<1> QED BY <1>1, <1>2 DEF abstractVars

\* The persistence-backed store implements SerialStore (store.ex) while no task
\* is killed and no rollback fails, whatever is set and cleared outside
\* transactions: a commit is applied whole or dropped, under its key, and
\* nothing else shows.
THEOREM StoreImplements == Spec => ImplementsSerial
<1>1. Init => Serial!Init
  <2> SUFFICES ASSUME Init PROVE Serial!Init
    OBVIOUS
  <2>1. ASSUME NEW c \in Clients PROVE SubmittedBy(c) = {}
    <3>1. Held = {} /\ inbox[c].op \notin {"set", "commit", "clear"}
      BY DEF Init, ClientInit, Held, NoRequest
    <3> QED BY <3>1 DEF SubmittedBy
  <2>2. Submitted = [c \in Clients |-> Serial!Nothing]
    BY <2>1 DEF Submitted, Serial!Nothing, NoData
  <2> QED BY <2>2 DEF Init, LockInit, Serial!Init
<1>3. /\ Locking /\ Holding /\ Atomic /\ Reading /\ PlanMakes
      /\ Locking' /\ Holding' /\ [Next]_vars
      => [clean' => Serial!Next]_abstractVars
  <2> SUFFICES ASSUME Locking, Holding, Atomic, Reading, PlanMakes, Locking', Holding',
                      [Next]_vars, clean'
               PROVE  [Serial!Next]_abstractVars
    OBVIOUS
  <2> USE KeyStoreAssumption, NoneAssumption, TransactionsAssumption
  <2>1. CASE Callers
    BY <2>1, CallersRefine DEF Callers
  <2>2. CASE Server
    BY <2>2, LocksRefine, DataRefines, DownRefines, ResultsRefine DEF Server
  <2>3. CASE Worker \/ Faults
    BY <2>3, OthersRefine, ResultsRefine DEF Faults
  <2>4. CASE Rest \/ UNCHANGED vars
    BY <2>4, OthersRefine
  <2> QED BY <2>1, <2>2, <2>3, <2>4 DEF Next
<1>4. [clean' => Serial!Next]_abstractVars <=> [clean' => Serial!Next]_<<owner, Submitted, committed>>
  BY DEF abstractVars
<1> QED BY <1>1, <1>3, <1>4, HoldingAlways, AtomicAlways, ReadingAlways, PlansMake, PTL
       DEF Spec, ImplementsSerial

-----------------------------------------------------------------------------
\* NoLostCall.  A live process that waits has its request on the way, or stands
\* in the queue of its key, or has an operation; that there is one of these and
\* never two is in Locking and Holding.
InQueue(c) == \E j \in 1..Len(queue[txKey[c]]) : queue[txKey[c]][j] = c

HasOperation(c) ==
    \/ active # NoOperation /\ active.from = c
    \/ \E j \in 1..Len(operations) : operations[j].from = c

DataWaits == {"fetching", "committing", "calling"}

Awaits(c) ==
    /\ pc[c] = "locking" => inbox[c] # NoRequest \/ InQueue(c)
    /\ pc[c] = "unlocking" => inbox[c] # NoRequest
    /\ pc[c] \in DataWaits => inbox[c] # NoRequest \/ HasOperation(c)

Awaited == \A c \in alive : Awaits(c)

\* What a release leaves of a queue, and whom it sends on.
LEMMA QueueMoves ==
    ASSUME LockTypeOK, NoneAssumption, NEW refs, Release(refs), NEW k \in LockKeys,
           NEW c \in Clients, NEW j \in 1..Len(queue[k]), queue[k][j] = c
    PROVE  c \in PromotedBy(refs) \/ \E i \in 1..Len(queue'[k]) : queue'[k][i] = c
<1>1. queue[k] \in Seq(Clients) /\ queue[k] # << >> /\ Len(queue[k]) \in Nat
  BY DEF LockTypeOK
<1>2. CASE k \notin ReleasedKeys(refs)
  BY <1>2, ReleaseEffect
<1>3. CASE k \in ReleasedKeys(refs) /\ j = 1
  <2>1. NextOwner(k) = c /\ c # None
    BY <1>1, <1>3, NoneAssumption DEF NextOwner
  <2> QED BY <1>3, <2>1 DEF PromotedBy
<1>4. CASE k \in ReleasedKeys(refs) /\ j # 1
  <2>1. queue'[k] = Tail(queue[k])
    BY <1>1, <1>4, ReleaseEffect
  <2>2. j - 1 \in 1..Len(Tail(queue[k])) /\ Tail(queue[k])[j - 1] = queue[k][j]
    BY <1>1, <1>4
  <2> QED BY <2>1, <2>2
<1> QED BY <1>2, <1>3, <1>4

\* A handler that releases and answers: who has a request under way keeps it, or
\* is answered.
LEMMA AnsweredOrAwaits ==
    ASSUME LockTypeOK, ClientTypeOK, NoneAssumption, NEW refs, NEW ok, NEW err, NEW unlocked,
           Release(refs), Answer(ok, err, PromotedBy(refs), unlocked),
           txKey' = txKey, alive' = alive, NEW c \in alive, Awaits(c),
           \/ inbox'[c] = inbox[c]
           \/ pc[c] = "unlocking" /\ c \in unlocked
           \/ pc[c] \in DataWaits /\ (c \in ok \union err \/ HasOperation(c)'),
           HasOperation(c) => c \in ok \union err \/ HasOperation(c)'
    PROVE  Awaits(c)'
<1>1. c \in Clients /\ pc[c] \in PCs
  BY DEF LockTypeOK, ClientTypeOK
<1>2. CASE pc[c] = "locking"
  <2>1. pc'[c] = IF c \in PromotedBy(refs) THEN "body" ELSE "locking"
    BY <1>1, <1>2 DEF Answer, OnOk
  <2>2. inbox'[c] = inbox[c]
    BY <1>2 DEF DataWaits
  <2>3. c \notin PromotedBy(refs) /\ InQueue(c) => InQueue(c)'
    <3>1. txKey[c] \in LockKeys
      BY <1>1, <1>2 DEF ClientTypeOK
    <3> QED BY <1>1, <3>1, QueueMoves DEF InQueue
  <2> QED BY <1>2, <2>1, <2>2, <2>3 DEF Awaits, DataWaits
<1>3. CASE pc[c] = "unlocking"
  <2>1. pc'[c] = IF c \in unlocked THEN "idle" ELSE "unlocking"
    BY <1>1, <1>3 DEF Answer, OnOk
  <2> QED BY <1>3, <2>1 DEF Awaits, DataWaits
<1>4. CASE pc[c] \in DataWaits
  <2>1. c \in ok \union err => pc'[c] \in {"body", "ending", "idle"}
    BY <1>1, <1>4 DEF Answer, OnOk, OnError, DataWaits
  <2>2. c \notin ok \union err => pc'[c] = pc[c]
    BY <1>1, <1>4, AnswerMoves DEF DataWaits
  <2> QED BY <1>4, <2>1, <2>2 DEF Awaits, DataWaits
<1>5. CASE pc[c] \in {"idle", "body", "ending"}
  <2>1. pc'[c] = pc[c]
    BY <1>1, <1>5 DEF Answer, OnOk
  <2> QED BY <1>5, <2>1 DEF Awaits, DataWaits
<1> QED BY <1>1, <1>2, <1>3, <1>4, <1>5 DEF PCs, Waiting, DataWaits

\* The operations of a queue, when it moves up: each is answered or stays.
LEMMA MovesUp ==
    ASSUME NEW q \in Seq(Operations), NEW ended \in SUBSET Operations, NEW failed,
           StartNext(q, ended, failed), NEW j \in 1..Len(q), j \notin Skipped(q)
    PROVE  HasOperation(q[j].from)'
<1>1. Len(q) \in Nat /\ q[j] \in Operations
  BY ElementOfSeq
<1>2. Starting(q) # {}
  BY SkippedPrefix
<1>3. PICK next \in Starting(q) : active' = q[next] /\ operations' = SubSeq(q, next + 1, Len(q))
  BY <1>2 DEF StartNext
<1>4. next \in 1..Len(q) /\ Skipped(q) = 1..(next - 1)
  BY SkippedPrefix
<1>5. CASE j = next
  <2>1. q[j] # NoOperation
    BY <1>1 DEF Operations, Fetches, Commits, NoOperation
  <2> QED BY <1>3, <1>5, <2>1 DEF HasOperation
<1>6. CASE j # next
  <2>1. j - next \in 1..(Len(q) - next) /\ next + (j - next) = j
    BY <1>1, <1>4, <1>6
  <2>2. Len(operations') = Len(q) - next /\ operations'[j - next] = q[next + (j - next)]
    BY <1>3, <1>4, <2>1, SuffixAt
  <2> QED BY <2>1, <2>2 DEF HasOperation
<1> QED BY <1>5, <1>6

LEMMA StartNextAwaits ==
    ASSUME Locking, NoneAssumption,
           NEW q \in Seq(Operations), NEW ended \in SUBSET Operations, NEW failed,
           StartNext(q, ended, failed), txKey' = txKey, alive' = alive,
           NEW c \in alive, Awaits(c),
           \/ inbox'[c] = inbox[c]
           \/ pc[c] \in DataWaits /\ \E j \in 1..Len(q) : q[j].from = c,
           HasOperation(c) => \/ \E j \in 1..Len(q) : q[j].from = c
                              \/ \E op \in ended : op.from = c
    PROVE  Awaits(c)'
<1> USE TypeParts DEF Locking
<1> DEFINE done == {q[j] : j \in Skipped(q)}
           refs == DownOf(done \union ended)
           answered == {op.from : op \in ended}
           ok  == {op.from : op \in done} \union (IF failed THEN {} ELSE answered)
           err == IF failed THEN answered ELSE {}
           none == {}
<1>1. Release(refs) /\ Answer(ok, err, PromotedBy(refs), none)
  BY DEF StartNext
<1>2. (\E op \in ended : op.from = c) => c \in ok \union err
  OBVIOUS
<1>3. ASSUME NEW j \in 1..Len(q), q[j].from = c PROVE c \in ok \union err \/ HasOperation(c)'
  <2>1. j \in Skipped(q) => c \in ok
    BY <1>3
  <2> HIDE DEF ok, err
  <2> QED BY <2>1, <1>3, MovesUp
<1> HIDE DEF done, refs, ok, err, none, answered
<1>4. /\ inbox'[c] = inbox[c] \/ (pc[c] \in DataWaits /\ (c \in ok \union err \/ HasOperation(c)'))
      /\ HasOperation(c) => c \in ok \union err \/ HasOperation(c)'
  BY <1>2, <1>3
<1> QED BY <1>1, <1>4, AnsweredOrAwaits

\* What Awaits(c) looks at.
LEMMA AwaitsStays ==
    ASSUME NEW c, Awaits(c), pc'[c] = pc[c], txKey'[c] = txKey[c],
           \/ inbox'[c] = inbox[c]
           \/ pc[c] = "locking" /\ InQueue(c)'
           \/ pc[c] \in DataWaits /\ HasOperation(c)',
           HasOperation(c) => HasOperation(c)', InQueue(c) => InQueue(c)'
    PROVE  Awaits(c)'
BY DEF Awaits, DataWaits

LEMMA FinishAwaits ==
    ASSUME Locking, NoneAssumption, NEW failed, Finish(failed),
           active # NoOperation, UNCHANGED <<alive, txKey, inbox>>, Awaited
    PROVE  Awaited'
<1> USE TypeParts DEF Locking
<1> DEFINE ended == {active}
<1>1. operations \in Seq(Operations) /\ ended \in SUBSET Operations
  BY DEF StoreTypeOK, ServerTypeOK
<1>2. StartNext(operations, ended, failed)
  BY DEF Finish
<1>3. \A c : HasOperation(c) => \/ \E j \in 1..Len(operations) : operations[j].from = c
                                \/ \E op \in ended : op.from = c
  BY DEF HasOperation
<1> HIDE DEF ended
<1>4. ASSUME NEW c \in alive PROVE Awaits(c)'
  BY <1>1, <1>2, <1>3, StartNextAwaits DEF Awaited
<1> QED BY <1>4 DEF Awaited

\* A data request is answered, or becomes an operation.
LEMMA ServeAwaits ==
    ASSUME Locking, NoneAssumption, NEW c \in Clients, NEW new \in Operations, NEW name,
           Serve(c, name, new), pc[c] \in DataWaits, new.from = c, Awaited
    PROVE  Awaited'
<1> USE TypeParts DEF Locking
<1> DEFINE q == Append(operations, new)
<1>1. /\ alive' = alive /\ txKey' = txKey
      /\ \A d \in Clients : d # c => inbox'[d] = inbox[d]
      /\ alive \subseteq Clients
  BY DEF Serve, Consumed, ClientTypeOK, LockTypeOK
<1>2. operations \in Seq(Operations) /\ Len(operations) \in Nat
  BY DEF StoreTypeOK, ServerTypeOK
<1>3. /\ q \in Seq(Operations) /\ Len(q) = Len(operations) + 1
      /\ \A j \in 1..Len(operations) : q[j] = operations[j]
      /\ q[Len(operations) + 1] = new
  BY <1>2, AppendProperties
<1> HIDE DEF q
<1>4. /\ \E j \in 1..Len(q) : q[j].from = c
      /\ \A d : (\E j \in 1..Len(operations) : operations[j].from = d) =>
                \E j \in 1..Len(q) : q[j].from = d
  <2>1. Len(operations) + 1 \in 1..Len(q) /\ \A j \in 1..Len(operations) : j \in 1..Len(q)
    BY <1>2, <1>3
  <2> QED BY <1>3, <2>1
<1>5. ASSUME NEW d \in alive PROVE Awaits(d)'
  <2>1. Awaits(d) /\ d \in Clients
    BY <1>1 DEF Awaited
  <2>2. CASE Outstanding >= MaxQueue /\ Answer({}, {c}, {}, {}) /\ UNCHANGED <<lockVars, active, operations, worker>>
    <3> DEFINE refs == {}
               none == {}
               caller == {c}
    <3>1. Release(refs) /\ Answer(none, caller, PromotedBy(refs), none)
      BY <2>2, ReleaseNothing
    <3>2. /\ HasOperation(d) => HasOperation(d)'
          /\ inbox'[d] = inbox[d] \/ (pc[d] \in DataWaits /\ d \in none \union caller)
      BY <1>1, <2>1, <2>2 DEF HasOperation
    <3> HIDE DEF refs, none, caller
    <3> QED BY <1>1, <2>1, <3>1, <3>2, AnsweredOrAwaits
  <2>3. CASE active = NoOperation /\ StartNext(q, {}, FALSE)
    <3> DEFINE ended == {}
    <3>1. ended \in SUBSET Operations /\ StartNext(q, ended, FALSE)
      BY <2>3
    <3>2. HasOperation(d) => \E j \in 1..Len(q) : q[j].from = d
      BY <1>4, <2>3 DEF HasOperation
    <3>3. inbox'[d] = inbox[d] \/ (pc[d] \in DataWaits /\ \E j \in 1..Len(q) : q[j].from = d)
      BY <1>1, <1>4, <2>1
    <3> HIDE DEF ended
    <3> QED BY <1>1, <1>3, <2>1, <3>1, <3>2, <3>3, StartNextAwaits
  <2>4. CASE active # NoOperation /\ operations' = q /\ UNCHANGED <<lockVars, active, worker, pc>>
    <3>1. /\ HasOperation(d) => HasOperation(d)'
          /\ d = c => HasOperation(d)'
      BY <1>4, <2>4 DEF HasOperation
    <3>2. InQueue(d) => InQueue(d)'
      BY <1>1, <2>4 DEF InQueue, lockVars
    <3>3. pc'[d] = pc[d] /\ txKey'[d] = txKey[d]
      BY <1>1, <2>4
    <3> QED BY <1>1, <2>1, <3>1, <3>2, <3>3, AwaitsStays
  <2> QED BY <2>2, <2>3, <2>4 DEF Serve, EnqueueOperation, q
<1> QED BY <1>1, <1>5 DEF Awaited

LEMMA DataHandlersAwait ==
    ASSUME Locking, Holding, NoneAssumption, KeyStoreAssumption, NEW c \in Clients, Awaited,
           ServeFetch(c) \/ ServeSet(c) \/ ServeClear(c) \/ ServeCommit(c)
    PROVE  Awaited'
<1>1. inbox[c] \in Requests
  BY DEF Locking, TypeOK, ClientTypeOK
<1>2. /\ inbox[c].op \in {"fetch", "set", "clear", "commit"} => pc[c] \in DataWaits
      /\ inbox[c].op \in {"set", "commit"} => inbox[c].data \in DataSets
      /\ inbox[c].op = "commit" => inbox[c].clear \in BOOLEAN
      /\ inbox[c].op = "fetch" => inbox[c].ids \in SUBSET Ids
  BY <1>1 DEF Holding, AsksInTurn, Requests, DataWaits
<1>3. CASE ServeFetch(c)
  <2> DEFINE op == NewFetch(c, inbox[c].ids)
  <2>1. Serve(c, "fetch", op) /\ inbox[c].op = "fetch"
    BY <1>3 DEF ServeFetch, Serve, Received
  <2>2. op \in Operations /\ op.from = c
    BY <1>2, <2>1 DEF NewFetch, Operations, Fetches
  <2> HIDE DEF op
  <2> QED BY <1>2, <2>1, <2>2, ServeAwaits
<1>4. ASSUME NEW name, NEW data \in DataSets, NEW clear \in BOOLEAN, NEW txOwner \in {c, None},
             Serve(c, name, NewCommit(c, data, clear, txOwner)), pc[c] \in DataWaits
      PROVE  Awaited'
  <2> DEFINE op == NewCommit(c, data, clear, txOwner)
  <2>1. op \in Operations /\ op.from = c
    BY <1>4 DEF NewCommit, Operations, Commits, KeyStoreAssumption
  <2>2. Serve(c, name, op)
    BY <1>4
  <2> HIDE DEF op
  <2> QED BY <1>4, <2>1, <2>2, ServeAwaits
<1>5. CASE ServeSet(c)
  <2>1. inbox[c].op = "set" /\ Serve(c, "set", NewCommit(c, inbox[c].data, FALSE, None))
    BY <1>5 DEF ServeSet, Serve, Received
  <2> QED BY <1>2, <1>4, <2>1
<1>6. CASE ServeClear(c)
  <2>1. inbox[c].op = "clear" /\ Serve(c, "clear", NewCommit(c, NoData, TRUE, None))
    BY <1>6 DEF ServeClear, Serve, Received
  <2> QED BY <1>2, <1>4, <2>1, NoDataType
<1>7. CASE ServeCommit(c)
  <2>1. inbox[c].op = "commit" /\ Serve(c, "commit", NewCommit(c, inbox[c].data, inbox[c].clear, c))
    BY <1>7 DEF ServeCommit, Serve, Received
  <2> QED BY <1>2, <1>4, <2>1
<1> QED BY <1>3, <1>5, <1>6, <1>7

LEMMA ServeLockAwaits ==
    ASSUME Locking, NEW c \in Clients, ServeLock(c), Awaited
    PROVE  Awaited'
<1> USE TypeParts DEF Locking
<1> DEFINE k == inbox[c].key
<1>1. /\ inbox[c].op = "lock" /\ pc[c] = "locking" /\ k = txKey[c] /\ k \in LockKeys
      /\ txKey' = txKey /\ alive' = alive /\ UNCHANGED <<active, operations>>
  BY DEF ServeLock, HandleLock, Received, LockInv, LockRequests, ClientTypeOK, storeVars
<1>2. \A d \in Clients : d # c => inbox'[d] = inbox[d]
  BY DEF ServeLock, HandleLock, Consumed, ClientTypeOK
<1> SUFFICES ASSUME NEW d \in alive PROVE Awaits(d)'
  BY <1>1 DEF Awaited
<1>3. d \in Clients /\ Awaits(d) /\ (HasOperation(d) => HasOperation(d)')
  BY <1>1 DEF LockTypeOK, Awaited, HasOperation
<1>4. CASE Acquire(c, k) /\ Answer({}, {}, {c}, {})
  <2>1. CASE d = c
    <3>1. pc'[c] = "body"
      BY <1>1, <1>4, <2>1 DEF Answer
    <3> QED BY <2>1, <3>1 DEF Awaits, DataWaits
  <2>2. CASE d # c
    <3>1. pc'[d] = pc[d] /\ queue' = queue
      BY <1>3, <1>4, <2>2 DEF Answer, Acquire
    <3> QED BY <1>1, <1>2, <1>3, <2>2, <3>1, AwaitsStays DEF InQueue
  <2> QED BY <2>1, <2>2
<1>5. CASE Enqueue(c, k) /\ UNCHANGED pc
  <2>1. /\ queue[k] \in Seq(Clients) /\ Len(queue[k]) \in Nat
        /\ queue'[k] = Append(queue[k], c)
        /\ \A l \in LockKeys : l # k => queue'[l] = queue[l]
    BY <1>1, <1>5 DEF Enqueue, LockTypeOK
  <2>2. /\ Len(queue'[k]) = Len(queue[k]) + 1
        /\ \A j \in 1..Len(queue[k]) : queue'[k][j] = queue[k][j]
        /\ queue'[k][Len(queue[k]) + 1] = c
    BY <2>1, AppendProperties
  <2>3. d = c => InQueue(d)'
    <3>1. Len(queue[k]) + 1 \in 1..Len(queue'[k])
      BY <2>1, <2>2
    <3> QED BY <1>1, <2>2, <3>1 DEF InQueue
  <2>4. pc[d] = "locking" /\ InQueue(d) => InQueue(d)'
    <3>1. pc[d] = "locking" => txKey[d] \in LockKeys
      BY <1>3 DEF ClientTypeOK
    <3>2. \A j \in 1..Len(queue[k]) : j \in 1..Len(queue'[k])
      BY <2>1, <2>2
    <3> QED BY <1>1, <2>1, <2>2, <3>1, <3>2 DEF InQueue
  <2>5. pc'[d] = pc[d]
    BY <1>5
  <2> QED BY <1>1, <1>2, <1>3, <2>3, <2>4, <2>5 DEF Awaits, DataWaits
<1> QED BY <1>4, <1>5 DEF ServeLock, HandleLock

LEMMA ServeUnlockAwaits ==
    ASSUME Locking, NoneAssumption, NEW c \in Clients, ServeUnlock(c), Awaited
    PROVE  Awaited'
<1> USE TypeParts DEF Locking
<1> DEFINE refs == {<<c, inbox[c].key>>}
           none == {}
           caller == {c}
<1>1. /\ pc[c] = "unlocking" /\ txKey' = txKey /\ alive' = alive
      /\ UNCHANGED <<active, operations>>
      /\ \A d \in Clients : d # c => inbox'[d] = inbox[d]
  BY DEF ServeUnlock, HandleUnlock, Received, Consumed, LockInv, LockRequests, ClientTypeOK, storeVars
<1>2. Release(refs) /\ Answer(none, none, PromotedBy(refs), caller)
  BY DEF ServeUnlock, HandleUnlock
<1> SUFFICES ASSUME NEW d \in alive PROVE Awaits(d)'
  BY <1>1 DEF Awaited
<1>3. d \in Clients /\ Awaits(d) /\ (HasOperation(d) => HasOperation(d)')
  BY <1>1 DEF LockTypeOK, Awaited, HasOperation
<1>4. inbox'[d] = inbox[d] \/ (pc[d] = "unlocking" /\ d \in caller)
  BY <1>1, <1>3
<1> HIDE DEF refs, none, caller
<1> QED BY <1>1, <1>2, <1>3, <1>4, AnsweredOrAwaits

\* Marking an operation leaves it to its process.
LEMMA ServeDownAwaits ==
    ASSUME Locking, NoneAssumption, NEW r \in downs, ServeDown(r), Awaited
    PROVE  Awaited'
<1> USE TypeParts DEF Locking
<1> DEFINE c == r[1]
           refs == Known({r})
           none == {}
<1>1. UNCHANGED <<txKey, alive, inbox>>
  BY DEF ServeDown
<1>2. /\ active \in Operations \union {NoOperation} /\ operations \in Seq(Operations)
      /\ \A j \in 1..Len(operations) : operations[j] \in Operations
  BY ElementOfSeq DEF StoreTypeOK, ServerTypeOK
<1>3. ASSUME NEW op \in Operations, OwnedBy(op, c)
      PROVE  MarkDown(op, r).from = op.from /\ MarkDown(op, r) # NoOperation
  BY <1>3 DEF OwnedBy, MarkDown, Operations, Fetches, Commits, NoOperation
<1> SUFFICES ASSUME NEW d \in alive PROVE Awaits(d)'
  BY <1>1 DEF Awaited
<1>4. Awaits(d)
  BY DEF Awaited
<1>5. CASE OwnedBy(active, c)
  <2>1. active' = MarkDown(active, r) /\ UNCHANGED <<queue, operations, pc>>
    BY <1>5 DEF ServeDown
  <2>2. active \in Operations
    BY <1>2, <1>5 DEF OwnedBy, NoOperation
  <2>3. HasOperation(d) => HasOperation(d)'
    BY <1>3, <1>5, <2>1, <2>2 DEF HasOperation
  <2> QED BY <1>1, <1>4, <2>1, <2>3, AwaitsStays DEF InQueue
<1>6. CASE ~OwnedBy(active, c) /\ Queued(c) # {}
  <2>1. PICK j \in Queued(c) : operations' = [operations EXCEPT ![j] = MarkDown(@, r)]
    BY <1>6 DEF ServeDown
  <2>2. UNCHANGED <<queue, active, pc>>
    BY <1>6 DEF ServeDown
  <2>3. j \in 1..Len(operations) /\ operations[j] \in Operations /\ OwnedBy(operations[j], c)
    BY <1>2 DEF Queued
  <2>4. /\ Len(operations') = Len(operations)
        /\ \A i \in 1..Len(operations) : operations'[i].from = operations[i].from
    BY <1>2, <1>3, <2>1, <2>3
  <2>5. HasOperation(d) => HasOperation(d)'
    BY <2>2, <2>4 DEF HasOperation
  <2> QED BY <1>1, <1>4, <2>2, <2>5, AwaitsStays DEF InQueue
<1>7. CASE ~OwnedBy(active, c) /\ Queued(c) = {}
  <2>1. /\ Release(refs) /\ Answer(none, none, PromotedBy(refs), none)
        /\ UNCHANGED <<active, operations>>
    BY <1>7 DEF ServeDown
  <2>2. HasOperation(d) => HasOperation(d)'
    BY <2>1 DEF HasOperation
  <2> HIDE DEF refs, none
  <2> QED BY <1>1, <1>4, <2>1, <2>2, AnsweredOrAwaits
<1> QED BY <1>5, <1>6, <1>7

\* A process that does not wait moves: it waits only for what it has sent.
LEMMA MoveAwaits ==
    ASSUME NEW c, Awaited,
           UNCHANGED <<lockVars, alive, active, operations>>,
           \A d \in alive : d # c =>
               pc'[d] = pc[d] /\ txKey'[d] = txKey[d] /\ inbox'[d] = inbox[d],
           pc'[c] \in Waiting => inbox'[c] # NoRequest
    PROVE  Awaited'
<1> SUFFICES ASSUME NEW d \in alive PROVE Awaits(d)'
  BY DEF Awaited
<1>1. CASE d = c
  BY <1>1 DEF Awaits, Waiting, DataWaits
<1>2. CASE d # c
  <2>1. Awaits(d) /\ (InQueue(d) => InQueue(d)') /\ (HasOperation(d) => HasOperation(d)')
    BY <1>2 DEF Awaited, InQueue, HasOperation, lockVars
  <2> QED BY <1>2, <2>1, AwaitsStays
<1> QED BY <1>1, <1>2

LEMMA CallersAwait ==
    ASSUME Locking, NEW c \in Clients, Awaited,
           Caller(c) \/ Commit(c) \/ Unlock(c) \/ (MayClear /\ Clearing(c))
    PROVE  Awaited'
<1> USE TypeParts DEF Locking
<1>1. /\ pc \in [Clients -> PCs] /\ inbox \in [Clients -> Requests]
      /\ txKey \in [Clients -> LockKeys \union {None}] /\ alive \subseteq Clients
  BY DEF ClientTypeOK, LockTypeOK
<1>2. ASSUME UNCHANGED storeVars PROVE UNCHANGED <<active, operations>>
  BY <1>2 DEF storeVars
<1>3. \A request : request.op # "none" => request # NoRequest
  BY DEF NoRequest
<1>4. ASSUME NEW k \in LockKeys, Begin(c, k), UNCHANGED storeVars PROVE Awaited'
  <2>1. inbox'[c] # NoRequest
    BY <1>1, <1>3, <1>4 DEF Begin, Call
  <2> QED BY <1>1, <1>2, <1>4, <2>1, MoveAwaits DEF Begin, Call
<1>5. ASSUME NEW request, PlainCall(c, request), UNCHANGED storeVars, request.op # "none"
      PROVE  Awaited'
  <2>1. inbox'[c] # NoRequest
    BY <1>1, <1>3, <1>5 DEF PlainCall, Call
  <2> QED BY <1>1, <1>2, <1>5, <2>1, MoveAwaits DEF PlainCall, Call
<1>6. ASSUME pc[c] = "body", UNCHANGED <<lockVars, alive, txKey, inbox>>, UNCHANGED storeVars,
             pc' = pc \/ pc' = [pc EXCEPT ![c] = "ending"]
      PROVE  Awaited'
  <2>1. pc'[c] \notin Waiting
    BY <1>1, <1>6 DEF Waiting
  <2> QED BY <1>1, <1>2, <1>6, <2>1, MoveAwaits
<1>7. ASSUME NEW request, NEW here, Call(c, request, here), UNCHANGED <<lockVars, alive, txKey>>,
             UNCHANGED storeVars, request.op # "none"
      PROVE  Awaited'
  <2>1. inbox'[c] # NoRequest
    BY <1>1, <1>3, <1>7 DEF Call
  <2> QED BY <1>1, <1>2, <1>7, <2>1, MoveAwaits DEF Call
<1>8. ASSUME NEW ids, GetInside(c, ids) PROVE Awaited'
  <2>1. pc[c] = "body" /\ UNCHANGED <<lockVars, alive, txKey>> /\ UNCHANGED storeVars
    BY <1>8 DEF GetInside, At
  <2>2. CASE UNCHANGED <<pc, inbox>>
    BY <2>1, <2>2, <1>6
  <2>3. CASE Call(c, [op |-> "fetch", ids |-> MissingIds(buffer[c], ids)], "fetching")
    BY <2>1, <2>3, <1>7
  <2> QED BY <1>8, <2>2, <2>3 DEF GetInside
<1>9. ASSUME Die(c), UNCHANGED storeVars PROVE Awaited'
  <2> SUFFICES ASSUME NEW d \in alive' PROVE Awaits(d)'
    BY DEF Awaited
  <2>1. /\ alive' = alive \ {c} /\ UNCHANGED <<queue, pc, txKey, inbox, active, operations>>
    BY <1>2, <1>9 DEF Die, Exit
  <2>2. Awaits(d) /\ (InQueue(d) => InQueue(d)') /\ (HasOperation(d) => HasOperation(d)')
    BY <2>1 DEF Awaited, InQueue, HasOperation
  <2> QED BY <2>1, <2>2, AwaitsStays
<1>10. CASE Caller(c)
  <2>1. CASE \E k \in LockKeys : Begin(c, k) /\ UNCHANGED storeVars
    BY <2>1, <1>4
  <2>2. CASE \E ids \in ReadSets : Get(c, ids)
    BY <2>2, <1>5 DEF Get
  <2>3. CASE \E ids \in ReadSets : GetInside(c, ids)
    BY <2>3, <1>8
  <2>4. CASE \E i \in Ids, value \in Entries : SetInside(c, i, value)
    BY <2>4, <1>6 DEF SetInside, Put, At
  <2>5. CASE \E data \in PlainSets : PlainCall(c, [op |-> "set", data |-> data]) /\ UNCHANGED storeVars
    BY <2>5, <1>5
  <2>6. CASE Raise(c) /\ UNCHANGED storeVars
    BY <2>6, <1>6 DEF Raise, At
  <2>7. CASE Die(c) /\ UNCHANGED storeVars
    BY <2>7, <1>9
  <2> QED BY <1>10, <2>1, <2>2, <2>3, <2>4, <2>5, <2>6, <2>7 DEF Caller
<1>11. CASE Commit(c) \/ Unlock(c)
  BY <1>7, <1>11 DEF Commit, Unlock, SendCommit, End
<1>12. CASE Clearing(c)
  BY <1>5, <1>6, <1>12 DEF Clearing, ClearInside, At
<1> QED BY <1>10, <1>11, <1>12

LEMMA TaskAwaits ==
    ASSUME Locking, Holding, NoneAssumption, Awaited,
           \/ Worker \/ Faults
           \/ CompleteFetch \/ CompleteCommit \/ Retry \/ RetryTimer \/ Fail
    PROVE  Awaited'
<1> USE TypeParts DEF Locking
<1>1. active \in Operations \union {NoOperation}
  BY DEF StoreTypeOK, ServerTypeOK
<1>2. ASSUME UNCHANGED <<lockVars, alive, pc, txKey, inbox, operations>>,
             \A d : active # NoOperation /\ active.from = d =>
                        active' # NoOperation /\ active'.from = d
      PROVE  Awaited'
  <2> SUFFICES ASSUME NEW d \in alive PROVE Awaits(d)'
    BY <1>2 DEF Awaited
  <2>1. Awaits(d) /\ (InQueue(d) => InQueue(d)') /\ (HasOperation(d) => HasOperation(d)')
    BY <1>2 DEF Awaited, InQueue, HasOperation, lockVars
  <2> QED BY <1>2, <2>1, AwaitsStays
<1>3. CASE Worker \/ LoadFails \/ RestoreFails \/ (\E i \in Ids : WriteFails(i)) \/ RetryTimer
  <2>1. UNCHANGED <<lockVars, alive, clientVars, serverVars>>
    BY <1>3 DEF Worker, Load, Snapshot, Written, Restored, Delete, Write, Restore, LoadFails,
           RestoreFails, WriteFails, RetryTimer, workerUnchanged
  <2>2. UNCHANGED <<lockVars, alive, pc, txKey, inbox, operations, active>>
    BY <2>1 DEF clientVars, serverVars
  <2> QED BY <1>2, <2>2
<1>4. CASE TaskExit \/ CompleteFetch \/ CompleteCommit \/ Fail
  <2>1. worker.phase # "idle" /\ UNCHANGED <<alive, txKey, inbox>>
    BY <1>4 DEF TaskExit, CompleteFetch, CompleteCommit, Fail, completeUnchanged
  <2>2. \E failed : Finish(failed)
    BY <1>4 DEF TaskExit, CompleteFetch, CompleteCommit, Fail
  <2>3. active # NoOperation
    BY <2>1 DEF Holding, WorkerBusy
  <2> QED BY <2>1, <2>2, <2>3, FinishAwaits
<1>5. CASE Retry
  <2>1. /\ active.kind = "commit" /\ active' = [active EXCEPT !.attempts = @ - 1]
        /\ UNCHANGED <<lockVars, alive, pc, txKey, inbox, operations>>
    BY <1>5 DEF Retry, MayRetry, completeUnchanged, clientVars
  <2>2. active \in Commits
    BY <1>1, <2>1 DEF Operations, Fetches, NoOperation
  <2>3. active'.from = active.from /\ active'.kind = "commit"
    BY <2>1, <2>2 DEF Commits
  <2> QED BY <1>2, <2>1, <2>3 DEF NoOperation
<1> QED BY <1>3, <1>4, <1>5 DEF Faults

LEMMA NextAwaits ==
    ASSUME Locking, Holding, Awaited, [Next]_vars, NoneAssumption, KeyStoreAssumption
    PROVE  Awaited'
<1>1. CASE Callers
  BY <1>1, CallersAwait DEF Callers
<1>2. CASE Server
  BY <1>2, ServeLockAwaits, ServeUnlockAwaits, DataHandlersAwait, ServeDownAwaits, TaskAwaits DEF Server
<1>3. CASE Worker \/ Faults
  BY <1>3, TaskAwaits
<1>4. CASE Rest \/ UNCHANGED vars
  <2>1. UNCHANGED <<alive, pc, txKey, inbox, queue, active, operations>>
    BY <1>4 DEF Rest, vars, lockVars, clientVars, storeVars
  <2> QED BY <2>1 DEF Awaited, Awaits, InQueue, HasOperation
<1> QED BY <1>1, <1>2, <1>3, <1>4 DEF Next

\* In every reachable state, whoever waits has a request under way.
LEMMA AwaitedAlways == Spec => [](Locking /\ Holding /\ Awaited)
<1>1. Init => Awaited
  <2> SUFFICES ASSUME Init, NEW c \in alive PROVE Awaits(c)
    BY DEF Awaited
  <2> QED BY DEF Init, LockInit, ClientInit, Awaits, DataWaits
<1>2. Locking /\ Holding /\ Awaited /\ [Next]_vars => Awaited'
  BY NextAwaits, NoneAssumption, KeyStoreAssumption
<1> QED BY <1>1, <1>2, HoldingAlways, PTL DEF Spec

\* What counts as one request.
Positions(c) ==
    UNION {{<<k, j>> : j \in {i \in 1..Len(queue[k]) : queue[k][i] = c}} : k \in LockKeys}

OperationsOf(c) == {j \in 1..Len(operations) : operations[j].from = c}

LEMMA CountsOne ==
    ASSUME NEW x, NEW S, S = {} \/ S = {x}
    PROVE  Cardinality(S) = IF S = {} THEN 0 ELSE 1
BY FS_EmptySet, FS_Singleton

LEMMA OneUnderWay ==
    ASSUME Locking, Holding, NEW c \in Clients, Awaits(c)
    PROVE  RequestsUnderWay(c) = IF pc[c] \in Waiting THEN 1 ELSE 0
<1> USE TypeParts DEF Locking
<1>1. inbox[c] \in Requests /\ pc[c] \in PCs /\ active \in Operations \union {NoOperation}
      /\ \A j \in 1..Len(operations) : operations[j] \in Operations
  BY ElementOfSeq DEF ClientTypeOK, StoreTypeOK, ServerTypeOK
\* each kind of request is of a process that waits for that kind
<1>2. inbox[c] # NoRequest =>
        /\ pc[c] \in Waiting
        /\ inbox[c].op = "lock" => pc[c] = "locking"
        /\ inbox[c].op = "unlock" => pc[c] = "unlocking"
        /\ inbox[c].op \notin {"lock", "unlock"} => pc[c] \in DataWaits
  BY <1>1 DEF Requests, NoRequest, LockInv, LockRequests, Holding, AsksInTurn, Waiting, DataWaits
<1>3. ASSUME NEW x \in Positions(c)
      PROVE  /\ pc[c] = "locking" /\ inbox[c] = NoRequest
             /\ \A y \in Positions(c) : y = x
  <2>1. PICK k \in LockKeys, j \in Nat :
             j \in 1..Len(queue[k]) /\ x = <<k, j>> /\ queue[k][j] = c
    BY <1>3 DEF Positions
  <2>2. pc[c] = "locking" /\ inbox[c] = NoRequest /\ txKey[c] = k
    BY <2>1 DEF LockInv, WaitersWait
  <2>3. ASSUME NEW y \in Positions(c) PROVE y = x
    <3>1. PICK l \in LockKeys, i \in Nat :
             i \in 1..Len(queue[l]) /\ y = <<l, i>> /\ queue[l][i] = c
      BY <2>3 DEF Positions
    <3>2. l = k
      BY <2>2, <3>1 DEF LockInv, WaitersWait
    <3>3. i = j
      BY <2>1, <3>1, <3>2 DEF LockInv, WaitersWait
    <3> QED BY <2>1, <3>1, <3>2, <3>3
  <2> QED BY <2>2, <2>3
<1>4. Positions(c) = {} <=> ~InQueue(c) \/ pc[c] # "locking"
  <2>1. ASSUME pc[c] = "locking", InQueue(c) PROVE Positions(c) # {}
    <3>1. txKey[c] \in LockKeys
      BY <2>1 DEF ClientTypeOK
    <3>2. PICK j \in 1..Len(queue[txKey[c]]) : queue[txKey[c]][j] = c
      BY <2>1 DEF InQueue
    <3> DEFINE here(k) == {<<k, i>> : i \in {h \in 1..Len(queue[k]) : queue[k][h] = c}}
    <3>3. <<txKey[c], j>> \in here(txKey[c])
      BY <3>2
    <3>4. Positions(c) = UNION {here(k) : k \in LockKeys}
      BY DEF Positions
    <3> HIDE DEF here
    <3> QED BY <3>1, <3>3, <3>4
  <2>2. ASSUME NEW x \in Positions(c) PROVE pc[c] = "locking" /\ InQueue(c)
    <3>1. PICK k \in LockKeys, j \in Nat :
             j \in 1..Len(queue[k]) /\ x = <<k, j>> /\ queue[k][j] = c
      BY <2>2 DEF Positions
    <3>2. pc[c] = "locking" /\ txKey[c] = k
      BY <3>1 DEF LockInv, WaitersWait
    <3> QED BY <3>1, <3>2 DEF InQueue
  <2> QED BY <2>1, <2>2
<1>5. ASSUME NEW op \in Operations, Placed(op), Taken(op), op.from = c
      PROVE  pc[c] \in DataWaits /\ inbox[c] = NoRequest
  BY <1>5 DEF Placed, Taken, Operations, Fetches, Commits, DataWaits
<1>6. /\ \A j \in OperationsOf(c) : pc[c] \in DataWaits /\ inbox[c] = NoRequest
      /\ \A i, j \in OperationsOf(c) : i = j
      /\ active # NoOperation /\ active.from = c =>
            pc[c] \in DataWaits /\ inbox[c] = NoRequest /\ OperationsOf(c) = {}
  BY <1>1, <1>5 DEF OperationsOf, Holding, AllPlaced, OneEach
<1>7. HasOperation(c) <=> (active # NoOperation /\ active.from = c) \/ OperationsOf(c) # {}
  BY DEF HasOperation, OperationsOf
<1>8. /\ Cardinality(Positions(c)) = IF Positions(c) = {} THEN 0 ELSE 1
      /\ Cardinality(OperationsOf(c)) = IF OperationsOf(c) = {} THEN 0 ELSE 1
  <2>1. ASSUME NEW S, \A x, y \in S : x = y PROVE Cardinality(S) = IF S = {} THEN 0 ELSE 1
    <3>1. CASE S = {}
      BY <3>1, FS_EmptySet
    <3>2. ASSUME NEW x \in S PROVE S = {x}
      BY <2>1, <3>2
    <3> QED BY <3>1, <3>2, CountsOne
  <2> QED BY <1>3, <1>6, <2>1
<1>9. RequestsUnderWay(c) =
          (IF inbox[c] # NoRequest THEN 1 ELSE 0)
        + (IF Positions(c) = {} THEN 0 ELSE 1)
        + (IF OperationsOf(c) = {} THEN 0 ELSE 1)
        + (IF active # NoOperation /\ active.from = c THEN 1 ELSE 0)
  BY <1>8 DEF RequestsUnderWay, Positions, OperationsOf
<1>10. Waiting = DataWaits \union {"locking", "unlocking"}
       /\ "locking" \notin DataWaits /\ "unlocking" \notin DataWaits
  BY DEF Waiting, DataWaits
<1>11. CASE pc[c] \in DataWaits
  <2>1. Positions(c) = {} /\ (inbox[c] # NoRequest \/ HasOperation(c))
    BY <1>4, <1>10, <1>11 DEF Awaits
  <2> QED BY <1>6, <1>7, <1>9, <1>10, <1>11, <2>1
<1>12. CASE pc[c] = "locking"
  <2>1. OperationsOf(c) = {} /\ ~(active # NoOperation /\ active.from = c)
    BY <1>6, <1>10, <1>12
  <2>2. inbox[c] # NoRequest \/ InQueue(c)
    BY <1>12 DEF Awaits
  <2> QED BY <1>3, <1>4, <1>9, <1>10, <1>12, <2>1, <2>2
<1>13. CASE pc[c] = "unlocking"
  <2>1. Positions(c) = {} /\ OperationsOf(c) = {} /\ ~(active # NoOperation /\ active.from = c)
    BY <1>4, <1>6, <1>10, <1>13
  <2>2. inbox[c] # NoRequest
    BY <1>13 DEF Awaits
  <2> QED BY <1>9, <1>10, <1>13, <2>1, <2>2
<1>14. CASE pc[c] \notin Waiting
  <2>1. Positions(c) = {} /\ OperationsOf(c) = {} /\ ~(active # NoOperation /\ active.from = c)
    BY <1>4, <1>6, <1>10, <1>14
  <2>2. inbox[c] = NoRequest
    BY <1>2, <1>14
  <2> QED BY <1>9, <1>14, <2>1, <2>2
<1> QED BY <1>10, <1>11, <1>12, <1>13, <1>14

\* No call of a live process is lost, answered twice, or answered and kept
\* (key_store.ex, handle_call to finish_active_operation): whatever fails or
\* dies, a process that waits has one request under way, any other has none.
THEOREM NoCallIsLost == Spec => []NoLostCall
<1>1. Locking /\ Holding /\ Awaited => NoLostCall
  <2> SUFFICES ASSUME Locking, Holding, Awaited, NEW c \in alive
               PROVE  RequestsUnderWay(c) = IF pc[c] \in Waiting THEN 1 ELSE 0
    BY DEF NoLostCall
  <2>1. c \in Clients /\ Awaits(c)
    BY DEF Awaited, Locking, TypeOK, LockTypeOK
  <2> QED BY <2>1, OneUnderWay
<1> QED BY <1>1, AwaitedAlways, PTL

=============================================================================
