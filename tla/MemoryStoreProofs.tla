-------------------------- MODULE MemoryStoreProofs --------------------------
(***************************************************************************)
(* Type correctness of MemoryStore, mutual exclusion of its transactions,  *)
(* and that it implements SerialStore, for every value of the constants.   *)
(***************************************************************************)
EXTENDS MemoryStore, TransactionsProofs

StoreTypeOK ==
    /\ table \in [Ids -> Entries]
    /\ work \in [from : Clients \union {None}, writes : DataSets]
    /\ reading \in [Clients -> [ids : SUBSET Ids, got : DataSets]]

LEMMA TypeParts ==
    /\ TypeOK <=> LockTypeOK /\ ClientTypeOK /\ StoreTypeOK
    /\ TypeOK' <=> LockTypeOK' /\ ClientTypeOK' /\ StoreTypeOK'
BY DEF TypeOK, StoreTypeOK

LEMMA DataTypes ==
    /\ \A data \in DataSets : DOMAIN data \in SUBSET Ids
    /\ \A data \in DataSets : \A i \in DOMAIN data : i \in Ids /\ data[i] \in Entries
    /\ \A data \in DataSets, i \in Ids, value \in Entries : With(data, i, value) \in DataSets
    /\ \A data \in DataSets : \A i : [j \in DOMAIN data \ {i} |-> data[j]] \in DataSets
<1>1. \A data \in DataSets : /\ DOMAIN data \in SUBSET Ids
                             /\ \A i \in DOMAIN data : i \in Ids /\ data[i] \in Entries
  BY DEF DataSets
<1>2. \A S \in SUBSET Ids : \A f \in [S -> Entries] : f \in DataSets
  BY DEF DataSets
<1>3. ASSUME NEW data \in DataSets, NEW i \in Ids, NEW value \in Entries
      PROVE  With(data, i, value) \in DataSets
  <2> DEFINE S == DOMAIN data \union {i}
  <2>1. S \in SUBSET Ids
    BY <1>1
  <2>2. With(data, i, value) \in [S -> Entries]
    BY <1>1 DEF With
  <2> QED BY <1>2, <2>1, <2>2
<1>4. ASSUME NEW data \in DataSets, NEW i
      PROVE  [j \in DOMAIN data \ {i} |-> data[j]] \in DataSets
  <2> DEFINE S == DOMAIN data \ {i}
  <2>1. S \in SUBSET Ids
    BY <1>1
  <2>2. [j \in S |-> data[j]] \in [S -> Entries]
    BY <1>1
  <2> QED BY <1>2, <2>1, <2>2
<1> QED BY <1>1, <1>3, <1>4

-----------------------------------------------------------------------------
\* A read in a transaction: it begins, it looks up a row, it is over.
LEMMA ReadingType ==
    ASSUME TypeOK, MemoryStoreAssumption, NEW c \in Clients,
           Reading(c) \/ \E ids \in ReadSets : GetInside(c, ids)
    PROVE  TypeOK'
<1> USE TypeParts
<1>1. buffer[c] \in BufferType /\ reading[c] \in [ids : SUBSET Ids, got : DataSets]
  BY DEF ClientTypeOK, StoreTypeOK
<1>2. ASSUME NEW ids \in ReadSets, GetInside(c, ids) PROVE TypeOK'
  <2> DEFINE missing == MissingIds(buffer[c], ids)
  <2>1. missing \in SUBSET Ids
    BY DEF MissingIds, MemoryStoreAssumption
  <2>2. CacheFetched(buffer[c], missing, NoData) \in BufferType
    BY <1>1, NoDataType, CacheFetchedType
  <2>3. UNCHANGED <<lockVars, alive, txKey, inbox, calls, table, work>> /\ pc[c] = "body"
    BY <1>2 DEF GetInside, At
  <2>4. CASE /\ buffer' = [buffer EXCEPT ![c] = CacheFetched(@, missing, NoData)]
             /\ UNCHANGED <<pc, reading>>
    BY <2>2, <2>3, <2>4 DEF LockTypeOK, ClientTypeOK, StoreTypeOK, lockVars
  <2>5. CASE /\ pc' = [pc EXCEPT ![c] = "fetching"]
             /\ reading' = [reading EXCEPT ![c] = [ids |-> missing, got |-> NoData]]
             /\ UNCHANGED buffer
    <3>1. StoreTypeOK'
      BY <2>1, <2>3, <2>5, NoDataType DEF StoreTypeOK
    <3>2. \A d \in Clients : pc'[d] \notin {"idle", "calling"} => txKey'[d] \in LockKeys
      BY <2>3, <2>5 DEF ClientTypeOK
    <3> QED BY <2>3, <2>5, <3>1, <3>2 DEF LockTypeOK, ClientTypeOK, lockVars, PCs, Waiting
  <2> QED BY <1>2, <2>4, <2>5 DEF GetInside
<1>3. ASSUME NEW i \in Ids, ReadRow(c, i) PROVE TypeOK'
  <2>1. table[i] \in Entries
    BY DEF StoreTypeOK
  <2>2. With(reading[c].got, i, table[i]) \in DataSets
    BY <1>1, <2>1, DataTypes
  <2>3. [ids |-> reading[c].ids \ {i}, got |-> With(reading[c].got, i, table[i])]
            \in [ids : SUBSET Ids, got : DataSets]
    BY <1>1, <2>2
  <2>4. StoreTypeOK'
    BY <1>3, <2>3 DEF ReadRow, StoreTypeOK
  <2> QED BY <1>3, <2>4 DEF ReadRow, LockTypeOK, ClientTypeOK, lockVars, clientVars
<1>4. CASE HaveRead(c)
  <2> DEFINE got == reading[c].got
  <2>1. CacheFetched(buffer[c], DOMAIN got, got) \in BufferType
    BY <1>1, CacheFetchedType
  <2>2. NoReading \in [ids : SUBSET Ids, got : DataSets]
    BY NoDataType DEF NoReading
  <2>3. StoreTypeOK'
    BY <1>4, <2>2 DEF HaveRead, StoreTypeOK
  <2>4. \A d \in Clients : pc'[d] \notin {"idle", "calling"} => txKey'[d] \in LockKeys
    BY <1>4 DEF HaveRead, At, ClientTypeOK
  <2> QED BY <1>4, <2>1, <2>3, <2>4 DEF HaveRead, LockTypeOK, ClientTypeOK, lockVars, PCs
<1> QED BY <1>2, <1>3, <1>4 DEF Reading

LEMMA CallersType ==
    ASSUME TypeOK, TransactionsAssumption, MemoryStoreAssumption, Callers
    PROVE  TypeOK'
<1> USE TypeParts
<1>1. PICK c \in Clients : \/ Caller(c) \/ Reading(c) \/ Commit(c) \/ Unlock(c)
                           \/ Clearing(c)
  BY DEF Callers
<1>2. ASSUME UNCHANGED storeVars PROVE StoreTypeOK'
  BY <1>2 DEF storeVars, StoreTypeOK
<1>3. \A data \in PlainSets : [op |-> "set", data |-> data] \in Requests
  BY DEF Requests, MemoryStoreAssumption
<1>4. [op |-> "clear"] \in Requests
  BY DEF Requests
<1>5. CASE Die(c) /\ reading' = [reading EXCEPT ![c] = NoReading] /\ UNCHANGED <<table, work>>
  <2>1. NoReading \in [ids : SUBSET Ids, got : DataSets]
    BY NoDataType DEF NoReading
  <2>2. StoreTypeOK'
    BY <1>5, <2>1 DEF StoreTypeOK
  <2> QED BY <1>5, <2>2, CallerType
<1>6. ASSUME NEW data \in PlainSets, PlainCall(c, [op |-> "set", data |-> data]),
             UNCHANGED storeVars
      PROVE  TypeOK'
  BY <1>2, <1>3, <1>6, CallerType
<1>7. ASSUME PlainCall(c, [op |-> "clear"]), UNCHANGED storeVars PROVE TypeOK'
  BY <1>2, <1>4, <1>7, CallerType
<1>8. CASE Commit(c) \/ Unlock(c)
  BY <1>2, <1>8, CallerType DEF Commit, Unlock
<1>9. CASE Clearing(c)
  BY <1>2, <1>7, <1>9, CallerType DEF Clearing
<1>10. CASE Caller(c)
  BY <1>2, <1>5, <1>6, <1>10, ReadingType, CallerType DEF Caller
<1> QED BY <1>1, <1>8, <1>9, <1>10, ReadingType

LEMMA ServerType ==
    ASSUME TypeOK, Server
    PROVE  TypeOK'
<1> USE TypeParts
<1>1. ASSUME NEW c \in Clients, ServeLock(c) \/ ServeUnlock(c) PROVE TypeOK'
  BY <1>1, HandlersType DEF ServeLock, ServeUnlock, storeVars, StoreTypeOK
<1>2. \A c \in Clients : inbox[c] \in Requests
  BY DEF ClientTypeOK
<1>3. ASSUME NEW c \in Clients, NEW op, NEW data \in DataSets, NEW clear, Serve(c, op, data, clear)
      PROVE  TypeOK'
  <2>1. Missing \in Entries
    BY DEF Entries
  <2>2. StoreTypeOK'
    BY <1>3, <2>1 DEF Serve, StoreTypeOK
  <2>3. inbox' \in [Clients -> Requests]
    BY <1>3, ConsumedType DEF Serve
  <2> QED BY <1>3, <2>2, <2>3 DEF Serve, LockTypeOK, ClientTypeOK, lockVars
<1>4. ASSUME NEW c \in Clients, ServeSet(c) \/ ServeClear(c) \/ ServeCommit(c) PROVE TypeOK'
  <2>1. inbox[c].op \in {"set", "commit"} => inbox[c].data \in DataSets
    BY <1>2 DEF Requests
  <2> QED BY <1>3, <1>4, <2>1, NoDataType DEF ServeSet, ServeClear, ServeCommit, Serve, Received
<1>5. pc \in [Clients -> PCs] /\ buffer \in [Clients -> BufferType] /\ inbox \in [Clients -> Requests]
  BY DEF ClientTypeOK
<1>6. CASE Reply
  <2>1. StoreTypeOK'
    BY <1>6, NoDataType DEF Reply, StoreTypeOK, NoWork
  <2> QED BY <1>5, <1>6, <2>1, AnswerType, AnsweredType DEF Reply, LockTypeOK, lockVars
<1>7. ASSUME NEW i \in Ids, WriteRow(i) PROVE TypeOK'
  <2>1. work.writes \in DataSets
    BY DEF StoreTypeOK
  <2>2. work.writes[i] \in Entries /\ [j \in DOMAIN work.writes \ {i} |-> work.writes[j]] \in DataSets
    BY <1>7, <2>1, DataTypes DEF WriteRow
  <2>3. StoreTypeOK'
    BY <1>7, <2>2 DEF WriteRow, StoreTypeOK
  <2> QED BY <1>7, <2>3 DEF WriteRow, LockTypeOK, ClientTypeOK, lockVars, clientVars
<1>8. ASSUME NEW r \in downs, ServeDown(r) PROVE TypeOK'
  <2>1. StoreTypeOK'
    BY <1>8 DEF ServeDown, storeVars, StoreTypeOK
  <2>2. LockTypeOK'
    BY <1>8, ReleaseType DEF ServeDown, LockTypeOK
  <2> QED BY <1>5, <1>8, <2>1, <2>2, AnswerType, AnsweredType DEF ServeDown
<1> QED BY <1>1, <1>4, <1>6, <1>7, <1>8 DEF Server, Serving

LEMMA InitType == ASSUME Init, TransactionsAssumption PROVE TypeOK
<1>1. LockTypeOK /\ ClientTypeOK
  BY InitialType DEF Init
<1>2. StoreTypeOK
  BY NoDataType DEF Init, StoreTypeOK, NoWork, NoReading, Entries
<1> QED BY <1>1, <1>2, TypeParts

LEMMA NextType ==
    ASSUME TypeOK, [Next]_vars, TransactionsAssumption, MemoryStoreAssumption
    PROVE  TypeOK'
<1>1. CASE Rest \/ UNCHANGED vars
  BY <1>1, TypeParts DEF Rest, vars, lockVars, clientVars, storeVars, LockTypeOK, ClientTypeOK,
       StoreTypeOK
<1> QED BY <1>1, CallersType, ServerType DEF Next

\* Every variable keeps its type (memory.ex, lock_manager.ex,
\* transaction_buffer.ex), whatever the processes, keys, ids and bounds.
THEOREM TypeCorrect == Spec => []TypeOK
<1>1. Init => TypeOK
  BY InitType, TransactionsAssumption
<1>2. TypeOK /\ [Next]_vars => TypeOK'
  BY NextType, TransactionsAssumption, MemoryStoreAssumption
<1> QED BY <1>1, <1>2, PTL DEF Spec

-----------------------------------------------------------------------------
\* The inductive invariant behind mutual exclusion.
Locking == TypeOK /\ LockInv

\* A caller's read moves it between "body" and "fetching", both inside.
LEMMA ReadingLocks ==
    ASSUME Locking, NEW c \in Clients,
           Reading(c) \/ \E ids \in ReadSets : GetInside(c, ids)
    PROVE  LockInv'
<1> USE TypeParts DEF Locking
<1>1. /\ UNCHANGED lockVars /\ alive' = alive /\ txKey' = txKey /\ inbox' = inbox
      /\ pc[c] \in {"body", "fetching"} /\ pc'[c] \in {"body", "fetching"}
      /\ \A d \in Clients \ {c} : pc'[d] = pc[d]
  BY DEF Reading, HaveRead, ReadRow, GetInside, At, clientVars, ClientTypeOK
<1>2. inbox[c].op \notin {"lock", "unlock"}
  BY <1>1 DEF LockInv, LockRequests
<1>3. OwnerHolds'
  BY <1>1 DEF LockInv, OwnerHolds, In, Inside, lockVars
<1>4. WaitersWait'
  <2>1. \A k \in LockKeys : \A j \in 1..Len(queue[k]) : queue[k][j] \in Clients
    BY ElementOfSeq DEF LockTypeOK
  <2> QED BY <1>1, <2>1 DEF LockInv, WaitersWait, lockVars
<1>5. LockRequests'
  BY <1>1, <1>2 DEF LockInv, LockRequests
<1> QED BY <1>1, <1>3, <1>4, <1>5 DEF LockInv, DownsAreDead, lockVars

LEMMA CallersLocks ==
    ASSUME Locking, TransactionsAssumption, MemoryStoreAssumption, Callers
    PROVE  LockInv'
<1> USE TypeParts DEF Locking
<1>1. PICK c \in Clients : \/ Caller(c) \/ Reading(c) \/ Commit(c) \/ Unlock(c)
                           \/ Clearing(c)
  BY DEF Callers
<1>2. ASSUME NEW data \in PlainSets, PlainCall(c, [op |-> "set", data |-> data]) PROVE LockInv'
  <2> DEFINE request == [op |-> "set", data |-> data]
  <2>1. request \in Requests /\ request.op \notin {"lock", "unlock"}
    BY DEF Requests, MemoryStoreAssumption
  <2>2. PlainCall(c, request)
    BY <1>2
  <2> HIDE DEF request
  <2> QED BY <2>1, <2>2, CallerKeepsLockInv
<1>3. ASSUME PlainCall(c, [op |-> "clear"]) PROVE LockInv'
  <2> DEFINE request == [op |-> "clear"]
  <2>1. request \in Requests /\ request.op \notin {"lock", "unlock"}
    BY DEF Requests
  <2>2. PlainCall(c, request)
    BY <1>3
  <2> HIDE DEF request
  <2> QED BY <2>1, <2>2, CallerKeepsLockInv
<1>4. CASE Commit(c) \/ Unlock(c) \/ Clearing(c)
  BY <1>3, <1>4, CallerKeepsLockInv DEF Commit, Unlock, Clearing
<1>5. CASE Caller(c)
  BY <1>2, <1>5, CallerKeepsLockInv, DieKeepsLockInv, ReadingLocks DEF Caller
<1> QED BY <1>1, <1>4, <1>5, ReadingLocks

\* Steps of the server that leave the locks alone: at most an answer to a data
\* call, at most a data request taken on.
LEMMA DataLocks ==
    ASSUME Locking, NoneAssumption, UNCHANGED <<lockVars, alive, txKey>>,
           NEW ok, Answer(ok, {}, {}, {}), NEW S \in SUBSET Clients, Unsent(S)
    PROVE  LockInv'
<1> USE TypeParts DEF Locking
<1> DEFINE none == {}
<1>1. Release(none) /\ PromotedBy(none) = {}
  BY ReleaseNothing
<1>2. Answer(ok, none, PromotedBy(none), none)
  BY <1>1
<1>3. /\ none \subseteq S
      /\ \A k \in LockKeys : <<owner[k], k>> \in none =>
             owner[k] \notin alive \/ pc[owner[k]] = "unlocking"
  OBVIOUS
<1> HIDE DEF none
<1> QED BY <1>1, <1>2, <1>3, ReleaseKeepsLockInv

LEMMA ServerLocks ==
    ASSUME Locking, NoneAssumption, Server
    PROVE  LockInv'
<1> USE TypeParts DEF Locking
<1>1. ASSUME NEW c \in Clients, ServeLock(c) \/ ServeUnlock(c) PROVE LockInv'
  BY <1>1, HandleLockKeepsLockInv, HandleUnlockKeepsLockInv DEF ServeLock, ServeUnlock
<1>2. ASSUME pc' = pc PROVE Answer({}, {}, {}, {})
  BY <1>2, AnswerNobody DEF ClientTypeOK
<1>3. ASSUME NEW c \in Clients, NEW op, NEW data, NEW clear, Serve(c, op, data, clear)
      PROVE  LockInv'
  <2>1. Unsent({c})
    BY <1>3 DEF Serve, Consumed, Unsent, ClientTypeOK
  <2> DEFINE S == {c}
             none == {}
  <2>2. S \in SUBSET Clients /\ Unsent(S) /\ Answer(none, {}, {}, {})
    BY <1>2, <1>3, <2>1 DEF Serve
  <2> HIDE DEF S, none
  <2> QED BY <1>3, <2>2, DataLocks DEF Serve
<1>4. ASSUME NEW c \in Clients, ServeSet(c) \/ ServeClear(c) \/ ServeCommit(c) PROVE LockInv'
  BY <1>3, <1>4 DEF ServeSet, ServeClear, ServeCommit
<1>5. Unsent({}) \/ inbox' # inbox
  BY DEF Unsent
<1>6. CASE Reply
  <2> DEFINE S == {}
             ok == {work.from}
  <2>1. S \in SUBSET Clients /\ Unsent(S) /\ Answer(ok, {}, {}, {})
    BY <1>5, <1>6 DEF Reply
  <2> HIDE DEF S, ok
  <2> QED BY <1>6, <2>1, DataLocks DEF Reply
<1>7. ASSUME NEW i \in Ids, WriteRow(i) PROVE LockInv'
  BY <1>7 DEF WriteRow, clientVars, lockVars, LockInv, OwnerHolds, WaitersWait, LockRequests,
       DownsAreDead, In
<1>8. ASSUME NEW r \in downs, ServeDown(r) PROVE LockInv'
  <2> DEFINE refs == Known({r})
             none == {}
  <2>1. r[1] \notin alive
    BY DEF LockInv, DownsAreDead
  <2>2. \A k \in LockKeys : <<owner[k], k>> \in refs =>
            owner[k] \notin alive \/ pc[owner[k]] = "unlocking"
    BY <2>1 DEF Known
  <2>3. /\ Release(refs) /\ Answer(none, none, PromotedBy(refs), none)
        /\ none \in SUBSET Clients /\ Unsent(none) /\ none \subseteq none
        /\ alive' = alive /\ txKey' = txKey
    BY <1>5, <1>8 DEF ServeDown
  <2> HIDE DEF refs, none
  <2> QED BY <2>2, <2>3, ReleaseKeepsLockInv
<1> QED BY <1>1, <1>4, <1>6, <1>7, <1>8 DEF Server, Serving

LEMMA NextLocks ==
    ASSUME Locking, [Next]_vars, NoneAssumption, TransactionsAssumption, MemoryStoreAssumption
    PROVE  LockInv'
<1>1. CASE Rest \/ UNCHANGED vars
  BY <1>1 DEF Rest, vars, lockVars, clientVars, Locking, LockInv, OwnerHolds, WaitersWait,
       LockRequests, DownsAreDead, In
<1> QED BY <1>1, CallersLocks, ServerLocks DEF Next

\* The lock table, the callers and the mailbox always agree, whatever dies:
\* lock_manager.ex with the handlers of memory.ex that use it.
THEOREM LocksAgree == Spec => []Locking
<1>1. Init => Locking
  BY InitType, InitialLocks, TransactionsAssumption DEF Locking, Init
<1>2. Locking /\ [Next]_vars => Locking'
  BY NextType, NextLocks, NoneAssumption, TransactionsAssumption, MemoryStoreAssumption
     DEF Locking
<1> QED BY <1>1, <1>2, PTL DEF Spec

\* Transactions on one key exclude each other (transaction/3), for any number
\* of processes, keys and ids.
THEOREM TransactionsExclude == Spec => []MutualExclusion
<1>1. Locking => MutualExclusion
  BY DEF Locking, LockInv, OwnerHolds, MutualExclusion
<1> QED BY <1>1, LocksAgree, PTL

-----------------------------------------------------------------------------
\* What the refinement rests on besides the locks: a request for data has a
\* waiting sender, whose answer is not under way at the same time; and what a
\* transaction wants to write is under its key.
RequestsWait ==
    \A c \in Clients :
        /\ inbox[c].op \in {"set", "clear"} => pc[c] = "calling"
        /\ inbox[c].op = "commit" => pc[c] = "committing"

WorkIsAwaited ==
    \A c \in alive : work.from = c => pc[c] \in {"calling", "committing"} /\ inbox[c] = NoRequest

WritesUnderKey ==
    \A c \in Clients : pc[c] \in Inside \union {"locking"} =>
        Present(buffer[c].mutation) \subseteq Touchable(txKey[c])

Submitting == RequestsWait /\ WorkIsAwaited /\ WritesUnderKey

\* An answer moves nobody but those it is for, and takes nobody into a transaction.
LEMMA AnswerMoves ==
    ASSUME pc \in [Clients -> PCs], NEW ok, NEW granted, NEW unlocked,
           Answer(ok, {}, granted, unlocked), NEW c \in Clients
    PROVE  /\ pc'[c] \in PCs
           /\ pc[c] \in {"calling", "committing"} /\ c \notin ok => pc'[c] = pc[c]
           /\ c \notin alive => pc'[c] = pc[c]
           /\ pc'[c] \in Inside \union {"locking"} => pc[c] \in Inside \union {"locking"}
<1>1. pc[c] \in PCs
  OBVIOUS
<1>2. pc[c] = "calling" => pc'[c] \in {"calling", "idle"}
  BY DEF Answer, OnOk
<1>3. pc[c] = "unlocking" => pc'[c] \in {"unlocking", "idle"}
  BY DEF Answer, OnOk
<1>4. pc[c] = "idle" => pc'[c] = "idle"
  BY DEF Answer, OnOk
<1>5. pc'[c] \in PCs
  BY <1>1 DEF Answer, OnOk, PCs, Waiting
<1>6. pc[c] \in {"calling", "committing"} /\ c \notin ok => pc'[c] = pc[c]
  BY DEF Answer, OnOk
<1>7. c \notin alive => pc'[c] = pc[c]
  BY DEF Answer
<1> QED BY <1>1, <1>2, <1>3, <1>4, <1>5, <1>6, <1>7 DEF PCs, Waiting, Inside

\* A caller's step: c alone moves.
LEMMA CallerSubmits ==
    ASSUME Locking, Submitting, NEW c \in Clients, alive' = alive, c \in alive, work' = work,
           pc[c] \in {"idle", "body", "fetching", "ending"},
           \A d \in Clients \ {c} : /\ pc'[d] = pc[d] /\ txKey'[d] = txKey[d]
                                   /\ inbox'[d] = inbox[d] /\ buffer'[d] = buffer[d],
           inbox'[c].op \in {"set", "clear"} => pc'[c] = "calling",
           inbox'[c].op = "commit" => pc'[c] = "committing",
           pc'[c] \in Inside \union {"locking"} =>
               Present(buffer'[c].mutation) \subseteq Touchable(txKey'[c])
    PROVE  Submitting'
<1>1. RequestsWait'
  BY DEF Submitting, RequestsWait
<1>2. work.from # c
  BY DEF Submitting, WorkIsAwaited
<1>3. WorkIsAwaited'
  <2> SUFFICES ASSUME NEW d \in alive, work.from = d
               PROVE  pc'[d] \in {"calling", "committing"} /\ inbox'[d] = NoRequest
    BY DEF WorkIsAwaited
  <2>1. d \in Clients \ {c}
    BY <1>2, TypeParts DEF Locking, LockTypeOK
  <2> QED BY <2>1 DEF Submitting, WorkIsAwaited
<1>4. WritesUnderKey'
  BY DEF Submitting, WritesUnderKey
<1> QED BY <1>1, <1>3, <1>4 DEF Submitting

LEMMA CallersSubmit ==
    ASSUME Locking, Submitting, TransactionsAssumption, MemoryStoreAssumption, Callers
    PROVE  Submitting'
<1> USE TypeParts DEF Locking, ClientTypeOK
<1>1. PICK c \in Clients : \/ Caller(c) \/ Reading(c) \/ Commit(c) \/ Unlock(c)
                           \/ Clearing(c)
  BY DEF Callers
<1> DEFINE b == buffer[c]
<1>2. /\ b \in BufferType
      /\ Present(NewBuffer.mutation) = {} /\ Present(ClearBuffer.mutation) = {}
      /\ \A ids, fetched : CacheFetched(b, ids, fetched).mutation = b.mutation
      /\ \A i \in Ids : \A value : Present(PutEntry(b, i, value).mutation)
                                   \subseteq Present(b.mutation) \union {i}
  <2>1. b \in BufferType
    OBVIOUS
  <2>2. Present(NewBuffer.mutation) = {} /\ Present(ClearBuffer.mutation) = {}
    BY DEF NewBuffer, ClearBuffer, NoRows, Present
  <2>3. \A ids, fetched : CacheFetched(b, ids, fetched).mutation = b.mutation
    BY <2>1 DEF CacheFetched, BufferType
  <2>4. ASSUME NEW i \in Ids, NEW value
        PROVE  Present(PutEntry(b, i, value).mutation) \subseteq Present(b.mutation) \union {i}
    <3>1. PutEntry(b, i, value).mutation = [b.mutation EXCEPT ![i] = value]
      BY <2>1 DEF PutEntry, BufferType
    <3>2. DOMAIN b.mutation = Ids
      BY <2>1 DEF BufferType
    <3> QED BY <3>1, <3>2 DEF Present
  <2> QED BY <2>1, <2>2, <2>3, <2>4
<1>3. pc[c] \in Inside \union {"locking"} => Present(b.mutation) \subseteq Touchable(txKey[c])
  BY DEF Submitting, WritesUnderKey
<1>4. /\ inbox[c].op \in {"set", "clear"} => pc[c] = "calling"
      /\ inbox[c].op = "commit" => pc[c] = "committing"
  BY DEF Submitting, RequestsWait
<1> HIDE DEF b
<1>5. ASSUME NEW k \in LockKeys, Begin(c, k), UNCHANGED storeVars PROVE Submitting'
  <2>1. c \in alive /\ pc[c] = "idle" /\ pc'[c] = "locking" /\ buffer'[c] = NewBuffer
        /\ inbox'[c].op = "lock"
    BY <1>5 DEF Begin, At, Call
  <2> QED BY <1>2, <1>5, <2>1, CallerSubmits DEF Begin, Call, storeVars
<1>6. ASSUME NEW i \in Ids, NEW value \in Entries, Put(c, i, value), UNCHANGED storeVars
      PROVE  Submitting'
  <2>1. c \in alive /\ pc[c] = "body" /\ i \in Touchable(txKey[c])
        /\ buffer'[c] = PutEntry(b, i, value)
        /\ UNCHANGED <<pc, inbox, txKey, alive>>
    BY <1>6 DEF Put, At, b
  <2>2. Present(buffer'[c].mutation) \subseteq Touchable(txKey[c])
    BY <1>2, <1>3, <2>1 DEF Inside
  <2> QED BY <1>4, <1>6, <2>1, <2>2, CallerSubmits DEF Put, storeVars
<1>7. ASSUME ClearInside(c), UNCHANGED storeVars PROVE Submitting'
  <2>1. c \in alive /\ pc[c] = "body" /\ buffer'[c] = ClearBuffer
        /\ UNCHANGED <<pc, inbox, txKey, alive>>
    BY <1>7 DEF ClearInside, At
  <2> QED BY <1>2, <1>4, <1>7, <2>1, CallerSubmits DEF ClearInside, storeVars
<1>8. ASSUME SendCommit(c), UNCHANGED storeVars PROVE Submitting'
  <2>1. c \in alive /\ pc[c] = "body" /\ pc'[c] = "committing" /\ inbox'[c].op = "commit"
        /\ UNCHANGED <<buffer, txKey, alive>>
    BY <1>8 DEF SendCommit, At, Call
  <2>2. Present(buffer'[c].mutation) \subseteq Touchable(txKey'[c])
    BY <1>3, <2>1 DEF Inside, b
  <2> QED BY <1>8, <2>1, <2>2, CallerSubmits DEF SendCommit, Call, storeVars
<1>9. ASSUME Raise(c), UNCHANGED storeVars PROVE Submitting'
  <2>1. c \in alive /\ pc[c] = "body" /\ pc'[c] = "ending" /\ UNCHANGED <<inbox, buffer, txKey, alive>>
    BY <1>9 DEF Raise, At
  <2>2. Present(buffer'[c].mutation) \subseteq Touchable(txKey'[c])
    BY <1>3, <2>1 DEF Inside, b
  <2> QED BY <1>4, <1>9, <2>1, <2>2, CallerSubmits DEF Raise, storeVars
<1>10. ASSUME End(c), UNCHANGED storeVars PROVE Submitting'
  <2>1. c \in alive /\ pc[c] = "ending" /\ pc'[c] = "unlocking" /\ inbox'[c].op = "unlock"
        /\ UNCHANGED <<txKey, alive>>
    BY <1>10 DEF End, At, Call
  <2> QED BY <1>10, <2>1, CallerSubmits DEF End, Call, storeVars, Inside
<1>11. ASSUME NEW request \in Requests, PlainCall(c, request), UNCHANGED storeVars,
              request.op \in {"set", "clear"}
       PROVE  Submitting'
  <2>1. c \in alive /\ pc[c] = "idle" /\ pc'[c] = "calling" /\ inbox'[c] = request
        /\ UNCHANGED <<txKey, buffer, alive>>
    BY <1>11 DEF PlainCall, At, Call
  <2> QED BY <1>11, <2>1, CallerSubmits DEF PlainCall, Call, storeVars, Inside
<1>12. CASE Die(c) /\ UNCHANGED <<table, work>>
  <2>1. buffer'[c] = NewBuffer /\ alive' \subseteq alive /\ UNCHANGED <<pc, txKey, inbox>>
        /\ \A d \in Clients \ {c} : buffer'[d] = buffer[d]
    BY <1>12 DEF Die, Exit
  <2> QED BY <1>2, <1>12, <2>1 DEF Submitting, RequestsWait, WorkIsAwaited, WritesUnderKey
<1>13. ASSUME NEW ids \in ReadSets, GetInside(c, ids) PROVE Submitting'
  <2>1. c \in alive /\ pc[c] = "body" /\ pc'[c] \in {"body", "fetching"}
        /\ buffer'[c].mutation = b.mutation
        /\ UNCHANGED <<inbox, txKey, alive, work>>
    BY <1>2, <1>13 DEF GetInside, At, b
  <2>2. Present(buffer'[c].mutation) \subseteq Touchable(txKey'[c])
    BY <1>3, <2>1 DEF Inside
  <2> QED BY <1>4, <1>13, <2>1, <2>2, CallerSubmits DEF GetInside
<1>14. ASSUME NEW i \in Ids, ReadRow(c, i) PROVE Submitting'
  <2>1. UNCHANGED <<pc, buffer, inbox, txKey, alive, work>>
    BY <1>14 DEF ReadRow, clientVars
  <2> QED BY <2>1 DEF Submitting, RequestsWait, WorkIsAwaited, WritesUnderKey
<1>15. CASE HaveRead(c)
  <2>1. c \in alive /\ pc[c] = "fetching" /\ pc'[c] = "body"
        /\ buffer'[c].mutation = b.mutation
        /\ UNCHANGED <<inbox, txKey, alive, work>>
    BY <1>2, <1>15 DEF HaveRead, At, b
  <2>2. Present(buffer'[c].mutation) \subseteq Touchable(txKey'[c])
    BY <1>3, <2>1 DEF Inside
  <2> QED BY <1>4, <1>15, <2>1, <2>2, CallerSubmits DEF HaveRead
<1>16. CASE Caller(c)
  <2>1. \A data \in PlainSets : [op |-> "set", data |-> data] \in Requests
    BY DEF Requests, MemoryStoreAssumption
  <2> QED BY <1>5, <1>6, <1>9, <1>11, <1>12, <1>13, <1>16, <2>1 DEF Caller
<1>17. CASE Clearing(c)
  <2>1. [op |-> "clear"] \in Requests
    BY DEF Requests
  <2> QED BY <1>7, <1>11, <1>17, <2>1 DEF Clearing
<1> QED BY <1>1, <1>8, <1>9, <1>10, <1>14, <1>15, <1>16, <1>17 DEF Reading, Commit, Unlock

LEMMA ServerSubmits ==
    ASSUME Locking, Submitting, NoneAssumption, Server
    PROVE  Submitting'
<1> USE TypeParts DEF Locking
<1>1. pc \in [Clients -> PCs] /\ alive \subseteq Clients /\ inbox \in [Clients -> Requests]
  BY DEF ClientTypeOK, LockTypeOK
<1>2. ASSUME NEW S, Unsent(S), NEW ok, NEW granted, NEW unlocked,
             Answer(ok, {}, granted, unlocked), UNCHANGED <<alive, txKey, buffer>>,
             \A c \in ok : c \in alive => inbox[c] = NoRequest,
             \A c \in alive : work'.from = c =>
                 pc'[c] \in {"calling", "committing"} /\ inbox'[c] = NoRequest
      PROVE  Submitting'
  <2>1. RequestsWait'
    <3> SUFFICES ASSUME NEW c \in Clients
                 PROVE  /\ inbox'[c].op \in {"set", "clear"} => pc'[c] = "calling"
                        /\ inbox'[c].op = "commit" => pc'[c] = "committing"
      BY DEF RequestsWait
    <3>1. CASE inbox'[c] = NoRequest
      BY <3>1 DEF NoRequest
    <3>2. CASE inbox'[c] = inbox[c] /\ inbox[c] # NoRequest
      <4>1. c \notin ok \/ c \notin alive
        BY <1>2, <3>2
      <4> QED BY <1>1, <1>2, <3>2, <4>1, AnswerMoves DEF Submitting, RequestsWait
    <3> QED BY <1>2, <3>1, <3>2 DEF Unsent
  <2>2. WorkIsAwaited'
    BY <1>2 DEF WorkIsAwaited
  <2>3. WritesUnderKey'
    BY <1>1, <1>2, AnswerMoves DEF Submitting, WritesUnderKey
  <2> QED BY <2>1, <2>2, <2>3 DEF Submitting
<1>3. pc' = pc => Answer({}, {}, {}, {})
  BY <1>1, AnswerNobody
<1>4. inbox' = inbox => Unsent({})
  BY DEF Unsent
<1>5. ASSUME NEW c \in Clients, Consumed(c) PROVE Unsent({c})
  BY <1>1, <1>5 DEF Consumed, Unsent
<1>6. ASSUME NEW c \in Clients, ServeLock(c) \/ ServeUnlock(c) PROVE Submitting'
  <2>1. work = NoWork /\ work' = work /\ UNCHANGED <<alive, txKey, buffer>> /\ Unsent({c})
    BY <1>5, <1>6 DEF ServeLock, ServeUnlock, HandleLock, HandleUnlock, storeVars, Idle
  <2>2. \E granted, unlocked : Answer({}, {}, granted, unlocked)
    BY <1>3, <1>6 DEF ServeLock, ServeUnlock, HandleLock, HandleUnlock
  <2>3. \A d \in alive : work'.from # d
    BY <1>1, <2>1, NoneAssumption DEF NoWork
  <2> QED BY <1>2, <2>1, <2>2, <2>3
<1>7. ASSUME NEW c \in Clients, NEW op \in {"set", "clear", "commit"}, NEW data, NEW clear,
             Serve(c, op, data, clear)
      PROVE  Submitting'
  <2>1. UNCHANGED <<alive, txKey, buffer, pc>> /\ Unsent({c}) /\ work'.from = c
    BY <1>5, <1>7 DEF Serve
  <2>2. c \in alive => pc[c] \in {"calling", "committing"}
    BY <1>7 DEF Serve, Received, Submitting, RequestsWait
  <2>3. inbox'[c] = NoRequest
    BY <2>1 DEF Unsent
  <2> QED BY <1>2, <1>3, <2>1, <2>2, <2>3
<1>8. CASE Reply
  <2>1. UNCHANGED <<alive, txKey, buffer>> /\ Unsent({}) /\ work' = NoWork
        /\ Answer({work.from}, {}, {}, {})
    BY <1>4, <1>8 DEF Reply
  <2>2. \A d \in alive : work'.from # d
    BY <1>1, <2>1, NoneAssumption DEF NoWork
  <2>3. \A d \in {work.from} : d \in alive => inbox[d] = NoRequest
    BY DEF Submitting, WorkIsAwaited
  <2> QED BY <1>2, <2>1, <2>2, <2>3
<1>9. ASSUME NEW i \in Ids, WriteRow(i) PROVE Submitting'
  <2>1. UNCHANGED <<alive, txKey, buffer, pc, inbox>> /\ work'.from = work.from
    BY <1>9 DEF WriteRow, clientVars, StoreTypeOK
  <2> QED BY <2>1 DEF Submitting, RequestsWait, WorkIsAwaited, WritesUnderKey
<1>10. ASSUME NEW r \in downs, ServeDown(r) PROVE Submitting'
  <2>1. work = NoWork /\ work' = work /\ UNCHANGED <<alive, txKey, buffer>> /\ Unsent({})
        /\ \E granted : Answer({}, {}, granted, {})
    BY <1>4, <1>10 DEF ServeDown, storeVars, Idle
  <2>2. \A d \in alive : work'.from # d
    BY <1>1, <2>1, NoneAssumption DEF NoWork
  <2> QED BY <1>2, <2>1, <2>2
<1> QED BY <1>6, <1>7, <1>8, <1>9, <1>10
        DEF Server, Serving, ServeSet, ServeClear, ServeCommit

LEMMA InitSubmits == ASSUME Init, NoneAssumption PROVE Submitting
<1>1. RequestsWait
  BY DEF Init, ClientInit, RequestsWait, NoRequest
<1>2. WorkIsAwaited
  BY NoneAssumption DEF Init, LockInit, WorkIsAwaited, NoWork
<1>3. WritesUnderKey
  BY DEF Init, ClientInit, WritesUnderKey, Inside
<1> QED BY <1>1, <1>2, <1>3 DEF Submitting

\* The inductive invariant of the refinement.
Refining == Locking /\ Submitting

THEOREM RequestsAgree == Spec => []Refining
<1>1. Init => Refining
  BY InitType, InitialLocks, InitSubmits, TransactionsAssumption, NoneAssumption
     DEF Refining, Locking, Init
<1>2. Refining /\ [Next]_vars => Refining'
  <2>1. Refining /\ (Rest \/ UNCHANGED vars) => Submitting'
    BY DEF Refining, Rest, vars, lockVars, clientVars, storeVars, Submitting, RequestsWait,
       WorkIsAwaited, WritesUnderKey
  <2> QED BY <2>1, NextType, NextLocks, CallersSubmit, ServerSubmits, NoneAssumption,
             TransactionsAssumption, MemoryStoreAssumption DEF Refining, Locking, Next
<1> QED BY <1>1, <1>2, PTL DEF Spec

-----------------------------------------------------------------------------
\* Whoever owns a key is in the transaction it started on it, and gives up that
\* key and no other: so a process in a call of its own owns none.
Owning ==
    /\ \A k \in LockKeys : owner[k] # None =>
          txKey[owner[k]] = k /\ pc[owner[k]] \notin {"idle", "calling"}
    /\ \A c \in Clients : inbox[c].op = "unlock" => inbox[c].key = txKey[c]

\* An answer takes out of its transaction only a process that has unlocked.
LEMMA AnswerKeepsInside ==
    ASSUME NEW ok, NEW granted, NEW unlocked, Answer(ok, {}, granted, unlocked),
           NEW c \in Clients
    PROVE  /\ pc[c] \notin {"idle", "calling", "unlocking"} => pc'[c] \notin {"idle", "calling"}
           /\ pc[c] = "unlocking" /\ c \notin unlocked => pc'[c] = "unlocking"
BY DEF Answer, OnOk, OnError

\* A caller's step: the locks stay, and c alone moves.
LEMMA CallerOwns ==
    ASSUME Locking, Owning, NoneAssumption, NEW c \in Clients, owner' = owner,
           \A d \in Clients \ {c} : /\ pc'[d] = pc[d] /\ txKey'[d] = txKey[d]
                                   /\ inbox'[d] = inbox[d],
           \/ pc[c] = "idle"
           \/ txKey'[c] = txKey[c] /\ (pc'[c] = pc[c] \/ pc'[c] \notin {"idle", "calling"}),
           inbox'[c].op = "unlock" => inbox'[c].key = txKey'[c]
    PROVE  Owning'
<1>1. \A k \in LockKeys : owner[k] # None => owner[k] \in Clients
  BY TypeParts DEF Locking, LockTypeOK
<1> QED BY <1>1 DEF Owning

LEMMA CallersOwn ==
    ASSUME Locking, Owning, NoneAssumption, TransactionsAssumption, MemoryStoreAssumption, Callers
    PROVE  Owning'
<1> USE TypeParts DEF Locking, ClientTypeOK
<1>1. PICK c \in Clients : \/ Caller(c) \/ Reading(c) \/ Commit(c) \/ Unlock(c)
                           \/ Clearing(c)
  BY DEF Callers
<1>2. inbox[c].op = "unlock" => inbox[c].key = txKey[c]
  BY DEF Owning
<1>3. ASSUME NEW k \in LockKeys, Begin(c, k) PROVE Owning'
  BY <1>3, CallerOwns DEF Begin, At, Call, lockVars
<1>4. ASSUME NEW i \in Ids, NEW value \in Entries, Put(c, i, value) PROVE Owning'
  BY <1>2, <1>4, CallerOwns DEF Put, lockVars
<1>5. CASE ClearInside(c)
  BY <1>2, <1>5, CallerOwns DEF ClearInside, lockVars
<1>6. CASE SendCommit(c)
  BY <1>6, CallerOwns DEF SendCommit, Call, lockVars
<1>7. CASE Raise(c)
  BY <1>2, <1>7, CallerOwns DEF Raise, lockVars
<1>8. CASE End(c)
  BY <1>8, CallerOwns DEF End, Call, lockVars
<1>9. ASSUME NEW request \in Requests, PlainCall(c, request), request.op \in {"set", "clear"}
      PROVE  Owning'
  BY <1>9, CallerOwns DEF PlainCall, At, Call, lockVars
<1>10. CASE Die(c)
  BY <1>2, <1>10, CallerOwns DEF Die
<1>11. ASSUME NEW ids \in ReadSets, GetInside(c, ids) PROVE Owning'
  BY <1>2, <1>11, CallerOwns DEF GetInside, lockVars
<1>12. CASE Reading(c)
  BY <1>2, <1>12, CallerOwns DEF Reading, ReadRow, HaveRead, lockVars, clientVars
<1>13. CASE Caller(c)
  <2>1. \A data \in PlainSets : [op |-> "set", data |-> data] \in Requests
    BY DEF Requests, MemoryStoreAssumption
  <2> QED BY <1>3, <1>4, <1>7, <1>9, <1>10, <1>11, <1>13, <2>1 DEF Caller
<1>14. CASE Clearing(c)
  <2>1. [op |-> "clear"] \in Requests
    BY DEF Requests
  <2> QED BY <1>5, <1>9, <1>14, <2>1 DEF Clearing
<1> QED BY <1>1, <1>6, <1>7, <1>8, <1>12, <1>13, <1>14 DEF Commit, Unlock

\* Keys given up, waiters that go on, answers: an unlocked process has given up
\* the key of its transaction.
LEMMA ReleaseOwns ==
    ASSUME Locking, Owning, NoneAssumption, NEW refs, NEW ok, NEW unlocked,
           NEW S \in SUBSET Clients, Unsent(S),
           Release(refs), Answer(ok, {}, PromotedBy(refs), unlocked), txKey' = txKey,
           \A c \in Clients : c \in unlocked => <<c, txKey[c]>> \in refs
    PROVE  Owning'
<1> USE TypeParts DEF Locking
<1>1. ASSUME NEW k \in LockKeys, owner'[k] # None
      PROVE  txKey[owner'[k]] = k /\ pc'[owner'[k]] \notin {"idle", "calling"}
  <2>1. CASE k \in ReleasedKeys(refs)
    <3>1. queue[k] \in Seq(Clients) /\ queue[k] # << >>
      BY <1>1, <2>1, ReleaseEffect DEF LockTypeOK
    <3>2. 1 \in 1..Len(queue[k])
      BY <3>1
    <3>3. owner'[k] = queue[k][1] /\ queue[k][1] \in Clients
      BY <2>1, <3>1, <3>2, ReleaseEffect, ElementOfSeq
    <3>4. txKey[owner'[k]] = k /\ pc[owner'[k]] = "locking"
      BY <3>2, <3>3 DEF LockInv, WaitersWait
    <3> QED BY <3>3, <3>4, AnswerKeepsInside
  <2>2. CASE k \notin ReleasedKeys(refs)
    <3>1. owner'[k] = owner[k] /\ owner[k] \in Clients
      BY <1>1, <2>2, ReleaseEffect DEF LockTypeOK
    <3>2. txKey[owner[k]] = k /\ pc[owner[k]] \notin {"idle", "calling"}
      BY <1>1, <3>1 DEF Owning
    <3>3. owner[k] \notin unlocked
      BY <1>1, <2>2, <3>1, <3>2 DEF ReleasedKeys
    <3> QED BY <3>1, <3>2, <3>3, AnswerKeepsInside
  <2> QED BY <2>1, <2>2
<1>2. ASSUME NEW c \in Clients, inbox'[c].op = "unlock" PROVE inbox'[c].key = txKey[c]
  BY <1>2 DEF Unsent, NoRequest, Owning
<1> QED BY <1>1, <1>2 DEF Owning

LEMMA ServerOwns ==
    ASSUME Locking, Owning, NoneAssumption, Server
    PROVE  Owning'
<1> USE TypeParts DEF Locking
<1>1. pc \in [Clients -> PCs] /\ inbox \in [Clients -> Requests]
  BY DEF ClientTypeOK
<1>2. inbox' = inbox => Unsent({})
  BY DEF Unsent
<1>3. ASSUME NEW c \in Clients, Consumed(c) PROVE Unsent({c})
  BY <1>1, <1>3 DEF Consumed, Unsent
\* steps that leave the locks alone
<1>4. ASSUME UNCHANGED <<lockVars, txKey>>, NEW ok, Answer(ok, {}, {}, {}),
             NEW S \in SUBSET Clients, Unsent(S)
      PROVE  Owning'
  <2> DEFINE none == {}
  <2>1. Release(none) /\ PromotedBy(none) = {}
    BY <1>4, ReleaseNothing
  <2>2. Answer(ok, {}, PromotedBy(none), none)
    BY <1>4, <2>1
  <2>3. \A c \in Clients : c \in none => <<c, txKey[c]>> \in none
    OBVIOUS
  <2> HIDE DEF none
  <2> QED BY <1>4, <2>1, <2>2, <2>3, ReleaseOwns
<1>5. ASSUME NEW c \in Clients, ServeLock(c) PROVE Owning'
  <2> DEFINE k == inbox[c].key
  <2>1. pc[c] = "locking" /\ txKey[c] = k /\ k \in LockKeys /\ Consumed(c) /\ txKey' = txKey
    BY <1>1, <1>5 DEF ServeLock, HandleLock, Received, Requests, LockInv, LockRequests
  <2>2. \A d \in Clients : inbox'[d].op = "unlock" => inbox'[d].key = txKey[d]
    BY <1>3, <2>1 DEF Unsent, NoRequest, Owning
  <2>3. CASE Acquire(c, k) /\ Answer({}, {}, {c}, {})
    <3>1. \A l \in LockKeys : owner'[l] = IF l = k THEN c ELSE owner[l]
      BY <2>1, <2>3 DEF Acquire, LockTypeOK
    <3>2. \A d \in Clients : pc[d] \notin {"idle", "calling"} => pc'[d] \notin {"idle", "calling"}
      BY <2>3, AnswerKeepsInside
    <3>3. ASSUME NEW l \in LockKeys, owner'[l] # None
          PROVE  txKey[owner'[l]] = l /\ pc'[owner'[l]] \notin {"idle", "calling"}
      <4>1. owner'[l] \in Clients
        BY <3>1, <3>3 DEF LockTypeOK
      <4>2. txKey[owner'[l]] = l /\ pc[owner'[l]] \notin {"idle", "calling"}
        BY <2>1, <3>1, <3>3 DEF Owning
      <4> QED BY <3>2, <4>1, <4>2
    <3> QED BY <2>1, <2>2, <3>3 DEF Owning
  <2>4. CASE Enqueue(c, k) /\ pc' = pc
    BY <2>1, <2>2, <2>4 DEF Enqueue, Owning
  <2> QED BY <1>5, <2>3, <2>4 DEF ServeLock, HandleLock
<1>6. ASSUME NEW c \in Clients, ServeUnlock(c) PROVE Owning'
  <2> DEFINE refs == {<<c, inbox[c].key>>}
             gone == {c}
  <2>1. /\ Release(refs) /\ Answer({}, {}, PromotedBy(refs), gone)
        /\ gone \in SUBSET Clients /\ Unsent(gone) /\ txKey' = txKey
    BY <1>3, <1>6 DEF ServeUnlock, HandleUnlock
  <2>2. \A d \in Clients : d \in gone => <<d, txKey[d]>> \in refs
    BY <1>6 DEF ServeUnlock, HandleUnlock, Received, Owning
  <2> HIDE DEF refs, gone
  <2> QED BY <2>1, <2>2, ReleaseOwns
<1>7. ASSUME NEW c \in Clients, NEW op, NEW data, NEW clear, Serve(c, op, data, clear)
      PROVE  Owning'
  <2>1. Answer({}, {}, {}, {}) /\ Unsent({c}) /\ {c} \in SUBSET Clients
        /\ UNCHANGED <<lockVars, txKey>>
    BY <1>1, <1>3, <1>7, AnswerNobody DEF Serve
  <2> QED BY <1>4, <2>1
<1>8. CASE Reply
  BY <1>2, <1>4, <1>8 DEF Reply
<1>9. ASSUME NEW i \in Ids, WriteRow(i) PROVE Owning'
  BY <1>9 DEF WriteRow, lockVars, clientVars, Owning
<1>10. ASSUME NEW r \in downs, ServeDown(r) PROVE Owning'
  <2> DEFINE refs == Known({r})
             none == {}
  <2>1. /\ Release(refs) /\ Answer(none, {}, PromotedBy(refs), none) /\ txKey' = txKey
        /\ none \in SUBSET Clients /\ Unsent(none)
        /\ \A c \in Clients : c \in none => <<c, txKey[c]>> \in refs
    BY <1>2, <1>10 DEF ServeDown
  <2> HIDE DEF refs, none
  <2> QED BY <2>1, ReleaseOwns
<1> QED BY <1>5, <1>6, <1>7, <1>8, <1>9, <1>10
        DEF Server, Serving, ServeSet, ServeClear, ServeCommit

\* Whatever dies, a key's owner is in the transaction it started on it
\* (lock_manager.ex, transaction/3 of memory.ex).
THEOREM OwnersAreInside == Spec => []Owning
<1>1. Init => Owning
  BY DEF Init, LockInit, ClientInit, NoRequest, Owning
<1>2. Locking /\ Owning /\ [Next]_vars => Owning'
  <2>1. Owning /\ (Rest \/ UNCHANGED vars) => Owning'
    BY DEF Rest, vars, lockVars, clientVars, Owning
  <2> QED BY <2>1, CallersOwn, ServerOwns, NoneAssumption, TransactionsAssumption,
             MemoryStoreAssumption DEF Next
<1> QED BY <1>1, <1>2, LocksAgree, PTL DEF Spec

-----------------------------------------------------------------------------
abstractVars == <<owner, Submitted, Contents>>

\* What a request submits, and what other requests do not.
LEMMA SubmittedBy ==
    ASSUME NEW c \in Clients
    PROVE  /\ inbox[c].op \notin {"set", "clear", "commit"} => Submitted[c] = Serial!Nothing
           /\ inbox[c].op = "set" => Submitted[c] = [data |-> inbox[c].data, clear |-> FALSE]
           /\ inbox[c].op = "clear" => Submitted[c] = [data |-> NoData, clear |-> TRUE]
           /\ inbox[c].op = "commit" =>
                  Submitted[c] = [data |-> inbox[c].data, clear |-> inbox[c].clear]
           /\ inbox[c] = NoRequest => Submitted[c] = Serial!Nothing
<1>1. Submitted[c] =
        [data  |-> IF inbox[c].op \in {"set", "commit"} THEN inbox[c].data ELSE NoData,
         clear |-> IF inbox[c].op = "clear" THEN TRUE
                   ELSE IF inbox[c].op = "commit" THEN inbox[c].clear ELSE FALSE]
  BY DEF Submitted
<1> DEFINE op == inbox[c].op
<1> DEFINE data == inbox[c].data
<1> DEFINE clear == inbox[c].clear
<1>2. Submitted[c] = [data  |-> IF op \in {"set", "commit"} THEN data ELSE NoData,
                 clear |-> IF op = "clear" THEN TRUE
                           ELSE IF op = "commit" THEN clear ELSE FALSE]
  BY ONLY <1>1
<1>3. Serial!Nothing = [data |-> NoData, clear |-> FALSE]
  BY DEF Serial!Nothing, NoData
<1>4. inbox[c] = NoRequest => op \notin {"set", "clear", "commit"}
  BY DEF NoRequest
<1> HIDE DEF op, data, clear
<1>5. op \notin {"set", "clear", "commit"} => Submitted[c] = Serial!Nothing
  BY <1>2, <1>3
<1>6. op = "set" => Submitted[c] = [data |-> data, clear |-> FALSE]
  BY <1>2
<1>7. op = "clear" => Submitted[c] = [data |-> NoData, clear |-> TRUE]
  BY <1>2
<1>8. op = "commit" => Submitted[c] = [data |-> data, clear |-> clear]
  BY <1>2
<1> QED BY <1>4, <1>5, <1>6, <1>7, <1>8 DEF op, data, clear

LEMMA SubmittedNext ==
    ASSUME NEW c \in Clients
    PROVE  /\ inbox'[c].op \notin {"set", "clear", "commit"} => Submitted'[c] = Serial!Nothing
           /\ inbox'[c].op = "set" => Submitted'[c] = [data |-> inbox'[c].data, clear |-> FALSE]
           /\ inbox'[c].op = "clear" => Submitted'[c] = [data |-> NoData, clear |-> TRUE]
           /\ inbox'[c].op = "commit" =>
                  Submitted'[c] = [data |-> inbox'[c].data, clear |-> inbox'[c].clear]
           /\ inbox'[c] = NoRequest => Submitted'[c] = Serial!Nothing
<1>1. Submitted'[c] =
        [data  |-> IF inbox'[c].op \in {"set", "commit"} THEN inbox'[c].data ELSE NoData,
         clear |-> IF inbox'[c].op = "clear" THEN TRUE
                   ELSE IF inbox'[c].op = "commit" THEN inbox'[c].clear ELSE FALSE]
  BY DEF Submitted
<1> DEFINE op == inbox'[c].op
<1> DEFINE data == inbox'[c].data
<1> DEFINE clear == inbox'[c].clear
<1>2. Submitted'[c] = [data  |-> IF op \in {"set", "commit"} THEN data ELSE NoData,
                 clear |-> IF op = "clear" THEN TRUE
                           ELSE IF op = "commit" THEN clear ELSE FALSE]
  BY ONLY <1>1
<1>3. Serial!Nothing = [data |-> NoData, clear |-> FALSE]
  BY DEF Serial!Nothing, NoData
<1>4. inbox'[c] = NoRequest => op \notin {"set", "clear", "commit"}
  BY DEF NoRequest
<1> HIDE DEF op, data, clear
<1>5. op \notin {"set", "clear", "commit"} => Submitted'[c] = Serial!Nothing
  BY <1>2, <1>3
<1>6. op = "set" => Submitted'[c] = [data |-> data, clear |-> FALSE]
  BY <1>2
<1>7. op = "clear" => Submitted'[c] = [data |-> NoData, clear |-> TRUE]
  BY <1>2
<1>8. op = "commit" => Submitted'[c] = [data |-> data, clear |-> clear]
  BY <1>2
<1> QED BY <1>4, <1>5, <1>6, <1>7, <1>8 DEF op, data, clear

\* Requests that submit nothing before or after do not show.
LEMMA SubmittedUnchanged ==
    ASSUME \A c \in Clients :
               \/ inbox'[c] = inbox[c]
               \/ /\ inbox[c].op \notin {"set", "clear", "commit"}
                  /\ inbox'[c].op \notin {"set", "clear", "commit"}
    PROVE  Submitted' = Submitted
<1> DEFINE S == Submitted
           T == Submitted'
<1>1. \A c \in Clients : T[c] = S[c]
  BY DEF Submitted
<1>2. S = [c \in Clients |-> S[c]] /\ T = [c \in Clients |-> T[c]]
  BY DEF Submitted
<1> HIDE DEF S, T
<1>3. T = S
  BY <1>1, <1>2
<1> QED BY <1>3 DEF S, T

LEMMA SubmittedOne ==
    ASSUME NEW c \in Clients, \A d \in Clients \ {c} : inbox'[d] = inbox[d]
    PROVE  Submitted' = [Submitted EXCEPT ![c] = Submitted'[c]]
<1> DEFINE S == Submitted
           T == Submitted'
<1>1. \A d \in Clients \ {c} : T[d] = S[d]
  BY DEF Submitted
<1>2. S = [d \in Clients |-> S[d]] /\ T = [d \in Clients |-> T[d]]
  BY DEF Submitted
<1> HIDE DEF S, T
<1>3. T = [S EXCEPT ![c] = T[c]]
  BY <1>1, <1>2
<1> QED BY <1>3 DEF S, T

LEMMA ContentsUnchanged ==
    ASSUME UNCHANGED <<table, work>>
    PROVE  Contents' = Contents
BY DEF Contents

\* A step of a caller submits something, or shows nothing.
LEMMA CallersRefine ==
    ASSUME Refining, Owning, NoneAssumption, TransactionsAssumption, MemoryStoreAssumption,
           Callers
    PROVE  [Serial!Next]_abstractVars
<1> USE TypeParts DEF Refining, Locking, ClientTypeOK
<1>1. PICK c \in Clients : \/ Caller(c) \/ Reading(c) \/ Commit(c) \/ Unlock(c)
                           \/ Clearing(c)
  BY DEF Callers
<1>2. ASSUME inbox' = inbox, owner' = owner, UNCHANGED <<table, work>> PROVE UNCHANGED abstractVars
  BY <1>2, SubmittedUnchanged, ContentsUnchanged DEF abstractVars
<1>3. pc[c] \in {"idle", "body", "ending"} => inbox[c].op \notin {"set", "clear", "commit"}
  BY DEF Submitting, RequestsWait
<1>4. ASSUME NEW data \in DataSets, NEW clear \in BOOLEAN, UNCHANGED <<owner, table, work>>,
             \A d \in Clients \ {c} : inbox'[d] = inbox[d],
             pc[c] \in {"idle", "body", "ending"},
             \/ Serial!InNone(c)
             \/ \A i \in DOMAIN data : GuardKey[i] # None => owner[GuardKey[i]] = c,
             Submitted'[c] = [data |-> data, clear |-> clear]
      PROVE  Serial!Submit(c)
  <2>1. Submitted[c] = Serial!Nothing
    BY <1>3, <1>4, SubmittedBy
  <2>2. Submitted' = [Submitted EXCEPT ![c] = [data |-> data, clear |-> clear]]
    BY <1>4, SubmittedOne
  <2>3. [data |-> data, clear |-> clear] \in Serial!Submissions
    BY <1>4 DEF Serial!Submissions, DataSets
  <2>4. Contents' = Contents
    BY <1>4, ContentsUnchanged
  <2> QED BY <1>4, <2>1, <2>2, <2>3, <2>4 DEF Serial!Submit, Serial!MayTouch
<1>5. ASSUME NEW request \in Requests, PlainCall(c, request), UNCHANGED storeVars,
             NEW data \in DataSets, NEW clear \in BOOLEAN,
             \/ request.op = "set" /\ request.data = data /\ clear = FALSE
             \/ request.op = "clear" /\ data = NoData /\ clear = TRUE
      PROVE  Serial!Submit(c)
  <2>1. /\ pc[c] = "idle" /\ inbox'[c] = request
        /\ \A d \in Clients \ {c} : inbox'[d] = inbox[d]
        /\ UNCHANGED <<owner, table, work>>
    BY <1>5 DEF PlainCall, At, Call, lockVars, storeVars
  <2>2. Submitted'[c] = [data |-> data, clear |-> clear]
    BY <1>5, <2>1, SubmittedNext
  <2>3. Serial!InNone(c)
    BY <2>1, NoneAssumption DEF Owning, Serial!InNone
  <2> QED BY <1>4, <1>5, <2>1, <2>2, <2>3
<1>6. ASSUME SendCommit(c), UNCHANGED storeVars PROVE Serial!Submit(c)
  <2> DEFINE data == MutationData(buffer[c])
             clear == buffer[c].cleared
  <2>1. /\ pc[c] = "body" /\ c \in alive
        /\ inbox'[c] = [op |-> "commit", data |-> data, clear |-> clear]
        /\ \A d \in Clients \ {c} : inbox'[d] = inbox[d]
        /\ UNCHANGED <<owner, table, work>>
    BY <1>6 DEF SendCommit, At, Call, lockVars, storeVars
  <2>2. buffer[c] \in BufferType /\ clear \in BOOLEAN
    BY DEF BufferType
  <2>3. data \in DataSets
    BY <2>2, MutationDataType
  <2>4. DOMAIN data \subseteq Touchable(txKey[c])
    BY <2>1 DEF MutationData, Submitting, WritesUnderKey, Inside
  <2>5. txKey[c] \in LockKeys /\ owner[txKey[c]] = c
    BY <2>1 DEF LockInv, OwnerHolds, In, Inside
  <2>6. \A i \in DOMAIN data : GuardKey[i] # None => owner[GuardKey[i]] = c
    BY <2>4, <2>5 DEF Touchable
  <2> HIDE DEF data, clear
  <2>7. Submitted'[c] = [data |-> data, clear |-> clear]
    <3>1. inbox'[c].op = "commit" /\ inbox'[c].data = data /\ inbox'[c].clear = clear
      BY ONLY <2>1
    <3>2. inbox'[c].op = "commit"
             => Submitted'[c] = [data |-> inbox'[c].data, clear |-> inbox'[c].clear]
      BY SubmittedNext
    <3> QED BY ONLY <3>1, <3>2
  <2> QED BY <1>4, <2>1, <2>2, <2>3, <2>6, <2>7
<1>7. ASSUME Begin(c, inbox'[c].key) \/ End(c), UNCHANGED storeVars PROVE UNCHANGED abstractVars
  <2>1. /\ pc[c] \in {"idle", "ending"} /\ inbox'[c].op \in {"lock", "unlock"}
        /\ \A d \in Clients \ {c} : inbox'[d] = inbox[d]
        /\ UNCHANGED <<owner, table, work>>
    BY <1>7 DEF Begin, End, At, Call, lockVars, storeVars
  <2>2. \A d \in Clients : \/ inbox'[d] = inbox[d]
                           \/ /\ inbox[d].op \notin {"set", "clear", "commit"}
                              /\ inbox'[d].op \notin {"set", "clear", "commit"}
    BY <1>3, <2>1
  <2> QED BY <2>1, <2>2, SubmittedUnchanged, ContentsUnchanged DEF abstractVars
<1>8. ASSUME NEW k \in LockKeys, Begin(c, k), UNCHANGED storeVars PROVE UNCHANGED abstractVars
  <2>1. inbox'[c].key = k
    BY <1>8 DEF Begin, Call
  <2> QED BY <1>7, <1>8, <2>1
<1>9. ASSUME \/ Raise(c) \/ ClearInside(c) \/ \E i \in Ids, value \in Entries : Put(c, i, value),
             UNCHANGED storeVars
      PROVE  UNCHANGED abstractVars
  BY <1>2, <1>9 DEF Raise, ClearInside, Put, lockVars, storeVars
<1>10. CASE Die(c) /\ UNCHANGED <<table, work>>
  BY <1>2, <1>10 DEF Die, Exit
<1>11. ASSUME \/ Reading(c) \/ \E ids \in ReadSets : GetInside(c, ids) PROVE UNCHANGED abstractVars
  BY <1>2, <1>11 DEF Reading, HaveRead, ReadRow, GetInside, lockVars, clientVars
<1>12. CASE Caller(c)
  <2>1. \A data \in PlainSets : /\ [op |-> "set", data |-> data] \in Requests
                                /\ data \in DataSets
    BY DEF Requests, MemoryStoreAssumption
  <2>2. ASSUME NEW data \in PlainSets, PlainCall(c, [op |-> "set", data |-> data]),
               UNCHANGED storeVars
        PROVE  Serial!Submit(c)
    BY <1>5, <2>1, <2>2
  <2> QED BY <1>8, <1>9, <1>10, <1>11, <1>12, <2>2 DEF Caller, Serial!Next
<1>13. CASE Clearing(c)
  <2>1. [op |-> "clear"] \in Requests /\ NoData \in DataSets
    BY NoDataType DEF Requests
  <2>2. PlainCall(c, [op |-> "clear"]) /\ UNCHANGED storeVars => Serial!Submit(c)
    BY <1>5, <2>1
  <2> QED BY <1>9, <1>13, <2>2 DEF Clearing, Serial!Next
<1>14. CASE Commit(c) \/ Unlock(c)
  BY <1>6, <1>7, <1>9, <1>14 DEF Commit, Unlock, Serial!Next
<1> QED BY <1>1, <1>11, <1>12, <1>13, <1>14

\* A key changes hands only when it is free or its holder has nothing pending.
LEMMA ReleaseHandsOver ==
    ASSUME LockTypeOK, NEW refs, Release(refs), NEW c \in Clients,
           \A k \in LockKeys : <<owner[k], k>> \in refs => owner[k] = c,
           Submitted'[c] = Serial!Nothing
    PROVE  Serial!HandOver
<1>1. owner' \in [LockKeys -> Clients \union {None}]
  BY ReleaseType
<1>2. ASSUME NEW k \in LockKeys, owner'[k] # owner[k] PROVE owner[k] = c
  <2>1. k \in ReleasedKeys(refs)
    BY <1>2, ReleaseEffect
  <2> QED BY <2>1 DEF ReleasedKeys
<1> QED BY <1>1, <1>2 DEF Serial!HandOver

LEMMA ServerRefines ==
    ASSUME Refining, NoneAssumption, Server
    PROVE  [Serial!Next]_abstractVars
<1> USE TypeParts DEF Refining, Locking
<1>1. inbox \in [Clients -> Requests]
  BY DEF ClientTypeOK
<1>2. ASSUME NEW c \in Clients, ServeLock(c) PROVE [Serial!Next]_abstractVars
  <2>1. Submitted' = Submitted /\ Contents' = Contents
    <3>1. \A d \in Clients : \/ inbox'[d] = inbox[d]
                             \/ /\ inbox[d].op \notin {"set", "clear", "commit"}
                                /\ inbox'[d].op \notin {"set", "clear", "commit"}
      BY <1>1, <1>2 DEF ServeLock, HandleLock, Received, Consumed, NoRequest
    <3> QED BY <1>2, <3>1, SubmittedUnchanged, ContentsUnchanged DEF ServeLock, storeVars
  <2> DEFINE k == inbox[c].key
  <2>2. k \in LockKeys
    BY <1>1, <1>2 DEF ServeLock, HandleLock, Received, Requests
  <2>3. CASE Acquire(c, k)
    <3>1. owner[k] = None /\ owner' = [owner EXCEPT ![k] = c]
      BY <2>3 DEF Acquire
    <3>2. Serial!HandOver
      BY <2>2, <3>1 DEF Serial!HandOver, LockTypeOK
    <3> QED BY <2>1, <3>2 DEF Serial!Next
  <2>4. CASE Enqueue(c, k)
    BY <2>1, <2>4 DEF Enqueue, abstractVars
  <2> QED BY <1>2, <2>3, <2>4 DEF ServeLock, HandleLock
<1>3. ASSUME NEW c \in Clients, ServeUnlock(c) PROVE [Serial!Next]_abstractVars
  <2>1. \A d \in Clients : \/ inbox'[d] = inbox[d]
                           \/ /\ inbox[d].op \notin {"set", "clear", "commit"}
                              /\ inbox'[d].op \notin {"set", "clear", "commit"}
    BY <1>1, <1>3 DEF ServeUnlock, HandleUnlock, Received, Consumed, NoRequest
  <2>2. Submitted' = Submitted /\ Contents' = Contents
    BY <1>3, <2>1, SubmittedUnchanged, ContentsUnchanged DEF ServeUnlock, storeVars
  <2>3. Submitted'[c] = Serial!Nothing
    BY <1>1, <1>3, SubmittedNext DEF ServeUnlock, HandleUnlock, Consumed
  <2> DEFINE refs == {<<c, inbox[c].key>>}
  <2>4. Release(refs) /\ \A k \in LockKeys : <<owner[k], k>> \in refs => owner[k] = c
    BY <1>3 DEF ServeUnlock, HandleUnlock
  <2> HIDE DEF refs
  <2> QED BY <2>2, <2>3, <2>4, ReleaseHandsOver DEF Serial!Next
<1>4. ASSUME NEW c \in Clients, NEW op, NEW data \in DataSets, NEW clear \in BOOLEAN,
             Serve(c, op, data, clear), Submitted[c] = [data |-> data, clear |-> clear]
      PROVE  Serial!Settle(c)
  <2>1. inbox'[c] = NoRequest /\ \A d \in Clients \ {c} : inbox'[d] = inbox[d]
    BY <1>1, <1>4 DEF Serve, Consumed
  <2>2. Submitted' = [Submitted EXCEPT ![c] = Serial!Nothing]
    BY <2>1, SubmittedNext, SubmittedOne
  <2>3. owner' = owner /\ Serial!HandOver
    BY <1>4 DEF Serve, lockVars, Serial!HandOver, LockTypeOK
  <2>4. DOMAIN work.writes = {} /\ table \in [Ids -> Entries]
    BY <1>4 DEF Serve, Idle, NoWork, NoData, StoreTypeOK
  <2>5. Contents' = Serial!Applied(Submitted[c])
    <3>1. work'.writes = data /\ table' = IF clear THEN [i \in Ids |-> Missing] ELSE table
      BY <1>4 DEF Serve
    <3> QED BY <1>4, <2>4, <3>1 DEF Contents, Serial!Applied
  <2> QED BY <2>2, <2>3, <2>5 DEF Serial!Settle
<1>5. ASSUME NEW c \in Clients, ServeSet(c) \/ ServeClear(c) \/ ServeCommit(c)
      PROVE  [Serial!Next]_abstractVars
  <2>1. /\ inbox[c].op \in {"set", "commit"} => inbox[c].data \in DataSets
        /\ inbox[c].op = "commit" => inbox[c].clear \in BOOLEAN
    BY <1>1 DEF Requests
  <2>2. Serial!Settle(c)
    BY <1>4, <1>5, <2>1, NoDataType, SubmittedBy
       DEF ServeSet, ServeClear, ServeCommit, Serve, Received
  <2> QED BY <2>2 DEF Serial!Next
<1>6. CASE Reply
  <2>1. /\ inbox' = inbox /\ owner' = owner /\ table' = table
        /\ DOMAIN work.writes = {} /\ DOMAIN work'.writes = {}
    BY <1>6 DEF Reply, NoWork, NoData, lockVars
  <2>2. Contents' = Contents
    BY <2>1 DEF Contents
  <2> QED BY <2>1, <2>2, SubmittedUnchanged DEF abstractVars
<1>7. ASSUME NEW i \in Ids, WriteRow(i) PROVE UNCHANGED abstractVars
  <2>1. /\ inbox' = inbox /\ owner' = owner
        /\ i \in DOMAIN work.writes
        /\ table' = [table EXCEPT ![i] = work.writes[i]]
        /\ work'.writes = [j \in DOMAIN work.writes \ {i} |-> work.writes[j]]
    BY <1>7 DEF WriteRow, lockVars, clientVars, StoreTypeOK
  <2>2. DOMAIN work.writes \subseteq Ids /\ table \in [Ids -> Entries]
    BY DataTypes DEF StoreTypeOK
  <2>3. Contents' = Contents
    BY <2>1, <2>2 DEF Contents
  <2> QED BY <2>1, <2>3, SubmittedUnchanged DEF abstractVars
<1>8. ASSUME NEW r \in downs, ServeDown(r) PROVE [Serial!Next]_abstractVars
  <2> DEFINE c == r[1]
             refs == Known({r})
  <2>1. c \in Clients /\ r = <<r[1], r[2]>>
    BY DEF LockTypeOK
  <2>2. inbox' = inbox /\ inbox[c] = NoRequest /\ UNCHANGED <<table, work>> /\ Release(refs)
    BY <1>8 DEF ServeDown, DownArrived, storeVars
  <2>3. Submitted' = Submitted /\ Contents' = Contents
    BY <2>2, SubmittedUnchanged, ContentsUnchanged
  <2>4. Submitted'[c] = Serial!Nothing
    BY <2>1, <2>2, <2>3, SubmittedBy
  <2>5. \A k \in LockKeys : <<owner[k], k>> \in refs => owner[k] = c
    BY DEF Known
  <2> HIDE DEF c, refs
  <2> QED BY <2>1, <2>2, <2>3, <2>4, <2>5, ReleaseHandsOver DEF Serial!Next
<1> QED BY <1>2, <1>3, <1>5, <1>6, <1>7, <1>8 DEF Server, Serving

\* The memory store implements SerialStore (store.ex): transactions are applied
\* whole, one after the other on each key, by the process that holds it, and the
\* key waits for them, for any number of processes, keys and ids, whatever
\* other processes set and clear outside transactions.
THEOREM Implements == Spec => ImplementsSerial
<1>1. Init => Serial!Init
  <2> SUFFICES ASSUME Init PROVE Serial!Init
    OBVIOUS
  <2>1. \A c \in Clients : Submitted[c] = Serial!Nothing
    BY SubmittedBy DEF Init, ClientInit
  <2>2. Submitted = [c \in Clients |-> Serial!Nothing]
    BY <2>1 DEF Submitted
  <2>3. Contents \in [Ids -> Entries]
    BY DEF Init, Contents, NoWork, NoData, Entries
  <2> QED BY <2>2, <2>3 DEF Init, LockInit, Serial!Init
<1>2. Refining /\ Owning /\ [Next]_vars => [Serial!Next]_abstractVars
  <2>1. Rest \/ UNCHANGED vars => UNCHANGED abstractVars
    BY SubmittedUnchanged, ContentsUnchanged
       DEF Rest, vars, lockVars, clientVars, storeVars, abstractVars
  <2> QED BY <2>1, CallersRefine, ServerRefines, NoneAssumption,
             TransactionsAssumption, MemoryStoreAssumption DEF Next
<1>3. [Serial!Next]_abstractVars <=> [Serial!Next]_Serial!vars
  BY DEF abstractVars, Serial!vars
<1> QED BY <1>1, <1>2, <1>3, RequestsAgree, OwnersAreInside, PTL DEF Spec, ImplementsSerial, Serial!Spec
=============================================================================
