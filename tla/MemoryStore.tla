---------------------------- MODULE MemoryStore ----------------------------
(***************************************************************************)
(* The in-memory Signal store (lib/baileys_ex/signal/store/memory.ex): a   *)
(* GenServer that owns an ETS table.  Processes read the table themselves, *)
(* one row at a time, while the server writes it, one row at a time.       *)
(***************************************************************************)
EXTENDS Transactions

CONSTANTS
    ReadSets,       \* the id sets that callers read
    PlainSets,      \* the data sets that callers set outside transactions
    MayClear        \* whether anybody calls clear/1

ASSUME MemoryStoreAssumption ==
    /\ ReadSets \subseteq SUBSET Ids
    /\ PlainSets \subseteq DataSets
    /\ MayClear \in BOOLEAN

VARIABLES
    table,          \* the ETS table; Missing when there is no row
    work,           \* the data call the server is in, and the rows left to write
    reading         \* reading[c]: the rows c has left to look up, and those it has

storeVars == <<table, work, reading>>
vars == <<lockVars, alive, clientVars, storeVars>>

NoWork    == [from |-> None, writes |-> NoData]
NoReading == [ids |-> {}, got |-> NoData]

TypeOK ==
    /\ LockTypeOK
    /\ ClientTypeOK
    /\ table \in [Ids -> Entries]
    /\ work \in [from : Clients \union {None}, writes : DataSets]
    /\ reading \in [Clients -> [ids : SUBSET Ids, got : DataSets]]

Init ==
    /\ LockInit
    /\ ClientInit
    /\ table = [i \in Ids |-> Missing]
    /\ work = NoWork
    /\ reading = [c \in Clients |-> NoReading]

-----------------------------------------------------------------------------
\* The callers.  A read in a transaction looks up what its private table lacks,
\* or knows that there is nothing when the transaction has cleared the store.
GetInside(c, ids) ==
    LET missing == MissingIds(buffer[c], ids) IN
    /\ At(c, "body")
    /\ ids \subseteq Touchable(txKey[c])
    /\ missing # {}
    /\ IF buffer[c].cleared
       THEN /\ buffer' = [buffer EXCEPT ![c] = CacheFetched(@, missing, NoData)]
            /\ UNCHANGED <<pc, reading>>
       ELSE /\ pc' = [pc EXCEPT ![c] = "fetching"]
            /\ reading' = [reading EXCEPT ![c] = [ids |-> missing, got |-> NoData]]
            /\ UNCHANGED buffer
    /\ UNCHANGED <<lockVars, alive, txKey, inbox, calls, table, work>>

With(f, i, value) == [j \in DOMAIN f \union {i} |-> IF j = i THEN value ELSE f[j]]

ReadRow(c, i) ==
    /\ At(c, "fetching")
    /\ i \in reading[c].ids
    /\ reading' = [reading EXCEPT ![c] = [ids |-> @.ids \ {i},
                                          got |-> With(@.got, i, table[i])]]
    /\ UNCHANGED <<lockVars, alive, clientVars, table, work>>

HaveRead(c) ==
    LET got == reading[c].got IN
    /\ At(c, "fetching")
    /\ reading[c].ids = {}
    /\ buffer' = [buffer EXCEPT ![c] = CacheFetched(@, DOMAIN got, got)]
    /\ pc' = [pc EXCEPT ![c] = "body"]
    /\ reading' = [reading EXCEPT ![c] = NoReading]
    /\ UNCHANGED <<lockVars, alive, txKey, inbox, calls, table, work>>

\* commit/1: a transaction that changed nothing does not ask the server; it goes
\* to the `after` block as one that raises does.
NothingToCommit(c) == ~buffer[c].cleared /\ DOMAIN MutationData(buffer[c]) = {}

Commit(c) ==
    \/ NothingToCommit(c) /\ Raise(c) /\ UNCHANGED storeVars
    \/ ~NothingToCommit(c) /\ SendCommit(c) /\ UNCHANGED storeVars

Unlock(c) == End(c) /\ UNCHANGED storeVars

Reading(c) == HaveRead(c) \/ \E i \in Ids : ReadRow(c, i)

Caller(c) ==
    \/ \E k \in LockKeys : Begin(c, k) /\ UNCHANGED storeVars
    \/ \E ids \in ReadSets : GetInside(c, ids)
    \/ \E i \in Ids, value \in Entries : Put(c, i, value) /\ UNCHANGED storeVars
    \/ \E data \in PlainSets : PlainCall(c, [op |-> "set", data |-> data]) /\ UNCHANGED storeVars
    \/ Raise(c) /\ UNCHANGED storeVars
    \/ /\ Die(c)
       /\ reading' = [reading EXCEPT ![c] = NoReading]
       /\ UNCHANGED <<table, work>>

Clearing(c) ==
    \/ PlainCall(c, [op |-> "clear"]) /\ UNCHANGED storeVars
    \/ buffer[c] # ClearBuffer /\ ClearInside(c) /\ UNCHANGED storeVars

-----------------------------------------------------------------------------
\* The server is in one handle_call at a time.
Idle == work = NoWork

ServeLock(c)   == Idle /\ HandleLock(c) /\ UNCHANGED storeVars
ServeUnlock(c) == Idle /\ HandleUnlock(c) /\ UNCHANGED storeVars

\* set, clear and commit_tx: delete_all_objects is atomic, persist_entries is not.
Serve(c, op, data, clear) ==
    /\ Idle
    /\ Received(c, op)
    /\ table' = IF clear THEN [i \in Ids |-> Missing] ELSE table
    /\ work' = [from |-> c, writes |-> data]
    /\ Consumed(c)
    /\ UNCHANGED <<lockVars, alive, pc, txKey, buffer, calls, reading>>

\* Mutant of ServeCommit: the clear of a transaction is forgotten.
ServeCommitKept(c) == Serve(c, "commit", inbox[c].data, FALSE)

ServeSet(c)    == Serve(c, "set", inbox[c].data, FALSE)
ServeClear(c)  == Serve(c, "clear", NoData, TRUE)
ServeCommit(c) == Serve(c, "commit", inbox[c].data, inbox[c].clear)

\* persist_entries: one row.
WriteRow(i) ==
    /\ i \in DOMAIN work.writes
    /\ table' = [table EXCEPT ![i] = work.writes[i]]
    /\ work' = [work EXCEPT !.writes = [j \in DOMAIN @ \ {i} |-> @[j]]]
    /\ UNCHANGED <<lockVars, alive, clientVars, reading>>

Reply ==
    /\ work.from # None /\ DOMAIN work.writes = {}
    /\ work' = NoWork
    /\ Answer({work.from}, {}, {}, {})
    /\ UNCHANGED <<lockVars, alive, txKey, buffer, inbox, calls, table, reading>>

ServeDown(r) ==
    /\ Idle
    /\ DownArrived(r)
    /\ Release(Known({r}))
    /\ Answer({}, {}, PromotedBy(Known({r})), {})
    /\ UNCHANGED <<alive, txKey, buffer, inbox, calls, storeVars>>

-----------------------------------------------------------------------------
Callers == \E c \in Clients :
    \/ Caller(c) \/ Reading(c) \/ Commit(c) \/ Unlock(c)
    \/ MayClear /\ Clearing(c)

Serving(c) ==
    ServeLock(c) \/ ServeUnlock(c) \/ ServeSet(c) \/ ServeClear(c) \/ ServeCommit(c)

Server ==
    \/ \E c \in Clients : Serving(c)
    \/ Reply \/ \E i \in Ids : WriteRow(i)
    \/ \E r \in downs : ServeDown(r)

\* Everybody alive has used up MaxCalls, and nothing is under way.
Rest ==
    /\ \A c \in alive : pc[c] = "idle" /\ calls[c] = MaxCalls
    /\ \A c \in Clients : inbox[c] = NoRequest
    /\ Idle /\ downs = {}
    /\ UNCHANGED vars

Next == Callers \/ Server \/ Rest

Spec == Init /\ [][Next]_vars

-----------------------------------------------------------------------------
\* The rows under way count as written: from the step that takes a request on,
\* the server does nothing else until they are.
Contents ==
    [i \in Ids |-> IF i \in DOMAIN work.writes THEN work.writes[i] ELSE table[i]]

Submitted == [c \in Clients |->
    [data  |-> IF inbox[c].op \in {"set", "commit"} THEN inbox[c].data ELSE NoData,
     clear |-> IF inbox[c].op = "clear" THEN TRUE
               ELSE IF inbox[c].op = "commit" THEN inbox[c].clear ELSE FALSE]]

Serial == INSTANCE SerialStore WITH holder <- owner, pending <- Submitted,
                                    contents <- Contents

\* Transactions are applied whole, one after the other on each key, by the
\* process that holds the key, and the key waits for them.
ImplementsSerial == Serial!Spec
=============================================================================
