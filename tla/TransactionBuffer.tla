------------------------- MODULE TransactionBuffer -------------------------
(***************************************************************************)
(* The private table behind a transaction handle                           *)
(* (lib/baileys_ex/signal/store/transaction_buffer.ex): what the           *)
(* transaction has read, what it wants to write, and whether it cleared.   *)
(* The code keeps one ETS table with three kinds of rows; here they are    *)
(* three fields.  The functions are pure: buffer in, buffer out.           *)
(***************************************************************************)
EXTENDS Naturals

CONSTANTS
    Ids,            \* the {type, id} pairs the store is asked about
    Values,         \* what can be stored under an id
    Missing,        \* the id is known to be absent; in a mutation: delete it
    NotCached       \* no row for this id

ASSUME MarkersAssumption ==
    /\ Missing \notin Values
    /\ NotCached \notin Values \union {Missing}

Entries == Values \union {Missing}
Rows    == Entries \union {NotCached}

\* A data set: the ids it mentions, mapped to a value or to Missing (nil).
DataSets == UNION {[S -> Entries] : S \in SUBSET Ids}
NoData   == [i \in {} |-> Missing]

NoRows == [i \in Ids |-> NotCached]
Present(rows) == {i \in DOMAIN rows : rows[i] # NotCached}

\* new/0
NewBuffer == [cache |-> NoRows, mutation |-> NoRows, cleared |-> FALSE]

\* clear/1: every row goes, the clear flag stays.
ClearBuffer == [cache |-> NoRows, mutation |-> NoRows, cleared |-> TRUE]

\* cached_entries/3: the ids the buffer cannot answer.
MissingIds(buffer, ids) == ids \ Present(buffer.cache)

\* cache_fetched/4: what the store returned, and Missing for what it did not.
CacheFetched(buffer, ids, fetched) ==
    [buffer EXCEPT !.cache = [i \in Ids |->
        IF i \notin ids THEN @[i]
        ELSE IF i \in DOMAIN fetched THEN fetched[i] ELSE Missing]]

\* put_entry/4: the write is visible to the transaction and remembered.
PutEntry(buffer, id, value) ==
    [buffer EXCEPT !.cache[id] = value, !.mutation[id] = value]

\* mutation_data/1
MutationData(buffer) == [i \in Present(buffer.mutation) |-> buffer.mutation[i]]

BufferType == [cache : [Ids -> Rows], mutation : [Ids -> Rows], cleared : BOOLEAN]
=============================================================================
