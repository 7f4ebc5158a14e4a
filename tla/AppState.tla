------------------------------ MODULE AppState ------------------------------
(***************************************************************************)
(* feature/app_state.ex: collections of settings that an account's devices  *)
(* keep in step through patches on the server.  resync_app_state and        *)
(* app_patch each run in one transaction on the account's key, so there is  *)
(* one task at a time; the transaction keeps its writes and what it has     *)
(* failed to read until its end.  Other devices patch, keys come in late,   *)
(* queries fail and the task may be killed at any moment.                   *)
(***************************************************************************)
EXTENDS Syncd

CONSTANTS
    Collections, Indexes, Keys,
    OwnOperations,      \* "set", "remove": what app_patch is called with
    MayFail,            \* whether a query may fail
    Validate,           \* validate_snapshot_macs and validate_patch_macs
    PageSize,           \* the server's: patches in an answer
    MaxAttempts,        \* @max_sync_attempts
    MaxBroken           \* bound: broken mutations (and of patches: Macs)

ASSUME AppStateAssumption ==
    /\ OwnOperations \subseteq {"set", "remove"}
    /\ {MayFail, Validate} \subseteq BOOLEAN
    /\ {PageSize, MaxAttempts} \subseteq Nat \ {0}
    /\ MaxBroken \in Nat
    /\ None \notin [version : Nat, hash : Hashes, map : UNION {[d -> Macs] : d \in SUBSET Indexes}]

VARIABLES
    server,         \* server[c]: the patches it has accepted
    keys,           \* app-state-sync-key, and my_app_state_key_id
    stored,         \* stored[c]: app-state-sync-version, or None
    task,           \* the transaction that is running
    shown           \* the mutations emitted as events

vars == <<server, keys, stored, task, shown>>

Idle == [phase |-> "idle"]

Init ==
    /\ server = [c \in Collections |-> <<>>]
    /\ keys = [held |-> {}, mine |-> None]
    /\ stored = [c \in Collections |-> None]
    /\ task = Idle
    /\ shown = {}

-----------------------------------------------------------------------------
(* The server, and the devices that are not this one. *)

LastAt(c, i, v) ==
    LET at == {n \in 1..v : server[c][n].index = i}
    IN  IF at = {} THEN 0 ELSE CHOOSE n \in at : \A k \in at : k <= n

\* What the first v patches of c amount to.
TrueMap(c, v) ==
    [i \in {j \in Indexes : LastAt(c, j, v) > 0 /\ server[c][LastAt(c, j, v)].op = "set"} |->
        server[c][LastAt(c, i, v)].mac]

HashOf(map) == SubtractThenAdd(ZeroHash, <<>>, SetToSeq({map[i] : i \in DOMAIN map}))

Accepted == UNION {{server[c][n] : n \in DOMAIN server[c]} : c \in Collections}

\* The next MAC: every patch has one mutation.
NextMac == Cardinality(Accepted) + 1

Claimed(c, m) ==
    LET map == TrueMap(c, Len(server[c]))
    IN  IF m.op = "set" THEN Put(map, m.index, m.mac) ELSE Without(map, m.index)

\* A mutation as the server keeps it, with the hash claimed and whose it is.
Patch(m, claim, own) ==
    [op |-> m.op, index |-> m.index, mac |-> m.mac, key |-> m.key, broken |-> m.broken,
     claim |-> claim, own |-> own]

\* Another device patches, which never misses a patch.
OtherPatch(c) ==
    \E op \in {"set", "remove"}, i \in Indexes, k \in Keys, broken \in {"no", "record", "index"} :
        LET m == [op |-> op, index |-> i, mac |-> NextMac, key |-> k, broken |-> broken]
        IN  /\ NextMac \in Macs
            /\ broken # "no" => /\ op = "set"
                                /\ Cardinality({p \in Accepted : p.broken # "no"}) < MaxBroken
            /\ server' = [server EXCEPT ![c] = Append(@, Patch(m, HashOf(Claimed(c, m)), FALSE))]
            /\ UNCHANGED <<keys, stored, task, shown>>

\* handle_app_state_sync_key_share/2: outside the transactions.
KeyShare(k) ==
    /\ k \notin keys.held
    /\ keys' = [held |-> keys.held \union {k}, mine |-> k]
    /\ UNCHANGED <<server, stored, task, shown>>

-----------------------------------------------------------------------------
(* A task begins. *)

Started(remaining, own) ==
    [phase |-> "syncing", remaining |-> remaining, own |-> own,
     attempts |-> [c \in Collections |-> 0],
     minimum  |-> [c \in Collections |-> None],     \* initial_version_map
     forced   |-> {},                               \* force_snapshot_collections
     answers  |-> <<>>,                             \* what is still to be read
     states   |-> stored,                           \* the transaction's view
     absent   |-> {},                               \* keys it has not found
     events   |-> [c \in Collections |-> <<>>]]

\* resync_app_state/4
Resync(collections) ==
    /\ task = Idle
    /\ task' = Started(collections, None)
    /\ UNCHANGED <<server, keys, stored, shown>>

\* app_patch/4
AppPatch(c, i, op) ==
    /\ task = Idle
    /\ keys.mine # None
    /\ task' = Started({c}, [collection |-> c, index |-> i, op |-> op, key |-> keys.mine])
    /\ UNCHANGED <<server, keys, stored, shown>>

-----------------------------------------------------------------------------
(* One pass of do_resync_loop/3. *)

Visible == keys.held \ task.absent

StateOf(c) == IF task.states[c] = None THEN NewState ELSE task.states[c]

\* build_resync_request/4
MinimumOf(c) ==
    IF task.states[c] # None /\ task.minimum[c] = None THEN task.states[c].version
    ELSE task.minimum[c]

WantsSnapshot(c) == c \in task.forced \/ StateOf(c).version = 0

\* The server's answers: a snapshot of some version where one is asked for,
\* a page of the patches that follow; or the collection is left out.
Answers(c) ==
    LET from == IF WantsSnapshot(c) /\ server[c] # <<>> THEN DOMAIN server[c] ELSE {StateOf(c).version}
    IN  {[snapshot |-> WantsSnapshot(c) /\ server[c] # <<>>, after |-> v,
          upto |-> IF v + PageSize < Len(server[c]) THEN v + PageSize ELSE Len(server[c]),
          more |-> v + PageSize < Len(server[c])] : v \in from}

\* A snapshot has what the patches up to it have set last.
Records(c, v) ==
    LET Kept(n) == server[c][n].op = "set" /\ LastAt(c, server[c][n].index, v) = n
    IN  FoldLeft(LAMBDA records, n : IF Kept(n) THEN Append(records, server[c][n]) ELSE records,
                 <<>>, [n \in 1..v |-> n])

Patches(c, answer) ==
    [n \in 1..(answer.upto - answer.after) |->
        [version |-> answer.after + n, claim |-> server[c][answer.after + n].claim,
         mutations |-> <<server[c][answer.after + n]>>]]

\* The request goes out and is answered, for some of the collections in it.
AnswerSets(collections) ==
    {f \in [collections -> UNION {Answers(c) : c \in collections}] :
        \A c \in collections : f[c] \in Answers(c)}

Query(collections) ==
    /\ task.phase = "syncing"
    /\ task.answers = <<>>
    /\ collections \subseteq task.remaining
    /\ \E answers \in AnswerSets(collections) :
          task' = [task EXCEPT !.answers = answers, !.forced = {},
                               !.minimum = [c \in Collections |->
                                   IF c \in task.remaining THEN MinimumOf(c) ELSE @[c]]]
    /\ UNCHANGED <<server, keys, stored, shown>>

\* maybe_decode_snapshot/5
SnapshotRead(c, answer) ==
    IF answer.snapshot
    THEN DecodeSnapshot([version |-> answer.after, records |-> Records(c, answer.after)],
                        task.minimum[c], Visible)
    ELSE [status |-> "ok", key |-> None, state |-> StateOf(c), events |-> <<>>]

\* maybe_decode_patches/5
PatchesRead(c, answer, snapshot) ==
    IF snapshot.status # "ok" \/ answer.upto = answer.after THEN snapshot
    ELSE LET patches == DecodePatches(Patches(c, answer), snapshot.state, task.minimum[c], Visible,
                                      Validate)
         IN  [patches EXCEPT !.events = snapshot.events \o @]

SucceedPrepending(c, answer, read) ==
    [task EXCEPT
        !.remaining  = IF answer.more THEN @ ELSE @ \ {c},
        !.states[c]  = IF answer.snapshot \/ answer.upto > answer.after THEN read.state ELSE @,
        !.minimum[c] = IF answer.upto > answer.after THEN read.state.version ELSE @,
        !.events[c]  = read.events \o @]

\* process_single_collection/5, where nothing fails: what is read is put if
\* there was anything to read.
Succeed(c, answer, read) ==
    [task EXCEPT
        !.remaining  = IF answer.more THEN @ ELSE @ \ {c},
        !.states[c]  = IF answer.snapshot \/ answer.upto > answer.after THEN read.state ELSE @,
        !.minimum[c] = IF answer.upto > answer.after THEN read.state.version ELSE @,
        !.events[c]  = @ \o read.events]

GivenUpNever(attempts) == FALSE

GivenUp(attempts) == attempts >= MaxAttempts

\* handle_collection_failure/4: blocked and irrecoverable collections are
\* given up, others tried again, with a snapshot; a snapshot that was read
\* has been put.
Fail(c, answer, snapshot, read) ==
    LET up == GivenUp(task.attempts[c] + 1)
    IN  [task EXCEPT
            !.attempts[c] = @ + 1,
            !.remaining   = IF up THEN @ \ {c} ELSE @,
            !.forced      = IF up THEN @ ELSE @ \union {c},
            !.states[c]   = IF answer.snapshot /\ snapshot.status = "ok" THEN snapshot.state ELSE @,
            !.absent      = IF read.status = "missing" THEN @ \union {read.key} ELSE @]

\* process_collections/5, for one of them.
Read(c) ==
    /\ task.phase = "syncing"
    /\ c \in DOMAIN task.answers
    /\ LET answer   == task.answers[c]
           snapshot == SnapshotRead(c, answer)
           read     == PatchesRead(c, answer, snapshot)
           result   == IF read.status \in {"ok", "stop"} THEN Succeed(c, answer, read)
                       ELSE Fail(c, answer, snapshot, read)
       IN  task' = [result EXCEPT !.answers = [d \in DOMAIN @ \ {c} |-> @[d]]]
    /\ UNCHANGED <<server, keys, stored, shown>>

-----------------------------------------------------------------------------
(* The end of the loop, and the patch. *)

Mutations(events) == {events[n] : n \in DOMAIN events}

\* emit_mutation_map/5
Emit ==
    /\ task.phase = "syncing"
    /\ task.remaining = {} /\ task.answers = <<>>
    /\ shown' = shown \union UNION {Mutations(task.events[c]) : c \in Collections}
    /\ task' = [task EXCEPT !.phase = IF task.own = None THEN "done" ELSE "patching"]
    /\ UNCHANGED <<server, keys, stored>>

OwnMutation(own) ==
    [op |-> own.op, index |-> own.index, mac |-> NextMac, key |-> own.key, broken |-> "no"]

\* The patch reaches the server, which takes it if it follows its last one.
Upload ==
    LET c == task.own.collection
        m == OwnMutation(task.own)
        encoded == Encoded(StateOf(c), m)
        p == Patch(m, encoded.hash, TRUE)
    IN  /\ task.phase = "patching"
        /\ IF encoded.version = Len(server[c]) + 1
           THEN /\ NextMac \in Macs
                /\ server' = [server EXCEPT ![c] = Append(@, p)]
                /\ task' = [phase |-> "accepted", own |-> task.own, patch |-> p,
                            states |-> task.states, encoded |-> encoded]
           ELSE /\ task' = [phase |-> "done", states |-> task.states]
                /\ UNCHANGED server
        /\ UNCHANGED <<keys, stored, shown>>

\* maybe_emit_own_patch_events/2: what decoding the patch gives is emitted.
Acknowledge ==
    LET c == task.own.collection
        patch == [version |-> task.encoded.version, claim |-> task.patch.claim,
                  mutations |-> <<task.patch>>]
        initial == StateOf(c)
    IN  /\ task.phase = "accepted"
        /\ shown' = shown \union
               Mutations(DecodePatches(<<patch>>, initial, None, keys.held, TRUE).events)
        /\ task' = [phase |-> "done", states |-> [task.states EXCEPT ![c] = task.encoded]]
        /\ UNCHANGED <<server, keys, stored>>

\* A query fails or its answer is lost: the function returns an error, and the
\* transaction commits nevertheless.
QueryFails ==
    /\ MayFail
    /\ \/ task.phase = "syncing" /\ task.remaining # {} /\ task.answers = <<>>
       \/ task.phase \in {"patching", "accepted"}
    /\ task' = [phase |-> "done", states |-> task.states]
    /\ UNCHANGED <<server, keys, stored, shown>>

Commit ==
    /\ task.phase = "done"
    /\ stored' = task.states
    /\ task' = Idle
    /\ UNCHANGED <<server, keys, shown>>

\* The task dies, and its transaction with it.
Killed ==
    /\ task # Idle
    /\ task' = Idle
    /\ UNCHANGED <<server, keys, stored, shown>>

Next ==
    \/ \E c \in Collections : OtherPatch(c)
    \/ \E k \in Keys : KeyShare(k)
    \/ \E collections \in SUBSET Collections \ {{}} : Resync(collections)
    \/ \E c \in Collections, i \in Indexes, op \in OwnOperations : AppPatch(c, i, op)
    \/ \E collections \in SUBSET Collections : Query(collections)
    \/ \E c \in Collections : Read(c)
    \/ Emit \/ Upload \/ Acknowledge \/ QueryFails \/ Commit \/ Killed

Spec == Init /\ [][Next]_vars

PatchType == [op : {"set", "remove"}, index : Indexes, mac : Macs, key : Keys,
              broken : {"no", "record", "index"}, claim : Hashes, own : BOOLEAN]

TypeOK ==
    /\ server \in [Collections -> Seq(PatchType)]
    /\ keys.held \subseteq Keys /\ keys.mine \in keys.held \union {None}
    /\ \A c \in Collections : stored[c] # None =>
          /\ stored[c].hash \in Hashes
          /\ DOMAIN stored[c].map \subseteq Indexes
          /\ stored[c].version \in 0..Len(server[c])
    /\ task.phase \in {"idle", "syncing", "patching", "accepted", "done"}
    /\ shown \subseteq Accepted

-----------------------------------------------------------------------------
(* What is stored. *)

\* Whether this device has removed an index with one of the first v patches.
Removed(c, v) == \E n \in 1..v : server[c][n].own /\ server[c][n].op = "remove"

(* The hash of a stored collection is that of the values in its map         *)
(* (lt_hash.ex: removing is the inverse of adding), whatever was replaced,  *)
(* removed, skipped or read again - until this device removes an index: the *)
(* hash loses the value, and the map gets one back (codec.ex:824).          *)
HashIsMap ==
    /\ TypeOK
    /\ \A c \in Collections : stored[c] # None /\ ~Removed(c, stored[c].version) =>
          stored[c].hash = HashOf(stored[c].map)

(* A collection stored at a version holds what the server's patches up to   *)
(* it amount to, by whatever snapshots and pages it got there, but for what *)
(* a broken mutation set or removed last, and for what this device removed  *)
(* last, which it keeps (codec.ex:824).                                     *)
StoredIsServer ==
    \A c \in Collections, i \in Indexes :
        stored[c] # None =>
            LET v == stored[c].version
                last == server[c][LastAt(c, i, v)]
                true == TrueMap(c, v)
            IN  \/ /\ LastAt(c, i, v) > 0
                   /\ last.broken # "no" \/ (last.own /\ last.op = "remove")
                \/ /\ i \in DOMAIN true <=> i \in DOMAIN stored[c].map
                   /\ i \in DOMAIN true => stored[c].map[i] = true[i]

(* A patch that this device uploads claims the hash that every other device *)
(* computes, so that those which verify it accept it, its first removal     *)
(* included.  What it uploads after a removal may be refused.               *)
OthersAccept ==
    \A c \in Collections : \A n \in DOMAIN server[c] :
        /\ server[c][n].own
        /\ \A k \in 1..n : server[c][k].broken = "no"
        /\ ~Removed(c, n - 1)
        => server[c][n].claim = HashOf(TrueMap(c, n))

-----------------------------------------------------------------------------
(* What is shown, and that there is an end. *)

(* As long as no reading of a collection has failed, a resync emits every   *)
(* mutation of it once, and none after a newer one of the same index, though *)
(* it reads a snapshot of any age and pages that verify or stop half way.    *)
EventsForward ==
    task.phase = "syncing" =>
        \A c \in Collections : task.attempts[c] = 0 =>
            \A n, k \in DOMAIN task.events[c] :
                n < k /\ task.events[c][n].index = task.events[c][k].index =>
                    task.events[c][n].mac < task.events[c][k].mac

(* What a collection holds has been shown to the application.               *)
StoredIsShown ==
    \A c \in Collections : stored[c] # None =>
        \A i \in DOMAIN stored[c].map : \E m \in shown : m.mac = stored[c].map[i]

(* Every resync ends, however many keys it lacks or mutations it cannot     *)
(* read: reading a collection finishes it, gets on in it, or uses up one of *)
(* its attempts - each of which may go back to an older snapshot once.      *)
ResyncEnds ==
    [][task.phase = "syncing" /\ task'.phase = "syncing" =>
          \A c \in (DOMAIN task.answers \ DOMAIN task'.answers) \intersect task'.remaining :
              \/ task.attempts[c] < task'.attempts[c] /\ task'.attempts[c] < MaxAttempts
              \/ task.attempts[c] = task'.attempts[c] /\
                    \/ task.answers[c].snapshot
                    \/ task'.states[c].version > StateOf(c).version
      ]_vars
=============================================================================
