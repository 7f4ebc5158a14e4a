# Verification of BaileysEx

TLA+ models of BaileysEx (`lib/baileys_ex`, an Elixir client of WhatsApp Web), TLC configurations
that check them, and theorems that TLAPS proves. Every module is a translation of the code it names;
`PROJECT.json` maps each definition to the lines it models, each property to a mutation of the code
that breaks it, and each hazard to the properties that would catch it. Paths below are relative to
`lib/baileys_ex` (in the map: `src/lib/baileys_ex`), but for those that begin with `dev/` or `test/`.

## 1. The system

One connection is a `rest_for_one` supervisor (`connection/supervisor.ex`) of six children: event
emitter, connection store, signal store, task supervisor, socket, coordinator. Each is a process;
they share no memory but the ETS tables that the stores own and everybody may read.

| Component | State | Operations | Interacts with |
|---|---|---|---|
| Signal key store `auth/key_store.ex`, `signal/store/*` | lock table with queues and monitors, cache, known ids, one active operation, a bounded queue of operations | `get`, `set`, `clear`, `transaction`; persistence tasks; `:DOWN` of transaction owners | called by everything that touches Signal state; calls a persistence backend |
| Memory signal store `signal/store/memory.ex` | the same locks, one ETS table | the same, without a backend | as above, in tests and short-lived clients |
| Event emitter `connection/event_emitter.ex` | dispatch queue, tap and subscriber tasks, event buffer with two timers | `emit`, `process`, `tap`, `buffer`, `flush`, `seed` | everybody emits; the coordinator taps; users subscribe |
| Socket `connection/socket.ex` | gen_statem state, Noise state, pending queries, timers | connect, handshake, queries, keep-alive, pairing, post-authentication task | transport below, emitter and coordinator above |
| Coordinator `connection/coordinator.ex` | connection and sync state, send queue with one task, timers, pending events | connection updates, node dispatch, send, reconnect, initial sync, retry receipts | taps the emitter, drives socket, sender, receiver, app state |
| Connection store `connection/store.ex` | ETS table of runtime values and credentials | `get`, `put`, `merge_creds` | read and written by coordinator, retry, sender, receiver |
| Message retry `message/retry.ex` | maps kept in the connection store: retry counts, recent messages, phone requests, placeholder requests | count, exceed, schedule and cancel phone requests, placeholder resend and its expiry | runs in the send task and in timer tasks |
| Receive path `message/receiver.ex` and others | none of its own | decrypt, side effects, emit, receipt or ack | signal sessions, emitter, retry |
| Send path `message/sender.ex` and others | none of its own | devices, sessions, encrypt, relay | signal sessions, socket |
| Pre-keys `signal/prekey.ex` | ids in the credentials, keys in the signal store | upload, count check, rotation, keys for a retry receipt | store transactions, a `:global` lock, socket queries |
| Signal sessions `signal/session_cipher.ex` and others | the session record | encrypt, decrypt, ratchet, build | pure; run inside store transactions |
| Sender keys `signal/group/*` | the sender-key record | distribute, encrypt, decrypt | as above |
| Repository, LID mapping, devices `signal/repository.ex` and others | mappings in the signal store | migrate sessions, map, look up | store, usync queries |
| App state `feature/app_state.ex`, `syncd/*` | collection versions and hashes in the signal store | resync, patch, park a collection that lacks its key | store transactions, socket queries, emitter |
| File persistence `auth/*persistence*.ex` | a directory: one file per key, a manifest | load, save, delete, list, migrate | behind the key store |
| Offline queue `message/offline_queue.ex` | a queue of nodes | enqueue, drain in batches of ten | emitter's buffer |
| Noise `protocol/noise.ex`, `native/` | handshake state, counters, frame buffer | handshake, encrypt, decode | below the socket |
| Parity suite and bridge `test/support/parity`, `test/baileys_ex/parity` | payload files, runner processes | one call: write, run, read, remove | asks the reference runner, compares with the program |
| Reference runner `dev/tools/run_baileys_reference.mts` | none | some twenty operations on the reference library | started by the bridge, one process per call |
| Fixture generators `dev/tools`, `dev/scripts` | files | three scripts that read and write fixtures | tests replay the fixtures |

Features, media, encodings, protobufs, analytics and the facade keep no state across calls.

What is hard here: callers that are killed between two steps of a transaction; a persistence backend
that fails half way; events that meet full queues, dying tasks and a restarting task supervisor;
timers whose message is in the mailbox when they are cancelled; maps that several tasks read, change
and put back; results that arrive in the next connection; message keys that may be used once, in any
order; hashes that every device has to compute alike; fixtures that an interrupted script leaves half
written. `PROJECT.json` lists each of these hazards at its line.

What makes each component correct: transactions on a key exclude each other and commit whole or not
at all, and the cache never shows anything else (store); accepted events reach each subscriber once,
in order, after the taps (emitter); a request is answered or timed out, and nothing of one connection
acts in the next (socket, coordinator); a retry, a phone request, a placeholder is made at most once
and never blocks later ones (retry); an id names one pre-key (pre-keys); a message key decrypts once,
and messages out of order still decrypt (sessions, sender keys); what a device stores of a collection is
what the server's patches amount to (app state); what is saved is found again (files); the program
makes what the reference makes (parity).

## 2. Plan

Order and status (done: modelled, checked; proved where said):

1. `LockManager`, `TransactionBuffer`, `Transactions`, `KeyStore` - done, proved: types, mutual
   exclusion, commits that keep their locks, no leaked lock, no lost call, cache and backend show
   whole commits, reads that stay so.
2. `DeliveryLanes` (abstract), `EventEmitter` - done, and shown to implement the lanes; proved: types,
   every invariant the runs check, and that each step is a step of the lanes.
3. `SerialStore` (abstract), `MemoryStore` - done: both stores are shown, and proved, to implement
   `SerialStore`.
4. `SessionRecord`, `SessionCipher`, `SignalSessions` - done: chains, skipped keys, ratchet steps and
   records with symbolic keys; proved: types, and every property the run checks.
5. `SenderKeys`, `GroupSessions` - done; proved: types, and every property the run checks.
6. `LtHash`, `Syncd`, `AppState` - done; proved: the algebra of the hash, types, and every property the
   run checks.
7. `JsonNode`, `Jids`, `ReferenceRunner`, `ParityPeers`, `ParityCases`, `NodeBridge`, `SignalAddresses`,
   `SignalFixtures`, `FixturePipeline`, composed in `ParitySuite` - done; proved: the bridge.
8. `PreKeys` with the ways of the credentials between socket, store and coordinator - done; proved:
   types, and every property the run checks.
9. Next, in this order: message retry, socket and coordinator, file persistence, offline queue
   (section 11 says what reading them showed).

Abstract specifications: delivery lanes (2); a serial store that applies whole transactions one at a
time (3).

Theorems left: the fixtures and the suite's cases (section 9). They are concrete - scripts, cases and
messages without parameters but the number of new references - so TLC goes through all there is of them,
and `ParitySuite` reaches a recursive operator (`JsonNode`), about which nothing can be proved here.

## 3. The signal key store

### Correspondence

| Module | Code | State |
|---|---|---|
| `LockManager` | `signal/store/lock_manager.ex` | `owner`, `queue`: `locks`; `monitors`: `monitor_keys`; `downs`: `:DOWN` messages on their way; `alive`: who has not exited |
| `TransactionBuffer` | `signal/store/transaction_buffer.ex` | no variables: pure operators on the rows of a transaction's private table |
| `Transactions` | caller's side of `Signal.Store.transaction/3`, `get`, `set`, `clear` | `pc`, `txKey`, `buffer`, `inbox`: where each process is, its key, its private table, its one request under way |
| `KeyStore` | `auth/key_store.ex`: every handler, and the persistence task | `cache`, `known`, `active`, `operations`: fields of the server's state; `worker`: the task; `persisted`: the backend |

Each `handle_call` and `handle_info` is one action. `GenServer.call` is two: the request leaves
(`inbox`, and the caller waits), the server handles it; the answer reaches the caller in the step that
sends it. The persistence task is split at every persistence call, since it can fail or be killed
between any two. `StartNext` (skip what needs no work, start the next operation) is part of each
handler that calls it, as in the code. A process that is killed leaves the request it has sent; its
`:DOWN` comes after it, which is the order the runtime guarantees between two processes.

`committed`, `clean`, `spared`, `intruded` are history: the values of the commits applied so far;
whether no rollback has failed and no task has been killed while it wrote; the ids that a clear has left
in the backend; what was set or cleared from outside under a transaction. After a failure that ends
`clean` the code makes no attempt to reconcile cache and backend, so the data properties are stated for
`clean`.

A `set` or `clear` outside transactions takes no lock, and the callers do not keep away from what
transactions guard: `delete_sessions` and `migrate_sessions` (`signal/adapter/signal.ex:165`, `:175`; from
`signal/repository.ex` and `message/receiver.ex:700`, `:1365`) set rows of a session with a plain
`Store.set`, the second after a plain `get`, while transactions on `session:<address>` read and write
them. The runs have such sets (`PlainSets`) and clears, and the proofs restrict neither.

### Runs

| Run | Shows | Bounds |
|---|---|---|
| `keystore_commits` | `CacheIsCommitted`, `BackendIsCommitted`, `ReadsStillHold`, `NoLostCall`, `ImplementsSerial` (section 5) | two processes with one call each, two ids (a session that a key guards, a pre-key), sets and deletions in and outside transactions, plain sets that remove the pre-key, delete the session or write it, clears, a fault at any persistence call; an operation queue of one, so that calls are refused |
| `keystore_locks` | `MutualExclusion`, `CommitHoldsLock`, `NoLeakedLock`, `EveryCallAnswered` | two processes with two calls each on one key; two faults; an operation queue of two; two attempts; no plain sets or clears, which have no lock |

Two keys add nothing to the lock run: keys share no state but the operation queue, which one key
already fills. With two processes the queue of waiters holds one, who may die in it; that the lock
properties hold behind longer queues is proved (below). `EveryCallAnswered` is only
checked. Symmetry is used over processes in the run without liveness. One call of each process is enough
for a set, a deletion or a clear to fall into another's transaction.

Two properties have an exception that the code makes necessary, and say what is within it:

- `clear/1` deletes the ids in `known_ids`, which starts empty when the store starts, while its docs
  say "Clears all persisted Signal keys." and "Clears all keys from persistence." (`auth/key_store.ex:83`,
  `:243`): a key that an earlier run of the program persisted, and this one has not touched, survives and
  is read back. `Init` starts from any persisted contents. `committed` is what the docs say (after a clear
  everything is missing), and the ids that the code leaves behind are `spared` until they are written
  again. `CacheIsCommitted`, `BackendIsCommitted` and `ReadsStillHold` hold for all others, and are
  violated without the exception.
- What a transaction has read still holds when it commits (`ReadsStillHold`) but for ids that somebody
  set or cleared from outside in between (`intruded`): the lost update of a session that is deleted or
  migrated under a transaction. It is the only one: without the exception the property is violated, with
  it no other interleaving undoes a read.

`TypeOK` is proved and not run.

Fairness (`FairSpec`): the runtime schedules the server, tasks end, timers fire, and a transaction's
function returns. Nobody is obliged to start a call, raise or die, and persistence may fail.

### Proofs

`TransactionsProofs` and `KeyStoreProofs`, for any sets of processes, keys, ids and values, any bounds,
under the assumptions the modules name (markers differ from values; keys differ from "none"; bounds are
natural numbers).

- `TypeCorrect`: `Spec => []TypeOK`.
- `LocksAgree`: `Spec => []Locking`.
- `TransactionsExclude`: `Spec => []MutualExclusion`.
- `CommitsHoldTheirLocks`: `Spec => []CommitHoldsLock`; `NoLockLeaks`: `Spec => []NoLeakedLock`.
- `NoCallIsLost`: `Spec => []NoLostCall`.
- `CacheShowsCommits`: `Spec => []CacheIsCommitted`; `CommitsAreAtomic`: `Spec => []BackendIsCommitted`.
- `ReadsHold`: `Spec => []ReadsStillHold`; `StoreImplements`: `Spec => ImplementsSerial`.

`MutualExclusion` is not inductive: it speaks of where processes are and not of the lock table. It
follows from `OwnerHolds` (who is in a transaction owns its key), which is kept only if what promotes
a waiter promotes one that waits for that key (`WaitersWait`), if an unlock comes only from an owner
that is leaving (`LockRequests`), and if what releases a lock for a dead owner names only dead
processes (`DownsAreDead`, and `CarriedAreDead` for the references that commits carry in their
`down` field). `Locking` is the conjunction. The lemmas on `LockManager` and `Transactions` prove it
for each fragment (acquire, enqueue, release, exit, answer); the steps of `KeyStore` are then cases
that cite them.

`CommitHoldsLock` and `NoLeakedLock` need `Holding` on top of `Locking`: each key's owner has a monitor
and stands where it may own it (`TableAgrees`), requests are from processes that wait for their answer
(`AsksInTurn`), what the server holds is for a process that waits for it and carries references of its
own transaction only (`AllPlaced`), nobody has two operations there (`OneEach`), and a task works
only while there is an active operation (`WorkerBusy`). A `:DOWN` that finds a commit of the dead
owner marks it; `OneEach` is what makes it the right one, and that ending it gives the lock up.

The data properties need `Atomic`: what the task has done so far is told by what it still has to do. While it
writes, the ids done have the planned values and the others the committed ones; while it restores, the
ids still to be restored are in its writes with the committed values; after either the backend is whole
(`TaskAgrees`). The cache changes only when a task has ended, by the plan that was written. All for as long
as `clean` holds.

`ReadsHold` needs `Reading`: what a transaction asks for and what the server holds for it touches ids of
its own key or of none (`RequestsTouch`, `OperationsTouch`), so a commit that completes under another key
changes nothing that a transaction has read (`ReadsAgree`); one that completes under no key is noted in
`intruded`.

`StoreImplements` maps `pending` to what the server holds or has in a mailbox. `Pending` says that this
is one thing for each process (from `OneEach` and `AllPlaced`). `PlanMakes` says that what
`prepare_commit_data` leaves out of a plan changes nothing. A caller's step submits or shows nothing; a
handler that queues an operation shows nothing, one that finds the queue full settles it;
`CompleteCommit` applies it whole; a failure without retries left drops it; `:DOWN` and the end of an
operation hand keys over, and only those of processes with nothing pending (`StartNextShows`,
`DownRefines`).

`NoCallIsLost` (`Spec => []NoLostCall`) counts what is under way for each process. `Locking` and
`Holding` say that there is never more than one thing: who stands in a queue has nothing in the mailbox,
who has an operation has it once and waits for data. That there is one needs `Awaited` (a live process
that waits has its request in the mailbox, in its key's queue or among the operations), which is kept
because every handler answers what it takes out of a queue (`QueueMoves`, `MovesUp`, `AnsweredOrAwaits`).

Model-checked only: liveness (fairness is outside what TLAPS does).

Left out: transactions nested through the plain handle (no caller does), telemetry, the forms of
values.

## 4. The event emitter

### Correspondence

`EventEmitter` is `connection/event_emitter.ex`. The dispatcher's part of the server state is the
record `d`, because the code passes it through a chain of functions in each handler and the model does
the same: `Enqueued` is `enqueue_dispatch`, `StartDispatches` is `maybe_start_dispatches`, and so on.
The recursion of `maybe_dispatch_next` over entries without taps is a fold over the entries it
releases. The buffer's part is `buffering`, `bufferCount`, `buffered`, `timer`, `message`.

An event is the number of its emission, a delivery the sequence of the events in one map. `timer` holds
what the server believes (`nil`, or a reference to a timer that is armed, or to one that has fired or
was cancelled: `spent`); `message` says that the timer's message is in the mailbox, where it stays when
the timer is cancelled. A refused `emit` or `flush` keeps the old state, but cancels timers all the
same: that is `Cancelled`.

A task is one step, or a death before its end; taps may or may not have been called by a task that
died, subscribers' handlers may have been started. Exceptions in handlers are caught by the task and are
not a death. `handled` and `seen` are history: finished deliveries, events that a tap was called with.

`DeliveryLanes` is the abstract specification: a FIFO lane per subscriber. The refinement maps a lane
to the delivery being handled, the subscriber's queue, and the deliveries of the entries that still
wait for taps, in that order.

### Runs

| Run | Shows | Bounds |
|---|---|---|
| `emitter_buffer` | `TapsFirst`, `RefusedIsForgotten`, `AcceptedAreKept` | all kinds, a dispatch queue of one, so that emissions and flushes are refused |
| `emitter_lanes` | `Bounded` (with the types), `Reservations`, `DeliversInLanes` with the lanes' fairness | two subscribers that leave, a tap that comes and goes, three emissions into queues of two, one death or restart |
| `emitter_stuck` | `BufferingEnds` is violated | upserts of two types |

Two emissions are enough for a boundary between types, three to find a queue full behind a running
task. Buffering ends by itself as long as upserts keep their type and no flush is refused. Otherwise it
need not: in `emitter_stuck`, `flush_buffer(state, :keep)` sets `buffering?` before it calls
`ensure_buffering/1`, which then does nothing, so both timers are gone while buffering goes on. The plan
document says "Auto-flush timer prevents stuck buffers."

`AcceptedAreKept` has an exception. `chats_update` and `messages_upsert` accumulate; for each of the ten
other bufferable kinds `Map.put` (line 342) replaces the event of the kind buffered before, which was
accepted with `:ok`, while `dev/implementation_plan/06-connection.md` says that events are accumulated and
flushed together. The run emits such events (`plain`), and the property names the loss: an event that a
later one of its kind has replaced (`Replaced`). All else is kept: of several plain events the last, and
every event of any other kind, by whatever order of emissions, flushes, refusals and timers. Two
emissions are what it takes to replace one.

Fairness: handlers return, timers fire, the server handles its mailbox, the supervisor restarts the
task supervisor, buffered functions end. Nobody has to emit, flush or seed.

### Proofs

`EventEmitterProofs` proves, for any subscribers, taps, kinds of events, `max_dispatch_queue`, and any
number of emissions, buffered functions and faults:

| Theorem | Of | |
|---|---|---|
| `TypeCorrect`, `QueuesAreBounded` | `TypeOK`, `Bounded` | |
| `ReservationsAreExact` | `Reservations` | |
| `TapsComeFirst` | `TapsFirst` | |
| `RefusalsLeaveNothing` | `RefusedIsForgotten` | |
| `NothingIsLost` | `AcceptedAreKept` | |
| `DeliversSafely` | `DeliversInLanes` without its fairness | the initial state and every step |

All rest on one inductive invariant, `Inv`, which TLC checked on the instances of both runs before it
was proved. Its parts:

- `SubscriberSound`, `TapSound`: the records against the entries that are on their way. `reserved` is
  what they hold back, `pending` how many there are, a subscriber not registered has nothing, one that
  is leaving still has something, nobody is in an entry before having subscribed.
- `EntriesSound`: every accepted event has been seen by each tap registered then, or is in an entry that
  will call it - and, for what an entry holds back from subscribers, in that entry or an earlier one.
  This is what makes `TapsFirst` inductive: an entry is released when its own taps have been called
  (`TaskSound`), and those before it have been released already.
- `LanesSound`, `SeenSound`: what subscribers have was seen by all taps; taps see accepted events only.
- `BufferSound`, `NoneLost`: the buffer and `posted` hold only accepted events, and all of them but for
  plain ones that a later one follows (`ReplacedIn`).
- `HandledSound`: nobody has handled anything before subscribing, as a lane opens empty.

`LaneStep` is what each action is shown to do: keep `Inv`, and take a step of the lanes or leave them
unchanged. Most actions are the latter (`Quiet`): tasks, deaths, restarts and retries do not show.

The dispatcher works on lists, and `FoldLeft` is recursive underneath (`MapThenFoldSet`). The first part
of the module says what such a fold is, one element at a time (`ReleasesInTurn`, `GatesInTurn`,
`ChoosesInTurn`). The induction they need is `Induct`, on sets of numbers: the library's theorems take a
predicate as a parameter, but that a set closed under successor holds every number follows from finite
cardinalities (a counterexample `n` would give a finite set a proper subset as large as itself).

Only model-checked: that lanes are worked off (`DeliversInLanes` with the fairness of `Handle`), and
`BufferingEnds`, which are liveness.

Not modelled: the facade's lookup of server and task supervisor, logging.

## 5. The in-memory store, and what both stores promise

### Correspondence

`MemoryStore` is `signal/store/memory.ex`; it shares `LockManager`, `TransactionBuffer` and the caller's
part in `Transactions` with `KeyStore`, as the code does. What differs is modelled here: processes read
the ETS table themselves, one `:ets.lookup` at a time (`ReadRow`), while the server writes it, one
`:ets.insert` or `:ets.delete` at a time (`WriteRow`); `delete_all_objects` is atomic. `work` is the
`handle_call` the server is in. An empty commit does not ask the server, and a read in a transaction
that has cleared the store does not look at the table. A plain `get` changes nothing and promises
nothing about several ids; it is left out.

`SerialStore` is the promise: what a process submits is applied whole or dropped; a transaction's
mutations are submitted by the process that holds the key, touch only ids of that key and of none
(`GuardKey`: a session's ids under the session's key), and the key changes hands only when its holder has
nothing pending. A `set` or `clear` of a process that is in no transaction may touch any id, as callers do
(section 3).

`MemoryStore` implements it with rows under way counted as written (`Contents`): from the step that
takes a commit on, the server does nothing else until all rows are there, and whoever reads the rows in
a transaction holds another key. `KeyStore` implements it with the history `committed` as contents, for
as long as it is `clean` (proved in section 3).

### Runs

| Run | Shows | Bounds |
|---|---|---|
| `memory` | `ImplementsSerial` | three processes on one key, one call each, transactions that read two rows, plain sets of a row that the key guards and one of no key, clears inside and outside transactions, deaths at any point |

That every call returns is checked for `KeyStore`, which shares the lock manager.

### Proofs

`MemoryStoreProofs`: types (`TypeCorrect`), the lock invariant from the lemmas of `TransactionsProofs`
(`LocksAgree`), `TransactionsExclude`, and the refinement `Implements`, for any processes, keys, ids and
values, whatever is set and cleared outside transactions. The refinement rests on two invariants.
`Refining` adds to the locks that a request in a mailbox is the one its sender waits for, that the server
works for somebody who waits or is dead, and that a private table holds mutations only of ids of its key.
`Owning` says where a key's owner is: in the transaction that it began on that key, or dead; so who sets
from outside owns none, which is what lets it touch any id. The steps of the proof: a caller's step
submits or shows nothing; the server's first step on a request settles it; row writes and replies show
nothing; lock, unlock and `:DOWN` hand keys over.

## 6. Sessions

### Correspondence

| Module | Code | State |
|---|---|---|
| `SessionRecord` | `signal/session_record.ex` | no variables: a record is a function from base keys to sessions |
| `SessionCipher` | `signal/session_cipher.ex`, `signal/session_builder.ex` | no variables: a session is a record with the fields of the code |
| `SignalSessions` | `signal/adapter/signal.ex`, the one-to-one callbacks, at both ends of a conversation; `signal/identity.ex` | `record`: the stored session record; `identity`: the stored identity; `preKeys`: the stored one-time pre-keys |

A callback is one transaction on the peer's session key, hence one action: sections 3 and 5 say why
transactions on one record do not interleave. `delete_sessions` is the exception, a plain set of the
record, which may fall into a transaction on it. `Delete` has both outcomes. If the transaction writes the
record it commits over the deletion, and there is none (the record stays what it was, and the
transaction's step follows); if it writes nothing, it may as well have been before. `migrate_sessions`
(`signal/adapter/signal.ex:175`), a plain get and a plain set of records at two addresses of one peer,
is not modelled. `Establish` is `inject_e2e_session` with a bundle from the
server, `Encrypt` and `Receive` are `encrypt_message` and `decrypt_message` (both types), `Delete` is
`delete_sessions`.

Keys are symbolic. A Diffie-Hellman secret is the set of its two keys, a root key the sequence of the
secrets mixed into it, a chain key that of the root key it came with, a message key the chain's at a
number. A MAC verifies under the same message key and no other. So the model tells exactly whether both
ends arrive at the same keys, which is what can go wrong, and nothing about the primitives. In a session
the fields `root`, `ephemeral`, `remote` and `previous` are those of `current_ratchet`; `closed` and
`pending` are `index_info.closed` and `pending_pre_key`; in a chain `key` and `counter` are `chain_key`,
`live` says whether `chain_key.key` is there, `kept` is the domain of `message_keys`.

External: the network (a message that was sent may arrive any number of times, at any time, or never);
the server, which hands each one-time pre-key out once; a device that is set up anew (`Reinstall`).
The repository refuses a bundle without one-time pre-key, other clients do not, so `Lenient` parties
accept one. History: `read`, `forgotten` (sessions a party had and has no longer) and the counters of
the bounds.

Two sessions of a record are never closed in the same millisecond, nor does the clock go back: `Now`.
The signed pre-key stays the same for one installation: nothing in `lib/` calls `rotate_signed_pre_key`.

### Run

`signal_sessions` checks: there is always exactly one open session, one that can send (`OneOpen`);
no message key encrypts twice (`KeysUsedOnce`); what was
decrypted cannot be decrypted again (`ReadOnce`); what was not can be, in any order, while the session
is there or can still be set up by the message (`UnreadReadable`); and keys are kept only for messages
that were sent and not decrypted (`KeptForUnread`).

Bounds: four messages are what it takes to skip one, answer, and have a later chain end the first one's
(`MaxMessages`); three sessions, begun by either side, are what it takes to begin at once and to trim
with `MaxClosed = 0` (forty in the code); `MaxSkipped = 1` (2000 in the code) is exceeded by three
messages; one deletion or new installation; seven key pairs each, so that a session without pre-key is
not set up for ever. Which of several closed sessions are trimmed is not checked: messages of trimmed
sessions are outside `UnreadReadable`.

What the model shows beyond the properties:

- A session begun without one-time pre-key can be begun again by the same message once the receiver has
  lost it, and that message is then decrypted again. `ReadOnce` excludes it, as X3DH does.
- A pre-key message of a former installation that arrives late makes the receiver drop its whole record,
  a session with the present installation included, though the message itself is then refused:
  `prepare_pkmsg_record` compares only with the identity saved last. `UnreadReadable` excludes it.

### Proofs

`SignalSessionsProofs` proves `TypeOK`, `OneOpen`, `KeysUsedOnce`, `ReadOnce`, `KeptForUnread` and
`UnreadReadable` for any one-time pre-keys, limits and bounds. That one session is open is not inductive:
a session begun by a pre-key message has no sending chain until it ratchets, and the record is stored with
whichever session opened the message. So `SessionInv` adds that every key of a session was derived from
its base key (`Linked`), and that a pre-key message names the session its key comes from. A message then
opens no session but its own (`OpensOwn`): the one just begun reads it, ratchets, and can send
(`WithIncomingReady`, `DecryptedGood`). Closing and trimming change no keys and leave nothing open
(`ClosingGood`), after which one session is put in (`OpeningGood`).

`KeysUsedOnce` is about messages that are already sent; `KeysInv` is what makes the next one differ from
them. Each ephemeral key is generated once, by one party, and no two sessions of a record send with the
same one. The chain it is sent under has the session's root key, and that key names the ephemeral: its
last secret is of that ephemeral and a key of the peer's (`EndsWith`), and it has an odd number of secrets
if the initiator sends under it, an even number if the responder does (`InTurn`), so the last secret is
not the peer's (`OneSender`). Within the chain the session is ahead of everything sent (`Ahead`), and
messages with one ephemeral are numbered apart (`Numbered`). A ratchet makes a new ephemeral, with which
nothing was sent yet (`NothingSentYet`); closing, trimming and storing sessions change no keys.

`ReadOnce` says that a key is gone; `ReadingInv` says where to. The receiver of a message has either the
session that read it, and there the key is taken (`Spent`: its number is below the chain's and not
kept), or has forgotten that session, and then it is not begun again with the same keys, because its
one-time pre-key is used up (`UsedUp`, `Remembers`). `Spent` survives every step: a chain's counter only
grows and keeps only numbers from the counter on, a ratchet that ends the chain keeps nothing below it
(`TakenGone`, `ClosedGone`, `AdvancedGone`, `ReceivedGone`), and a session read in is saved as it was read,
or forgotten (`DecryptMoves`, which says in one statement what the whole of `decrypt_message/4` does to the
record).

`KeptForUnread` is about what a *later* ratchet may do: keys are kept up to the `previous` the peer names.
`OwedInv` therefore says of every receiving chain that all the messages below its counter were sent and,
of every message, that those before it in its chain and those of the chain it ends, up to `previous`, were
sent too (`SentInTurn`); a session says so of the chain it sends in (`SendsInTurn`) and of the peer's
(`HearsPeer`). Which messages a key is for is told by the key alone: a chain's key names the ephemeral
(`KeyTellsEphemeral`), and taking the last two secrets off names the chain that it ended (`Unmixed`).

`UnreadReadable` relates the two ends of a conversation, and takes three more invariants. The keys a party
sends with in one session are a *line*: each continues the one before by two secrets (`LinesGrow`), and
one ephemeral stands for one key (`KeyOfEphemeral`). The peer *follows* it: it has a chain for every key of
the line but possibly the newest, and that one is the next it will derive (`LinesFollowed`); a session the
peer has not had yet starts at the beginning of the line (`LinesBegin`). These are the parts of `LineInv`.
They say nothing of sessions had twice: one without one-time pre-key that was forgotten can be begun again
from its old message, and then has two lines with one base key (`Straight`, `Original` leave it out, as
`UnreadReadable` does). That a base key belongs to one secret, which the session's first messages
repeat, and that a secret is used up by the party that had a session with it, unless there was no one-time
pre-key to use, is `OriginInv`.

`HeldInv` says what a follower can still reach: in every chain of an unread message, its number is kept or
not yet passed, and a chain that was ended had passed it (`KeysThere`). Ending a chain keeps the keys
up to the `previous` of the message that ends it, so that number must be the last of the chain: no message
of a chain is numbered above what the sender's next chain calls its last (`ChainsEnd`), and a session has
ended a chain only when it has heard the one after (`ChainsSent`). A message then opens the session it is
of (`ReadableNow`): by the chain it has (`OwnChain`), by the ratchet it causes (`NextOpens`), or by beginning
the session (`TriedWith`). The proof goes by the one step `Step` that every action is an instance of
(`Steps`): a session begins, sends, reads or is forgotten.

## 7. Groups

### Correspondence

| Module | Code | State |
|---|---|---|
| `SenderKeys` | `signal/group/*` | no variables: a record is a sequence of states; an id stands for a chain and its signing key |
| `GroupSessions` | `relay_group_message` of `message/sender.ex`, the group callbacks of `signal/adapter/signal.ex`, the receiving half in `message/receiver.ex` | `sender`, `record`: the stored sender-key records; `known`: `sender-key-memory`; `task`: the send under way |

`Encrypt`, `Remember` and `Relay` are the three things the send task does that somebody can see: the
message is encrypted and the record saved in one transaction, the memory is written, the stanza goes
out. It may end between any two (`Fail`). `ReceiveDistribution` and `ReceiveMessage` are one transaction
each. `sender_key_for_encrypt` leaves out an iteration after the first message (0, 2, 4 and so
on, as the reference does); the model keeps that.

External: the network, as for pairs, but that a distribution is opened once and in the installation it
was encrypted for, which is what section 6 shows of the pairwise session it travels in; other clients
that distribute again (`Redistribute`). History: `read`, `processed`, `unsent`, `overfull`.

### Run and proofs

`group_sessions`, over two devices, three messages, two installations each, two states and two kept keys
per record (five and 2000 in the code), keys at most three ahead (2000): no key encrypts two messages
(`KeysUsedOnce`); a device in the memory is owed nothing, unless a relay failed (`MemoryIsDistributed`);
a device reads nothing from before its first distribution (`NoHistory`), nothing twice (`ReadOnce`),
everything after it (`Readable`), and a key goes only for newer ones (`KeptForUnread`). Three messages at
iterations 0, 2, 4 skip more keys than are kept; a second distribution of a key is what makes two states
of one id.

`GroupSessionsProofs` proves `TypeOK` and all six properties for any devices, limits and bounds.

On the sending side `KeysUsedOnce` is not inductive: it says nothing of the next message. `SendingInv`
adds that the sender's record is empty or one state under the present installation's id, that every
message relayed or under way is behind that state (`Passed`), and that what the task carries is newer
than what was relayed (`TaskOK`).

On the reading side the four properties follow from `ReadingInv`, which TLC also checks on the instance.
`OrderInv` says that a distribution made for message `n` comes before exactly the messages numbered `n`
or higher, by their iterations as by their numbers, and is not past the sender; each step of the sender
keeps that (`EncryptMoves` and its neighbours). `Reads(d)` says of a device that each of its states came
of a distribution it processed and keeps only keys behind its iteration (`Stored`), that what it has read
was sent with or after something it heard (`ReadWasHeard`) and is gone from the state its id finds
(`ReadIsGone`), that an id it heard of has a state (`HeardIsHeld`), and that what it is owed is not gone
(`OwedIsThere`); the last three hold only for ids of which it has not given up a state or keys
(`overfull`), which is why that variable is there. `ReadOnce` needs `ReadIsGone` together with `Holds`:
with the state lost, a distribution repeated would open the message again.

Two parts of the code are positional, and have lemmas of their own. What `state_for_key_id/2` finds after
a state was appended, the first dropped, or those of an id rejected is the same state for every other id
(`OneMore`, `FirstLeftOut`, `OthersLeft`, gathered in `ProcessedRecord` and `DecryptedRecord`). What
`add_sender_message_key/2` keeps of a set of keys is at most `MaxKept`, all of a set that small, and
`MaxKept` above whatever went (`KeptLast`, used by `TakenKeys`). Both are counted, not recursed over:
`Ranks` and `RanksCover` show that the elements of a finite set of numbers have the ranks `1` to its size,
which takes the place of an induction.

Read on the way: the memory is never cleared when a relay fails, which the plan document sanctions; the
receiver decrypts only the first `enc` child of a stanza, so a distribution next to a message is seen
only if it comes first; an older distribution of an id that arrives after a newer one is shadowed by it.

## 8. App state

### Correspondence

| Module | Code | State |
|---|---|---|
| `LtHash` | `util/lt_hash.ex` | no variables: rows of integers that wrap |
| `Syncd` | `syncd/codec.ex` without its cryptography | no variables: a collection's state, what snapshots, patches and an own patch make of it |
| `AppState` | `feature/app_state.ex` | `stored`: the collection versions; `keys`: sync keys and `my_app_state_key_id`; `task`: the transaction under way; `server`: external |

`resync_app_state` and `app_patch` are one transaction each on the account's key, so one task runs at a
time; its steps are the request (`Query`), each collection of the answer (`Read`), the events (`Emit`),
the own patch (`Upload`, `Acknowledge`), the commit. The fields of `task` are the loop's variables:
`minimum` is `initial_version_map`, `forced` is `force_snapshot_collections`, `absent` what the
transaction has failed to read and therefore will not read again. A patch carries one mutation, whose MAC
is its number, so that the age of a value can be told.

The server answers with a snapshot of any age where one is asked for, with a page of what follows, or
leaves a collection out. Other devices patch, hand out keys late, and write mutations nobody can read.

### Runs and proofs

`app_state`: one collection, two indexes, two keys, three patches, pages of one, two attempts (as in the
code), one broken mutation, validation of MACs, and the own device patching with `set` and `remove`. The
constraint `OneHardship` of `MCAppState` keeps the run short: no history has two of a broken mutation,
mutations of two keys and an own removal, and one with an own removal has one key; the proofs below know
no such bound. The hash of a collection is that of its map (`HashIsMap`), its map what the server's
patches amount to (`StoredIsServer`), other devices accept the own patches (`OthersAccept`), all three but
for what an own removal does (below); as long as no reading of a collection has failed a resync emits no
mutation after a newer one of its index (`EventsForward`), and every resync ends (`ResyncEnds`, an action
property: each read finishes a collection, gets on in it or uses up an attempt; attempts are bounded).
Three patches are what it takes to replace a value and read the result in two pages behind a snapshot. The
rows of the three MACs are such that any two sets of them differ in their hashes and that lanes wrap.

`AgreementProofs` proves all of these, for any collections, indexes, keys, lanes,
modulus and digests, any history, page size and number of attempts, and whatever is broken, missing or
failing: `AppStateTypeCorrect`, `StoredHashIsOfMap`, `StoredIsTheServers`, `OwnPatchesAreAccepted`,
`EventsGoForward`, `ResyncsEnd`. They assume that "no state" (`None`) is not a state. The argument:

- None of the properties is inductive: what is stored comes from a task, which has it from an answer,
  which is about the server. `AppStateInv` says of a state of collection c that it is `Held`: its version
  is one of the server's, its hash that of its map until an own removal (`Exact`), its values are those of
  patches (`Known`), and it agrees with the patches up to its version index by index, but for what a
  broken mutation set or an own removal removed last (`Agrees`). All a task has, and all that is stored,
  is held; an answer lies within what the server has and starts, unless it is a snapshot, where the task
  is.
- The server (`ServerOK`) numbers its patches, so no two have the same MAC: a map never holds one value
  twice, and a set of values has one hash, in whatever order it was made. That a hash follows its map when
  a value is put, replaced or taken out is `HashFollowsWithout` and its like, which rest on `MacsUndo` and
  `MacsCommute`: adding and subtracting a MAC undo one another, and commute.
- `SubtractThenAdd`, `DecodeMutations`, `DecodePatches` and `Records` are folds, recursive underneath. As
  with the emitter (section 4) each has a lemma that takes it in turn (`AddsInTurn`, `DecodesInTurn`,
  `PatchesInTurn`, `RecordsInTurn`), from one table of partial results (`TableExists`) by `Induct`.
- For the order of events `EventsInv` goes on top: of a collection without a failed reading, what was
  emitted is a `Part` of the server's patches up to its version, in their order, and a snapshot is asked
  for only where there is nothing yet. What decoding emits is a `Part` of what it was given
  (`DecodesPart`), the records of a snapshot are one of the patches (`RecordsOK`), and a part joined to
  one that follows is a part (`PartJoins`).
- One page leaves what is held held (`PageHolds`), one snapshot is held at its version (`SnapshotHolds`),
  a patch of the server leaves held what was (`HeldKept`), and so `NextHolds`.

`app_state_shown` finds that what is stored need not have been shown (`StoredIsShown`): a snapshot's
version is stored before the patches after it are read; if one of them needs a key that is missing, the
snapshot's contents are never emitted. The same happens without a missing key when the query of a second
pass fails: the transaction commits on `{:error, _}`.

An own patch that removes (deleting a contact, `app_state.ex:345`) takes the value out of the hash, and
then puts one into the map (`codec.ex:824`). Three properties are violated by it, and name it as an
exception, no wider than what it breaks:

- `StoredIsServer`: the stored map holds the index that the server's patches removed, as long as this
  device's removal is the last patch of it.
- `HashIsMap`: from the removal on the collection's hash is not that of its map (`Removed`).
- `OthersAccept`: the removal itself claims the right hash. The patches uploaded after it may not, for the
  value put back is subtracted once more when its index is set again.

The run explores own removals, and without any one of the exceptions it is violated. `EventsForward` and
`ResyncEnds` need none.

Seen besides: the guide says a resync without its key is an error; the code returns `:ok` and parks the
collection. And once a reading has failed events may go back, while `CHANGELOG.md:39` says that large
resyncs "now preserve mutation order": with seven patches of one index and pages of two, a snapshot of the
fourth and then the fifth and sixth are read, the seventh lacks its key and forces a snapshot, which may
be older; if it is of the first, reading the second and third sets the minimum back to 3
(`app_state.ex:825`), the fourth and fifth are emitted once more, the next page fails again, and the
collection is given up: the last the application hears of the index is the fifth patch, after the sixth.
`EventsForward` speaks of collections without a failed reading for that reason. The order of the records
in a snapshot is the server's; the model has them in the order of the patches, and the property compares
mutations of one index only, of which a snapshot has one.

Left out: the coordinator's parking of blocked collections, the mapping of mutations to events, the
derivation of keys, external blobs.

## 9. Parity with the reference

### Correspondence

| Module | Code | State |
|---|---|---|
| `JsonNode` | `normalizeJsonNode` and `decodeJsonNode` of the runner, `test/support/parity/case.ex` | no variables: JSON values, nodes |
| `Jids`, `SignalAddresses` | `protocol/jid.ex`, `signal/address.ex`, `signal/lid_mapping_store.ex` and the reference's | no variables |
| `ReferenceRunner` | `dev/tools/run_baileys_reference.mts` | no variables: for each operation when it throws and what it answers |
| `ParityPeers` | the functions of the program that are compared: presence, profile picture, privacy, companion hello, message content | no variables |
| `ParityCases` | `test/baileys_ex/parity` | no variables: inputs of program and runner |
| `NodeBridge` | `test/support/parity/node_bridge.ex`, `main` and `readPayload` of the runner | `phase`, `case`, `path`, `request`, `exit`, `result` of each test, `files`, `unique` |
| `SignalFixtures` | `dev/tools/generate_signal_fixtures.mts`, `test/baileys_ex/signal/cross_validation_test.exs` | `work`: what the script has made |
| `FixturePipeline` | `dev/scripts/regenerate_parity_fixtures.sh` and its three scripts | `file`, `script`, `held` |
| `ParitySuite` | `.github/workflows/parity-internal.yml` | composes the two |

The bridge is one action per step that another process can come between: the call takes a number from
`System.unique_integer`, writes the payload, the runner reads it, writes its answer and exits, or dies;
the payload is removed whatever happened. What is asked and answered are operators of the suite, passed
to `NodeBridge` as constants: what is proved of it does not depend on them.

The pipeline is one action per script's step: build, read, truncate a file, write it. Any script may be
killed, started alone, or run after another reference was checked out. `SignalFixtures` builds the
conversation out of `SessionCipher` and `SenderKeys` (sections 6 and 7), with the key pairs that the
script queues for libsignal, and replays it the way the test does.

External: the reference library. Its codecs, ciphers and the content builder are injective tags, so equal
answers mean equal inputs to them.

### Run and proofs

`parity` starts from old or torn fixtures: when the three scripts have run in their order every file is
fresh and whole, the proto vectors excepted where the reference's WAProto does not load
and no torn source is copied (`RegeneratedIsFresh`); the program replays the
fixtures and no queued key pair is left over (`FixturesReplay`). Then two calls at once, of five test
modules: each gets the answer to its own request or an error (`AnswersOwnRequest`), the program made
what the runner answers (`SameAsReference`). Two calls at once are
what it takes to read or remove another's payload; one new reference is what it takes for copies to be
old. `RunnerRead` finds no payload only if paths were shared, which the mutant shows.

The cases hold every type, kind of address and stored token that the suite passes, and no more: outside
of them program and reference differ where the suite does not look. Known differences: a chatstate with
another child, `count` of a presence, a token under an address that is no user's, a reaction with a
secret, a linked identity with an agent, `same_user?` of two texts that are no addresses, the picture of
the own account.

`AgreementProofs` proves, for any tests, cases and runner and any number of calls, that calls are apart
(`BridgeInv`: paths under way differ, what a runner has read or answered is its own call's), and from it
`AnswersOwnRequest` and `NoPayloadLeft`.

Read on the way: the numbers of `System.unique_integer` are unique within one VM only; the bridge's
clause for `ok: false` is not reached, since the runner exits with 1 whenever it writes that; what the
manifest names under `regenerate_with` does not write the parity copies; a phone-number user
with agent 1 and a linked identity of the same name share a session address (`signal/address.ex`).

## 10. Pre-keys

### Correspondence

`PreKeys` is `signal/prekey.ex` with its callers. The credentials (next id, first id not uploaded) exist
twice: `creds` is the socket's `auth_state`, `storeCreds` the connection store's. An update goes from an
upload task to the socket (`mailbox`, kind `internal`), which merges it and emits `creds_update`
(`emitted`); the coordinator's tap writes the store and tells the coordinator (`tapped`), which passes it
to the socket (`mailbox`, kind `sync`). A retry receipt starts in the middle: it reads and writes the
store's copy and emits. So an upload works on one copy, a receipt on the other.

| Actions | Code |
|---|---|
| `StartPostAuth`, `Count`, `Digest`, `DigestFails` | the post-authentication task of `connection/socket.ex`: count, upload, passive IQ, digest, and one more upload if the server has no bundle |
| `StartLow` | a notification that keys run low |
| `Enter` to `Query`, `HandleQuery`, `QueryFails`, `TimeOut` | one upload: the lock, the check, keys made and the update sent in a transaction on the account's id, the query, its retries, its limit of 30 s |
| `HandleInternal`, `HandleSync`, `Forget`, `Tap`, `Echo` | the ways of an update; `Forget` is the clause of `disconnected`, `connecting` and `noise_handshake` for messages they do not know |
| `Close`, `Open`, `Crash` | the connection closes and is made anew by the same process; the process dies and is restarted with the options of the supervisor |
| `ReceiptRead` to `ReceiptEmit` | keys for a retry receipt, in the coordinator's send task |
| `ServerTakes`, `Take`, `Use` | the server (external: one key for each id, each handed out once), a peer, and the message read with the key |

A pair is its id and which of the pairs made for that id it is, so that two keys under one id can be told
apart. A task's `start` is the snapshot of the credentials it was started with; retries go on from its own
`auth`. The lock of `:global.trans` is a guard of `Enter`, with the requester the code names.

Nothing in the code makes an upload or a receipt wait for the one before, or for its updates to arrive.
`disturbed` is history: one of them began during another or before the last one's updates were there
(`Begin`), an update was dropped for want of a connection (`Forget`), or the socket's process has started
again (`Crash`). `used` is history too.

### Run

| Run | Shows | Bounds |
|---|---|---|
| `prekeys` | `OneKeyPerId`, `ServedAreHeld`, `UploadedAreTracked`, `OnlyHeldAreSent` | two uploads and a receipt, in turn or overlapping; one retry, batches of two and one, three ids; one close or crash |

Two uploads are what it takes to reuse an id; three ids are a batch of two and one more, be it of the
retry, the second upload or the receipt. The constraint `OneHardship` of `MCPreKeys` bounds what is
explored once `disturbed`: two ids, two messages on their way, one pair that a peer has got, and one of a
receipt, a close, a crash, a retry and a digest check. Until then nothing is bounded but by the constants,
and the proofs know no such bound.

`OnlyHeldAreSent` has no exception. Three properties have one, because the code needs it while the
documents promise what it does not keep; TLC violates each of the three without any one of its parts:

- Overlap. `dev/implementation_plan/07-authentication.md:195` says "Serialize concurrent upload
  attempts", but `:global.trans({resource, requester}, ..)` (`prekey.ex:58`, `:72`) gets the upload key as
  requester, and all tasks of a socket have the same, so each is granted the lock that another holds
  (it does make uploads of different sockets of a node wait for one another), and receipts take no lock.
  Both uploads hand out the ids of one snapshot, and the second replaces keys that the server has. It
  takes a notification during the post-authentication upload, a reconnect while an old task waits
  for its retry, or a retry receipt meanwhile.
- Dropped updates. The socket's states without a connection drop the updates they are sent
  (`Forget`, `socket.ex:334`), though `coordinator.ex:914` says that the coordinator "Forwards creds_update
  to the socket so its in-memory auth_state stays in sync", and `07-authentication.md:192` "Track uploaded
  key IDs in auth state". A receipt's update lost so leaves the socket behind the store for good. A
  close that drops none is no exception.
- A restart. The restarted socket begins with the credentials of the program's start
  (`supervisor.ex:290`), and hands out ids that were uploaded before.

What these may cost is bounded, and that is a property as well: `ServedAreHeld` says of any behaviour that a
key which the server hands out, or a peer has got, is in the store unless a message was read with it
before or another key was stored under its id (`Lost`). Nothing else loses one.

`TypeOK` is proved and not run. Only safety is specified: no liveness of uploads is checked.

### Proofs

`PreKeysProofs` has two parts. `TypeCorrect` (`Spec => []TypeOK`) and `SentAreHeld` (`Spec =>
[]OnlyHeldAreSent`) are for any tasks and bounds, overlapping or not, with any closes and crashes. What is
sent was in a query, what is in a query was read by a task, what a task has read is stored or in its own
private table; `KeysHeld` follows a key along this way: rows and queries hold only pairs that were
committed, and a task's pairs were committed or are about to be by its own transaction (its `fresh`, which
only `commit` has). Deleting or replacing a row takes nothing from what was committed.

`IdsNameOneKey`, `ServedStayHeld` and `UploadedStayTracked` state `OneKeyPerId`, `ServedAreHeld` and
`UploadedAreTracked` for any tasks, bounds, retries, receipts, closes and crashes. What `ServedAreHeld` says
of behaviours that are disturbed follows from `Accounted`: of every pair that was in the store, it is
there still, was used, or another of its id was in the store too. The rest follows from two invariants:

- `Leveled`: the next id and the first one not uploaded are the same, in every copy of the credentials
  and every update on its way. So a batch is exactly the new ids, and the node names no others.
- `Turns`, which says in what order ids leave the device (`TakingTurns`), as long as nothing is
  `disturbed`. The sets of pairs that the
  server has been given, that wait in queries (in the order of the mailbox), and that an upload or a
  receipt has in hand lie one above the other (`InOrder`, `Working`, `Receiving`). A task at work is
  alone. The hard case is the second upload of a digest check: it begins again from the snapshot that the
  first began with, so its ids were given out before unless the server took nothing. It takes place only
  if the server has no bundle, and `Working` says that then all that was sent is below the snapshot.
  `StillHeld` says that what is out, or in a query, is in the store until it is used: a batch that lies
  above all of it writes over none. `Arriving` says that the update furthest behind, which becomes both
  copies of the credentials once all have come (`Heading` follows it through mailbox, emitter, tap and
  mailbox), counts every id given. It is what a task or a receipt that starts when all is quiet relies
  on.

TLC found both invariants to hold on the run's instance before they were proved.

## 11. Not modelled

The components marked `not_modelled` in `PROJECT.json`, and what reading them showed. The first ones
have control that a module would pay for; the lines are hazards no property covers.

- Pre-keys: `rotate_signed_pre_key`, which nothing in `lib/` calls; a restart of the whole application
  with credentials that were not saved.
- Sessions: `migrate_sessions` (`signal/adapter/signal.ex:175`), which writes the record of one address over
  whatever session the other has by then (207).
- `:global.trans` is used as in section 10, with the requester where the resource belongs, at lines 735 of
  `auth/file_persistence.ex` and 471 of `auth/native_file_persistence.ex`.
- Message retry (`message/retry.ex`): the maps in the connection store are read, changed and put back by
  the send task and by timer tasks (226); the wait for a placeholder runs in the only send task (317); the
  expiry runs in the timer task that it cancels (377).
- Socket (`connection/socket.ex`): results of an earlier connection's post-authentication task (380), a
  `:qr_refresh` already in the mailbox (383), a query's answer against its timeout (403), a pairing
  notification that outlives its connection (976), a second success node (1210).
- Coordinator (`connection/coordinator.ex`): the clause for any task's result precedes that of the initial
  sync (369), a full send queue drops nodes that change the repository (704), a close leaves `sync_state`
  (950).
- File persistence (`auth/file_persistence.ex:346`): data file, then manifest, and a crash between.
- Offline queue (`message/offline_queue.ex:71`): batches interleave with live nodes.
- Connection store, session assertion, authentication, Noise: as in `PROJECT.json`.

Data without control - features but for the functions of section 9, media, binary and protobuf
encodings, analytics, the facade - has no state to check; tests with vectors say more.

Of the modelled components, not covered by a property: a transaction nested through the plain handle
waits for itself (`auth/key_store.ex:264`; no caller does it); the cache and the backend after a task is
killed between two writes (`auth/key_store.ex:614`, where the properties stop with `clean`).
