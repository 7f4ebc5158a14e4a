---------------------------- MODULE LockManager ----------------------------
(***************************************************************************)
(* The per-key locks that serialise Signal-store transactions              *)
(* (lib/baileys_ex/signal/store/lock_manager.ex).  The code is a set of    *)
(* pure functions on the state of the store's GenServer; here they are     *)
(* action fragments on the variables below, used by every store module.    *)
(*                                                                         *)
(* A monitor reference is named by the pair <<process, key>> it was made   *)
(* for: a process owns a key at most once at a time, and the reference is  *)
(* removed before the same pair can be monitored again.                    *)
(***************************************************************************)
EXTENDS Naturals, Sequences, FiniteSets

CONSTANTS
    Clients,        \* the processes that run transactions
    LockKeys,       \* the transaction keys
    None            \* "no owner"

ASSUME NoneAssumption == None \notin Clients

VARIABLES
    owner,          \* owner[k]: state.locks[k].owner, None when k is not locked
    queue,          \* queue[k]: the processes of state.locks[k].queue, in order
    monitors,       \* the references of state.monitor_keys
    downs,          \* the :DOWN messages not yet handled by the server
    alive           \* the processes that have not exited

lockVars == <<owner, queue, monitors, downs>>

LockTypeOK ==
    /\ owner \in [LockKeys -> Clients \union {None}]
    /\ queue \in [LockKeys -> Seq(Clients)]
    /\ monitors \subseteq Clients \X LockKeys
    /\ downs \subseteq Clients \X LockKeys
    /\ alive \subseteq Clients

LockInit ==
    /\ owner = [k \in LockKeys |-> None]
    /\ queue = [k \in LockKeys |-> << >>]
    /\ monitors = {}
    /\ downs = {}
    /\ alive = Clients

\* A process monitored when it is already dead gives a :DOWN at once.
DeadOf(refs) == {r \in refs : r[1] \notin alive}

\* Mutant of Acquire: the key's present owner is not looked at.
AcquireUnchecked(c, k) ==
    /\ owner' = [owner EXCEPT ![k] = c]
    /\ monitors' = monitors \union {<<c, k>>}
    /\ downs' = downs \union DeadOf({<<c, k>>})
    /\ UNCHANGED queue

\* acquire/4 on a key that is free: put_lock, and the call is answered.
Acquire(c, k) ==
    /\ owner[k] = None
    /\ owner' = [owner EXCEPT ![k] = c]
    /\ monitors' = monitors \union {<<c, k>>}
    /\ downs' = downs \union DeadOf({<<c, k>>})
    /\ UNCHANGED queue

\* acquire/4 on a key that is held: the caller waits, unanswered.
Enqueue(c, k) ==
    /\ owner[k] # None
    /\ queue' = [queue EXCEPT ![k] = Append(@, c)]
    /\ UNCHANGED <<owner, monitors, downs>>

\* The locks that release/4 gives up for the references refs: those whose
\* owner is the one the reference names.
ReleasedKeys(refs) == {k \in LockKeys : owner[k] # None /\ <<owner[k], k>> \in refs}

\* promote_next_waiter/3: who owns a released key next.
NextOwner(k) == IF queue[k] = << >> THEN None ELSE Head(queue[k])

\* Mutant of PromotedBy: the next owner is not told.
PromotedNobody(refs) == {}

\* The processes whose waiting {:lock, ...} call is answered by the release.
PromotedBy(refs) == {NextOwner(k) : k \in ReleasedKeys(refs)} \ {None}

\* release/4 for each of the references: demonitor with :flush, drop the
\* reference, hand the key to the first waiter or delete the lock.
Release(refs) ==
    LET keys == ReleasedKeys(refs)
        gone == {<<owner[k], k>> : k \in keys}
        new  == {<<NextOwner(k), k>> : k \in {j \in keys : queue[j] # << >>}}
    IN  /\ owner' = [k \in LockKeys |-> IF k \in keys THEN NextOwner(k) ELSE owner[k]]
        /\ queue' = [k \in LockKeys |-> IF k \in keys /\ queue[k] # << >>
                                        THEN Tail(queue[k]) ELSE queue[k]]
        /\ monitors' = (monitors \ gone) \union new
        /\ downs' = (downs \ gone) \union DeadOf(new)

\* handle_owner_down/3 acts only on references still in monitor_keys.
Known(refs) == refs \intersect monitors

\* External: the runtime turns the exit of a monitored process into a :DOWN.
Exit(c) ==
    /\ c \in alive
    /\ alive' = alive \ {c}
    /\ downs' = downs \union {r \in monitors : r[1] = c}
=============================================================================
