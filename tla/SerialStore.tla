---------------------------- MODULE SerialStore ----------------------------
(***************************************************************************)
(* What both Signal stores promise about transactions                      *)
(* (lib/baileys_ex/signal/store.ex, the behaviour they implement): what a  *)
(* process submits is applied whole or not at all; a transaction's         *)
(* mutations are submitted by the process that holds its key, touch only   *)
(* ids of that key and of none, and the key passes to nobody else while    *)
(* they are pending.  A set or a clear outside transactions takes no key   *)
(* and may touch any id, those of other processes' keys too.               *)
(***************************************************************************)
CONSTANTS
    Clients, LockKeys, None, Ids, Entries, Missing, GuardKey

VARIABLES
    holder,         \* holder[k]: who is in a transaction on k
    pending,        \* pending[c]: what c has submitted
    contents        \* the store

vars == <<holder, pending, contents>>

Nothing == [data |-> [i \in {} |-> Missing], clear |-> FALSE]

Submissions == [data : UNION {[S -> Entries] : S \in SUBSET Ids}, clear : BOOLEAN]

Init ==
    /\ holder = [k \in LockKeys |-> None]
    /\ pending = [c \in Clients |-> Nothing]
    /\ contents \in [Ids -> Entries]

\* An id belongs to one key, or to none and is anybody's.  Nothing stops a
\* process that is in no transaction.
InNone(c) == \A k \in LockKeys : holder[k] # c

MayTouch(c, i) ==
    InNone(c) \/ (GuardKey[i] # None => holder[GuardKey[i]] = c)

Submit(c) ==
    /\ pending[c] = Nothing
    /\ \E s \in Submissions :
          /\ \A i \in DOMAIN s.data : MayTouch(c, i)
          /\ pending' = [pending EXCEPT ![c] = s]
    /\ UNCHANGED <<holder, contents>>

\* A key changes hands only when its holder has nothing pending.
HandOver ==
    /\ holder' \in [LockKeys -> Clients \union {None}]
    /\ \A k \in LockKeys : holder'[k] # holder[k] =>
          holder[k] = None \/ pending'[holder[k]] = Nothing

Applied(s) ==
    [i \in Ids |-> IF i \in DOMAIN s.data THEN s.data[i]
                   ELSE IF s.clear THEN Missing ELSE contents[i]]

\* What was submitted is applied whole, or dropped.
Settle(c) ==
    /\ pending' = [pending EXCEPT ![c] = Nothing]
    /\ contents' \in {contents, Applied(pending[c])}
    /\ HandOver

Next ==
    \/ \E c \in Clients : Submit(c) \/ Settle(c)
    \/ HandOver /\ UNCHANGED <<pending, contents>>

Spec == Init /\ [][Next]_vars
=============================================================================
