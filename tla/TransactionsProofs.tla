------------------------- MODULE TransactionsProofs -------------------------
(***************************************************************************)
(* Lemmas on the lock manager and on the callers of the stores, for the    *)
(* proofs about the modules that use them.                                 *)
(***************************************************************************)
EXTENDS Transactions, TLAPS, SequenceTheorems

\* Release/4 keeps the types of the lock state.
LEMMA ReleaseType ==
    ASSUME LockTypeOK, NEW refs, Release(refs)
    PROVE  /\ owner' \in [LockKeys -> Clients \union {None}]
           /\ queue' \in [LockKeys -> Seq(Clients)]
           /\ monitors' \subseteq Clients \X LockKeys
           /\ downs' \subseteq Clients \X LockKeys
<1> DEFINE keys == ReleasedKeys(refs)
           gone == {<<owner[k], k>> : k \in keys}
           new  == {<<NextOwner(k), k>> : k \in {j \in keys : queue[j] # << >>}}
<1>1. \A k \in LockKeys : queue[k] # << >> =>
          /\ Head(queue[k]) \in Clients
          /\ Tail(queue[k]) \in Seq(Clients)
  BY HeadTailProperties DEF LockTypeOK
<1>2. \A k \in LockKeys : NextOwner(k) \in Clients \union {None}
  BY <1>1 DEF NextOwner
<1>3. keys \subseteq LockKeys
  BY DEF ReleasedKeys
<1>4. new \subseteq Clients \X LockKeys
  BY <1>1, <1>3 DEF NextOwner
<1>5. owner' \in [LockKeys -> Clients \union {None}]
  BY <1>2 DEF Release, LockTypeOK
<1>6. queue' \in [LockKeys -> Seq(Clients)]
  BY <1>1 DEF Release, LockTypeOK
<1>7. monitors' \subseteq Clients \X LockKeys /\ downs' \subseteq Clients \X LockKeys
  BY <1>4 DEF Release, LockTypeOK, DeadOf
<1> QED BY <1>5, <1>6, <1>7

\* A reply leaves every process at a place of its program, and puts nobody into
\* a transaction who was outside.
LEMMA AnswerType ==
    ASSUME pc \in [Clients -> PCs], NEW ok, NEW err, NEW granted, NEW unlocked,
           Answer(ok, err, granted, unlocked)
    PROVE  /\ pc' \in [Clients -> PCs]
           /\ \A c \in Clients : pc[c] \in {"idle", "calling"} => pc'[c] \in {"idle", "calling"}
<1>1. \A c \in Clients : pc[c] \in PCs
  OBVIOUS
<1>2. \A c \in Clients : pc[c] \in DOMAIN OnOk => OnOk[pc[c]] \in PCs /\ OnError[pc[c]] \in PCs
  BY DEF OnOk, OnError, PCs, Waiting
<1>3. \A c \in Clients : pc'[c] \in PCs
  BY <1>1, <1>2 DEF Answer, PCs, Waiting
<1>4. \A c \in Clients : pc[c] \in {"idle", "calling"} => pc'[c] \in {"idle", "calling"}
  BY DEF Answer, OnOk, OnError
<1> QED BY <1>3, <1>4 DEF Answer

\* Where a released key goes: to the first waiter, or to nobody.
LEMMA ReleaseEffect ==
    ASSUME LockTypeOK, NEW refs, Release(refs), NEW k \in LockKeys
    PROVE  /\ k \notin ReleasedKeys(refs) =>
                  owner'[k] = owner[k] /\ queue'[k] = queue[k]
           /\ k \in ReleasedKeys(refs) /\ queue[k] = << >> =>
                  owner'[k] = None /\ queue'[k] = << >>
           /\ k \in ReleasedKeys(refs) /\ queue[k] # << >> =>
                  owner'[k] = queue[k][1] /\ queue'[k] = Tail(queue[k])
<1>1. queue[k] \in Seq(Clients)
  BY DEF LockTypeOK
<1>2. queue[k] # << >> => Head(queue[k]) = queue[k][1]
  BY <1>1
<1> QED BY <1>1, <1>2 DEF Release, NextOwner

\* A request that is consumed or left alone, of the processes in S.
Unsent(S) == \A c \in Clients : inbox'[c] = IF c \in S THEN NoRequest ELSE inbox[c]

\* Locks are released for references whose owner is dead or unlocking, and
\* whoever waited first goes on: the lock invariant stays.
LEMMA ReleaseKeepsLockInv ==
    ASSUME LockTypeOK, ClientTypeOK, LockInv, NoneAssumption,
           NEW refs, NEW ok, NEW err, NEW unlocked, NEW S \in SUBSET Clients,
           Release(refs), Answer(ok, err, PromotedBy(refs), unlocked),
           Unsent(S), unlocked \subseteq S,
           alive' = alive, txKey' = txKey,
           \A k \in LockKeys : <<owner[k], k>> \in refs =>
               owner[k] \notin alive \/ pc[owner[k]] = "unlocking"
    PROVE  LockInv'
<1> USE DEF LockTypeOK, ClientTypeOK
<1> DEFINE keys == ReleasedKeys(refs)
<1>1. \A k \in LockKeys : queue[k] \in Seq(Clients) /\ Len(queue[k]) \in Nat
  OBVIOUS
<1>2. \A k \in LockKeys : \A j \in 1..Len(queue[k]) : queue[k][j] \in Clients
  BY ElementOfSeq
<1>3. \A k \in LockKeys : queue[k] # << >> => Len(queue[k]) >= 1
  BY <1>1
<1>4. ASSUME NEW s \in Seq(Clients), s # << >>
      PROVE  /\ Len(Tail(s)) = Len(s) - 1
             /\ \A i \in 1..Len(Tail(s)) : Tail(s)[i] = s[i + 1]
  BY <1>4, HeadTailProperties
\* who goes on is the first waiter of a released key
<1>5. ASSUME NEW c \in Clients, c \in PromotedBy(refs)
      PROVE  \E k \in keys : queue[k] # << >> /\ c = queue[k][1]
  BY <1>5, <1>1 DEF PromotedBy, NextOwner
\* a waiter that is still in a queue has not gone on
<1>6. ASSUME NEW k \in LockKeys, NEW j \in 1..Len(queue'[k])
      PROVE  /\ queue'[k][j] \in Clients
             /\ queue'[k][j] \notin PromotedBy(refs)
             /\ \E l \in 1..Len(queue[k]) : queue'[k][j] = queue[k][l]
             /\ \A i \in 1..Len(queue'[k]) : queue'[k][i] = queue'[k][j] => i = j
  <2>1. CASE queue'[k] = queue[k] /\ k \notin keys
    <3>1. queue[k][j] \in Clients /\ pc[queue[k][j]] = "locking" /\ txKey[queue[k][j]] = k
      BY <2>1, <1>2 DEF LockInv, WaitersWait
    <3>2. queue[k][j] \notin PromotedBy(refs)
      <4> SUFFICES ASSUME queue[k][j] \in PromotedBy(refs) PROVE FALSE
        OBVIOUS
      <4>1. PICK l \in keys : queue[l] # << >> /\ queue[k][j] = queue[l][1]
        BY <3>1, <1>5
      <4>2. txKey[queue[l][1]] = l
        BY <4>1, <1>1, <1>3 DEF ReleasedKeys, LockInv, WaitersWait
      <4> QED BY <4>1, <4>2, <3>1, <2>1
    <3> QED BY <2>1, <3>1, <3>2 DEF LockInv, WaitersWait
  <2>2. CASE k \in keys /\ queue[k] = << >>
    BY <2>2, ReleaseEffect
  <2>3. CASE k \in keys /\ queue[k] # << >>
    <3>1. /\ queue'[k] = Tail(queue[k])
          /\ Len(queue'[k]) = Len(queue[k]) - 1
          /\ \A i \in 1..Len(queue'[k]) : queue'[k][i] = queue[k][i + 1]
      <4>1. queue'[k] = Tail(queue[k])
        BY <2>3, ReleaseEffect
      <4>2. queue[k] \in Seq(Clients) /\ queue[k] # << >>
        BY <2>3, <1>1
      <4> QED BY <4>1, <4>2, <1>4
    <3>2. \A i \in 1..Len(queue'[k]) : i + 1 \in 1..Len(queue[k])
      BY <3>1, <1>1
    <3>3. queue'[k][j] = queue[k][j + 1] /\ j + 1 \in 1..Len(queue[k])
      BY <3>1, <3>2
    <3>4. /\ queue[k][j + 1] \in Clients
          /\ txKey[queue[k][j + 1]] = k
      BY <3>3, <1>2 DEF LockInv, WaitersWait
    <3>5. queue[k][j + 1] \notin PromotedBy(refs)
      <4> SUFFICES ASSUME queue[k][j + 1] \in PromotedBy(refs) PROVE FALSE
        OBVIOUS
      <4>1. PICK l \in keys : queue[l] # << >> /\ queue[k][j + 1] = queue[l][1]
        BY <3>4, <1>5
      <4>2. txKey[queue[l][1]] = l
        BY <4>1, <1>1, <1>3 DEF ReleasedKeys, LockInv, WaitersWait
      <4>3. l = k
        BY <4>1, <4>2, <3>4
      <4>4. j + 1 = 1
        BY <4>1, <4>3, <3>3, <1>1, <1>3 DEF LockInv, WaitersWait
      <4> QED BY <4>4
    <3>6. \A i \in 1..Len(queue'[k]) : queue'[k][i] = queue'[k][j] => i = j
      <4> SUFFICES ASSUME NEW i \in 1..Len(queue'[k]), queue'[k][i] = queue'[k][j]
                   PROVE  i = j
        OBVIOUS
      <4>1. queue[k][i + 1] = queue[k][j + 1]
        BY <3>1, <3>3
      <4>2. i + 1 = j + 1
        BY <4>1, <3>2, <3>3 DEF LockInv, WaitersWait
      <4> QED BY <4>2, <3>1, <1>1
    <3> QED BY <3>3, <3>4, <3>5, <3>6
  <2> QED BY <2>1, <2>2, <2>3, ReleaseEffect
<1>7. \A c \in Clients : pc[c] = "locking" /\ c \notin PromotedBy(refs) => pc'[c] = "locking"
  BY DEF Answer, OnOk
<1>8. WaitersWait'
  <2> SUFFICES ASSUME NEW k \in LockKeys, NEW j \in 1..Len(queue'[k])
               PROVE  /\ pc'[queue'[k][j]] = "locking"
                      /\ txKey'[queue'[k][j]] = k
                      /\ inbox'[queue'[k][j]] = NoRequest
                      /\ \A i \in 1..Len(queue'[k]) : queue'[k][i] = queue'[k][j] => i = j
    BY DEF WaitersWait
  <2>1. PICK l \in 1..Len(queue[k]) : queue'[k][j] = queue[k][l]
    BY ONLY <1>6
  <2>2. pc[queue[k][l]] = "locking" /\ txKey[queue[k][l]] = k /\ inbox[queue[k][l]] = NoRequest
    BY DEF LockInv, WaitersWait
  <2>3. /\ queue'[k][j] \in Clients
        /\ queue'[k][j] \notin PromotedBy(refs)
        /\ \A i \in 1..Len(queue'[k]) : queue'[k][i] = queue'[k][j] => i = j
    BY ONLY <1>6
  <2> DEFINE w == queue'[k][j]
  <2>4. w \in Clients /\ w \notin PromotedBy(refs) /\ pc[w] = "locking" /\ txKey[w] = k
        /\ inbox[w] = NoRequest
    BY <2>1, <2>2, <2>3
  <2> HIDE DEF w
  <2>5. pc'[w] = "locking" /\ txKey'[w] = k /\ inbox'[w] = NoRequest
    BY <2>4, <1>7 DEF Unsent
  <2> QED BY ONLY <2>3, <2>5 DEF w
<1>9. LockRequests'
  <2> SUFFICES ASSUME NEW c \in Clients
               PROVE  /\ inbox'[c].op = "lock" =>
                            pc'[c] = "locking" /\ inbox'[c].key = txKey'[c]
                      /\ inbox'[c].op = "unlock" => pc'[c] = "unlocking"
    BY DEF LockRequests
  <2>1. CASE inbox'[c] = NoRequest
    BY <2>1 DEF NoRequest
  <2>2. CASE inbox'[c] = inbox[c] /\ inbox[c] # NoRequest /\ c \notin unlocked
    <3>1. c \notin PromotedBy(refs)
      <4> SUFFICES ASSUME c \in PromotedBy(refs) PROVE FALSE
        OBVIOUS
      <4>1. PICK l \in keys : queue[l] # << >> /\ c = queue[l][1]
        BY <1>5
      <4>2. inbox[queue[l][1]] = NoRequest
        BY <4>1, <1>1, <1>3 DEF LockInv, WaitersWait, ReleasedKeys
      <4> QED BY <4>1, <4>2, <2>2
    <3>2. pc[c] \in {"locking", "unlocking"} => pc'[c] = pc[c]
      BY <2>2, <3>1 DEF Answer, OnOk
    <3> QED BY <2>2, <3>2 DEF LockInv, LockRequests
  <2> QED BY <2>1, <2>2 DEF Unsent
<1>10. OwnerHolds'
  <2> SUFFICES ASSUME NEW k \in LockKeys, NEW c \in Clients, In(c, k)'
               PROVE  owner'[k] = c
    BY DEF OwnerHolds
  <2>1. c \in alive /\ txKey[c] = k /\ pc'[c] \in Inside
    BY DEF In
  <2>2. CASE In(c, k)
    <3>1. owner[k] = c /\ pc[c] # "unlocking"
      BY <2>2 DEF LockInv, OwnerHolds, In, Inside
    <3>2. k \notin keys
      BY <3>1, <2>1 DEF ReleasedKeys
    <3> QED BY <3>1, <3>2, ReleaseEffect
  <2>3. CASE ~In(c, k)
    <3>1. pc[c] \notin Inside
      BY <2>1, <2>3 DEF In
    <3>2. pc[c] = "locking" /\ c \in PromotedBy(refs)
      BY <2>1, <3>1 DEF Answer, OnOk, OnError, Inside
    <3>3. PICK l \in keys : queue[l] # << >> /\ c = queue[l][1]
      BY <3>2, <1>5
    <3>4. txKey[c] = l /\ l \in LockKeys
      BY <3>3, <1>1, <1>3 DEF LockInv, WaitersWait, ReleasedKeys
    <3> QED BY <3>3, <3>4, <2>1, ReleaseEffect
  <2> QED BY <2>2, <2>3
<1>11. DownsAreDead'
  BY DEF Release, DeadOf, LockInv, DownsAreDead
<1> QED BY <1>8, <1>9, <1>10, <1>11 DEF LockInv

\* With nothing released, a release changes nothing.
LEMMA ReleaseNothing ==
    ASSUME LockTypeOK, UNCHANGED lockVars
    PROVE  Release({}) /\ PromotedBy({}) = {}
<1>1. ReleasedKeys({}) = {}
  BY DEF ReleasedKeys
<1> QED BY <1>1 DEF Release, PromotedBy, LockTypeOK, lockVars, DeadOf

\* A process that does not wait moves: the lock invariant stays if it enters no
\* transaction and sends a lock or unlock request only to wait for the answer.
LEMMA MoveKeepsLockInv ==
    ASSUME LockTypeOK, ClientTypeOK, LockInv, NEW c \in Clients,
           pc[c] \in {"idle", "body", "ending"},
           UNCHANGED lockVars, alive' = alive,
           \A d \in Clients \ {c} : /\ pc'[d] = pc[d]
                                   /\ txKey'[d] = txKey[d]
                                   /\ inbox'[d] = inbox[d],
           \A k \in LockKeys : In(c, k)' => In(c, k),
           inbox'[c].op = "lock" => pc'[c] = "locking" /\ inbox'[c].key = txKey'[c],
           inbox'[c].op = "unlock" => pc'[c] = "unlocking"
    PROVE  LockInv'
<1> USE DEF LockTypeOK, ClientTypeOK, lockVars
<1>1. OwnerHolds'
  <2> SUFFICES ASSUME NEW k \in LockKeys, NEW d \in Clients, In(d, k)'
               PROVE  owner[k] = d
    BY DEF OwnerHolds
  <2>1. In(d, k)
    <3>1. CASE d = c
      BY <3>1
    <3>2. CASE d # c
      BY <3>2 DEF In
    <3> QED BY <3>1, <3>2
  <2> QED BY <2>1 DEF LockInv, OwnerHolds
<1>2. WaitersWait'
  <2> SUFFICES ASSUME NEW k \in LockKeys, NEW j \in 1..Len(queue[k])
               PROVE  /\ pc'[queue[k][j]] = "locking"
                      /\ txKey'[queue[k][j]] = k
                      /\ inbox'[queue[k][j]] = NoRequest
                      /\ \A i \in 1..Len(queue[k]) : queue[k][i] = queue[k][j] => i = j
    BY DEF WaitersWait
  <2>1. queue[k][j] \in Clients
    BY ElementOfSeq
  <2>2. pc[queue[k][j]] = "locking"
    BY DEF LockInv, WaitersWait
  <2> QED BY <2>1, <2>2 DEF LockInv, WaitersWait
<1>3. LockRequests'
  BY DEF LockInv, LockRequests
<1>4. DownsAreDead'
  BY DEF LockInv, DownsAreDead
<1> QED BY <1>1, <1>2, <1>3, <1>4 DEF LockInv

\* The steps of a caller.
LEMMA CallerKeepsLockInv ==
    ASSUME LockTypeOK, ClientTypeOK, LockInv, TransactionsAssumption, NEW c \in Clients,
           \/ \E k \in LockKeys : Begin(c, k)
           \/ \E i \in Ids, value \in Entries : Put(c, i, value)
           \/ ClearInside(c) \/ SendCommit(c) \/ Raise(c) \/ End(c)
           \/ \E request \in Requests :
                 request.op \notin {"lock", "unlock"} /\ PlainCall(c, request)
    PROVE  LockInv'
<1> USE DEF LockTypeOK, ClientTypeOK, At, Call, In, Inside
<1>1. ASSUME NEW k \in LockKeys, Begin(c, k) PROVE LockInv'
  BY <1>1, MoveKeepsLockInv DEF Begin
<1>2. ASSUME NEW i \in Ids, NEW value \in Entries, Put(c, i, value) PROVE LockInv'
  BY <1>2, MoveKeepsLockInv DEF Put, LockInv, LockRequests
<1>3. CASE ClearInside(c)
  BY <1>3, MoveKeepsLockInv DEF ClearInside, LockInv, LockRequests
<1>4. CASE SendCommit(c)
  BY <1>4, MoveKeepsLockInv DEF SendCommit
<1>5. CASE Raise(c)
  BY <1>5, MoveKeepsLockInv DEF Raise, LockInv, LockRequests
<1>6. CASE End(c)
  BY <1>6, MoveKeepsLockInv DEF End
<1>7. ASSUME NEW request \in Requests, request.op \notin {"lock", "unlock"},
             PlainCall(c, request)
      PROVE  LockInv'
  BY <1>7, MoveKeepsLockInv DEF PlainCall
<1> QED BY <1>1, <1>2, <1>3, <1>4, <1>5, <1>6, <1>7

LEMMA DieKeepsLockInv ==
    ASSUME LockTypeOK, ClientTypeOK, LockInv, NEW c \in Clients, Die(c)
    PROVE  LockInv'
<1> USE DEF LockTypeOK, ClientTypeOK, Die, Exit
<1>1. OwnerHolds'
  BY DEF LockInv, OwnerHolds, In
<1>2. WaitersWait' /\ LockRequests'
  BY DEF LockInv, WaitersWait, LockRequests
<1>3. DownsAreDead'
  BY DEF LockInv, DownsAreDead
<1> QED BY <1>1, <1>2, <1>3 DEF LockInv

\* The server's lock handlers.
LEMMA HandleLockKeepsLockInv ==
    ASSUME LockTypeOK, ClientTypeOK, LockInv, NEW c \in Clients, HandleLock(c)
    PROVE  LockInv'
<1> USE DEF LockTypeOK, ClientTypeOK
<1> DEFINE k == inbox[c].key
<1>1. inbox[c].op = "lock" /\ pc[c] = "locking" /\ k = txKey[c]
  BY DEF HandleLock, Received, LockInv, LockRequests
<1>2. k \in LockKeys
  BY <1>1 DEF Requests
<1>3. inbox[c] # NoRequest
  BY <1>1 DEF NoRequest
<1>4. inbox' = [inbox EXCEPT ![c] = NoRequest] /\ txKey' = txKey /\ alive' = alive
  BY DEF HandleLock, Consumed
<1>5. \A l \in LockKeys : queue[l] \in Seq(Clients)
  OBVIOUS
<1>6. \A l \in LockKeys : \A j \in 1..Len(queue[l]) :
          queue[l][j] \in Clients /\ queue[l][j] # c
  BY <1>3, <1>5, ElementOfSeq DEF LockInv, WaitersWait
<1>7. CASE Acquire(c, k) /\ Answer({}, {}, {c}, {})
  <2>1. \A d \in Clients : pc'[d] = IF d = c /\ d \in alive THEN "body" ELSE pc[d]
    BY <1>7, <1>1 DEF Answer
  <2>2. OwnerHolds'
    <3> SUFFICES ASSUME NEW l \in LockKeys, NEW d \in Clients, In(d, l)'
                 PROVE  owner'[l] = d
      BY DEF OwnerHolds
    <3>1. CASE d = c
      BY <3>1, <1>1, <1>4, <1>7, <1>2 DEF In, Acquire
    <3>2. CASE d # c
      <4>1. In(d, l)
        BY <3>2, <2>1, <1>4 DEF In
      <4>2. owner[l] = d
        BY <4>1 DEF LockInv, OwnerHolds
      <4>3. owner[k] = None
        BY <1>7 DEF Acquire
      <4>4. l # k
        BY <4>2, <4>3, NoneAssumption
      <4> QED BY <4>2, <4>4, <1>7 DEF Acquire
    <3> QED BY <3>1, <3>2
  <2>3. WaitersWait'
    <3>1. queue' = queue
      BY <1>7 DEF Acquire
    <3> SUFFICES ASSUME NEW l \in LockKeys, NEW j \in 1..Len(queue[l])
                 PROVE  /\ pc'[queue[l][j]] = "locking"
                        /\ txKey'[queue[l][j]] = l
                        /\ inbox'[queue[l][j]] = NoRequest
                        /\ \A i \in 1..Len(queue[l]) : queue[l][i] = queue[l][j] => i = j
      BY <3>1 DEF WaitersWait
    <3>2. /\ pc[queue[l][j]] = "locking"
          /\ txKey[queue[l][j]] = l
          /\ inbox[queue[l][j]] = NoRequest
          /\ \A i \in 1..Len(queue[l]) : queue[l][i] = queue[l][j] => i = j
      BY DEF LockInv, WaitersWait
    <3>3. queue[l][j] \in Clients /\ queue[l][j] # c
      BY <1>6
    <3> QED BY <3>2, <3>3, <2>1, <1>4
  <2>4. LockRequests'
    BY <2>1, <1>4 DEF LockInv, LockRequests, NoRequest
  <2>5. DownsAreDead'
    BY <1>7, <1>4 DEF LockInv, DownsAreDead, Acquire, DeadOf
  <2> QED BY <2>2, <2>3, <2>4, <2>5 DEF LockInv
<1>8. CASE Enqueue(c, k) /\ UNCHANGED pc
  <2>1. OwnerHolds' /\ DownsAreDead'
    BY <1>8, <1>4 DEF LockInv, OwnerHolds, DownsAreDead, In, Enqueue
  <2>2. LockRequests'
    BY <1>8, <1>4 DEF LockInv, LockRequests, NoRequest
  <2>3. WaitersWait'
    <3> SUFFICES ASSUME NEW l \in LockKeys, NEW j \in 1..Len(queue'[l])
                 PROVE  /\ pc[queue'[l][j]] = "locking"
                        /\ txKey[queue'[l][j]] = l
                        /\ inbox'[queue'[l][j]] = NoRequest
                        /\ \A i \in 1..Len(queue'[l]) :
                              queue'[l][i] = queue'[l][j] => i = j
      BY <1>8, <1>4 DEF WaitersWait
    <3>1. CASE l # k
      <4>1. queue'[l] = queue[l]
        BY <3>1, <1>8 DEF Enqueue
      <4> QED BY <4>1, <1>4, <1>6 DEF LockInv, WaitersWait
    <3>2. CASE l = k
      <4>1. /\ queue'[l] = Append(queue[l], c)
            /\ Len(queue'[l]) = Len(queue[l]) + 1
            /\ \A i \in 1..Len(queue[l]) : queue'[l][i] = queue[l][i]
            /\ queue'[l][Len(queue[l]) + 1] = c
        <5>1. queue'[l] = Append(queue[l], c)
          BY <3>2, <1>8 DEF Enqueue
        <5>2. queue[l] \in Seq(Clients)
          BY <1>5
        <5> QED BY <5>1, <5>2, AppendProperties
      <4>2. Len(queue[l]) \in Nat
        BY <1>5
      <4>3. CASE j = Len(queue[l]) + 1
        BY <4>1, <4>2, <4>3, <3>2, <1>1, <1>4, <1>6
      <4>4. CASE j \in 1..Len(queue[l])
        BY <4>1, <4>2, <4>4, <1>4, <1>6 DEF LockInv, WaitersWait
      <4> QED BY <4>1, <4>2, <4>3, <4>4
    <3> QED BY <3>1, <3>2
  <2> QED BY <2>1, <2>2, <2>3 DEF LockInv
<1> QED BY <1>7, <1>8 DEF HandleLock

LEMMA HandleUnlockKeepsLockInv ==
    ASSUME LockTypeOK, ClientTypeOK, LockInv, NoneAssumption, NEW c \in Clients,
           HandleUnlock(c)
    PROVE  LockInv'
<1> DEFINE refs == {<<c, inbox[c].key>>}
<1>1. pc[c] = "unlocking"
  BY DEF HandleUnlock, Received, LockInv, LockRequests
<1>2. \A k \in LockKeys : <<owner[k], k>> \in refs => pc[owner[k]] = "unlocking"
  BY <1>1
<1>3. Unsent({c})
  BY DEF HandleUnlock, Consumed, Unsent, ClientTypeOK
<1>4. /\ Release(refs) /\ Answer({}, {}, PromotedBy(refs), {c})
      /\ alive' = alive /\ txKey' = txKey
  BY DEF HandleUnlock
<1> QED BY <1>2, <1>3, <1>4, ReleaseKeepsLockInv

-----------------------------------------------------------------------------
\* The buffer's functions return buffers, and its mutations are a data set.
LEMMA BufferTypes ==
    ASSUME NEW b \in BufferType, NEW ids, NEW fetched \in DataSets,
           NEW i \in Ids, NEW value \in Entries
    PROVE  /\ NewBuffer \in BufferType
           /\ ClearBuffer \in BufferType
           /\ CacheFetched(b, ids, fetched) \in BufferType
           /\ PutEntry(b, i, value) \in BufferType
<1> USE DEF BufferType, Rows, Entries
<1>1. NewBuffer \in BufferType /\ ClearBuffer \in BufferType
  BY DEF NewBuffer, ClearBuffer, NoRows
<1>2. \A j \in DOMAIN fetched : fetched[j] \in Entries
  BY DEF DataSets
<1>3. CacheFetched(b, ids, fetched) \in BufferType
  BY <1>2 DEF CacheFetched
<1>4. PutEntry(b, i, value) \in BufferType
  BY DEF PutEntry
<1> QED BY <1>1, <1>3, <1>4

LEMMA NewBufferType == NewBuffer \in BufferType /\ ClearBuffer \in BufferType
BY DEF NewBuffer, ClearBuffer, NoRows, BufferType, Rows, Entries

LEMMA NoDataType == NoData \in DataSets
BY DEF NoData, DataSets

LEMMA MutationDataType ==
    ASSUME NEW b \in BufferType
    PROVE  MutationData(b) \in DataSets
<1> DEFINE S == Present(b.mutation)
<1>1. S \in SUBSET Ids
  BY DEF Present, BufferType
<1>2. \A i \in S : b.mutation[i] \in Entries
  BY DEF Present, BufferType, Rows
<1>3. MutationData(b) \in [S -> Entries]
  BY <1>2 DEF MutationData
<1> QED BY <1>1, <1>3 DEF DataSets

\* The steps of a caller keep the types.
LEMMA CallerType ==
    ASSUME LockTypeOK, ClientTypeOK, TransactionsAssumption, NEW c \in Clients,
           \/ \E k \in LockKeys : Begin(c, k)
           \/ \E i \in Ids, value \in Entries : Put(c, i, value)
           \/ ClearInside(c) \/ SendCommit(c) \/ Raise(c) \/ End(c) \/ Die(c)
           \/ \E request \in Requests : PlainCall(c, request)
    PROVE  LockTypeOK' /\ ClientTypeOK'
<1> USE DEF LockTypeOK, ClientTypeOK, lockVars, PCs, Waiting
<1>1. ASSUME NEW k \in LockKeys, Begin(c, k) PROVE LockTypeOK' /\ ClientTypeOK'
  <2>1. [op |-> "lock", key |-> k] \in Requests
    BY DEF Requests
  <2>2. txKey' \in [Clients -> LockKeys \union {None}]
    BY <1>1 DEF Begin
  <2>3. buffer' \in [Clients -> BufferType] /\ inbox' \in [Clients -> Requests]
    BY <1>1, <2>1, NewBufferType DEF Begin, Call
  <2>4. \A d \in Clients : pc'[d] \notin {"idle", "calling"} => txKey'[d] \in LockKeys
    BY <1>1 DEF Begin, Call
  <2>5. calls' \in [Clients -> 0..MaxCalls]
    BY <1>1 DEF Begin, TransactionsAssumption
  <2> QED BY <1>1, <2>2, <2>3, <2>4, <2>5 DEF Begin, Call
<1>2. ASSUME NEW i \in Ids, NEW value \in Entries, Put(c, i, value)
      PROVE  LockTypeOK' /\ ClientTypeOK'
  <2>1. buffer[c] \in BufferType
    OBVIOUS
  <2>2. PutEntry(buffer[c], i, value) \in BufferType
    BY <2>1, NoDataType, BufferTypes
  <2> QED BY <1>2, <2>2 DEF Put
<1>3. CASE ClearInside(c)
  BY <1>3, NewBufferType DEF ClearInside
<1>4. CASE SendCommit(c)
  <2>1. buffer[c] \in BufferType
    OBVIOUS
  <2>2. MutationData(buffer[c]) \in DataSets /\ buffer[c].cleared \in BOOLEAN
    BY <2>1, MutationDataType DEF BufferType
  <2>3. [op |-> "commit", data |-> MutationData(buffer[c]), clear |-> buffer[c].cleared]
            \in Requests
    BY <2>2 DEF Requests
  <2>4. pc' = [pc EXCEPT ![c] = "committing"] /\ pc[c] = "body" /\ txKey' = txKey
    BY <1>4 DEF SendCommit, Call, At
  <2>5. \A d \in Clients : pc'[d] \notin {"idle", "calling"} => txKey'[d] \in LockKeys
    BY <2>4
  <2> QED BY <1>4, <2>3, <2>5 DEF SendCommit, Call
<1>5. CASE Raise(c)
  <2>1. pc' = [pc EXCEPT ![c] = "ending"] /\ pc[c] = "body" /\ txKey' = txKey
    BY <1>5 DEF Raise, At
  <2>2. \A d \in Clients : pc'[d] \notin {"idle", "calling"} => txKey'[d] \in LockKeys
    BY <2>1
  <2> QED BY <1>5, <2>2 DEF Raise
<1>6. CASE End(c)
  <2>1. [op |-> "unlock", key |-> txKey[c]] \in Requests
    BY <1>6 DEF Requests, End, At
  <2>2. pc' = [pc EXCEPT ![c] = "unlocking"] /\ pc[c] = "ending" /\ txKey' = txKey
    BY <1>6 DEF End, Call, At
  <2>3. \A d \in Clients : pc'[d] \notin {"idle", "calling"} => txKey'[d] \in LockKeys
    BY <2>2
  <2> QED BY <1>6, <2>1, <2>3, NewBufferType DEF End, Call
<1>7. CASE Die(c)
  BY <1>7, NewBufferType DEF Die, Exit
<1>8. ASSUME NEW request \in Requests, PlainCall(c, request)
      PROVE  LockTypeOK' /\ ClientTypeOK'
  BY <1>8 DEF PlainCall, Call, At, TransactionsAssumption
<1> QED BY <1>1, <1>2, <1>3, <1>4, <1>5, <1>6, <1>7, <1>8
\* An answer from the server with the locks and the caller's data well typed.
LEMMA AnsweredType ==
    ASSUME ClientTypeOK,
           pc' \in [Clients -> PCs],
           \A c \in Clients : pc[c] \in {"idle", "calling"} => pc'[c] \in {"idle", "calling"},
           txKey' = txKey, calls' = calls,
           buffer' \in [Clients -> BufferType],
           inbox' \in [Clients -> Requests]
    PROVE  ClientTypeOK'
BY DEF ClientTypeOK

LEMMA ConsumedType ==
    ASSUME ClientTypeOK, NEW c \in Clients, Consumed(c)
    PROVE  inbox' \in [Clients -> Requests]
<1>1. NoRequest \in Requests
  BY DEF NoRequest, Requests
<1> QED BY <1>1 DEF ClientTypeOK, Consumed

\* The handlers of lock and unlock requests.
LEMMA HandlersType ==
    ASSUME LockTypeOK, ClientTypeOK, NEW c \in Clients, HandleLock(c) \/ HandleUnlock(c)
    PROVE  LockTypeOK' /\ ClientTypeOK'
<1>2. /\ Consumed(c)
      /\ alive' = alive /\ txKey' = txKey /\ buffer' = buffer /\ calls' = calls
  BY DEF HandleLock, HandleUnlock
<1>3. inbox[c].op = "lock" => inbox[c].key \in LockKeys
  BY DEF ClientTypeOK, Requests
<1>4. pc \in [Clients -> PCs] /\ buffer \in [Clients -> BufferType]
  BY DEF ClientTypeOK
<1>5. CASE HandleLock(c)
  <2> DEFINE k == inbox[c].key
  <2>1. k \in LockKeys
    BY <1>3, <1>5 DEF HandleLock, Received
  <2>2. CASE Acquire(c, k) /\ Answer({}, {}, {c}, {})
    <3>1. LockTypeOK'
      BY <2>1, <2>2, <1>2 DEF LockTypeOK, Acquire, DeadOf
    <3> QED BY <3>1, <2>2, <1>2, <1>4, AnswerType, AnsweredType, ConsumedType
  <2>3. CASE Enqueue(c, k) /\ UNCHANGED pc
    <3>1. Append(queue[k], c) \in Seq(Clients)
      BY <2>1 DEF LockTypeOK
    <3>2. LockTypeOK'
      BY <3>1, <2>1, <2>3, <1>2 DEF LockTypeOK, Enqueue
    <3> QED BY <3>2, <2>3, <1>2, <1>4, AnsweredType, ConsumedType
  <2> QED BY <1>5, <2>2, <2>3 DEF HandleLock
<1>6. CASE HandleUnlock(c)
  <2>1. PICK refs : Release(refs) /\ Answer({}, {}, PromotedBy(refs), {c})
    BY <1>6 DEF HandleUnlock
  <2>2. LockTypeOK'
    BY <2>1, <1>2, ReleaseType DEF LockTypeOK
  <2> QED BY <2>1, <2>2, <1>2, <1>4, AnswerType, AnsweredType, ConsumedType
<1> QED BY <1>5, <1>6

\* Nobody is answered.
LEMMA AnswerNobody ==
    ASSUME pc \in [Clients -> PCs], pc' = pc
    PROVE  Answer({}, {}, {}, {})
<1>1. pc' = [d \in Clients |-> pc[d]]
  OBVIOUS
<1> QED BY <1>1, Zenon DEF Answer

\* What was fetched enters a private table.
LEMMA CacheFetchedType ==
    ASSUME NEW b \in BufferType, NEW ids, NEW fetched \in DataSets
    PROVE  CacheFetched(b, ids, fetched) \in BufferType
<1>1. CASE Ids = {}
  BY <1>1 DEF CacheFetched, BufferType
<1>2. CASE Ids # {}
  <2>1. PICK i : i \in Ids
    BY <1>2
  <2>2. Missing \in Entries
    BY DEF Entries
  <2> QED BY <2>1, <2>2, BufferTypes
<1> QED BY <1>1, <1>2

\* The initial states.
LEMMA InitialType ==
    ASSUME LockInit, ClientInit, TransactionsAssumption
    PROVE  LockTypeOK /\ ClientTypeOK
<1>1. LockTypeOK
  BY DEF LockInit, LockTypeOK
<1>2. ClientTypeOK
  BY NewBufferType DEF ClientInit, ClientTypeOK, PCs, NoRequest, Requests, TransactionsAssumption
<1> QED BY <1>1, <1>2

LEMMA InitialLocks ==
    ASSUME LockInit, ClientInit
    PROVE  LockInv
<1>1. OwnerHolds /\ DownsAreDead
  BY DEF ClientInit, LockInit, OwnerHolds, In, Inside, DownsAreDead
<1>2. WaitersWait
  BY DEF LockInit, WaitersWait
<1>3. LockRequests
  BY DEF ClientInit, LockRequests, NoRequest
<1> QED BY <1>1, <1>2, <1>3 DEF LockInv
=============================================================================
