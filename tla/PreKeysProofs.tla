--------------------------- MODULE PreKeysProofs ---------------------------
(***************************************************************************)
(* Proofs about PreKeys, for any tasks and bounds.  First what holds whether *)
(* uploads overlap or not and however often the socket crashes: types, and   *)
(* that only stored keys are sent (Inv).  Then what holds until two uploads  *)
(* or receipts overlap, an update is dropped or the socket restarts (Turns): *)
(* one key for each id, stored until it is used, and counted in both copies  *)
(* of the credentials.  Last, what a key can be lost to in any case.        *)
(***************************************************************************)
EXTENDS PreKeys, SequenceTheorems, TLAPS

(* ----- the operators ---------------------------------------------------  *)

(* The update of the credentials, and where its ids lie.                    *)
LEMMA UpdateIsCreds ==
  ASSUME NEW auth \in Creds, NEW count \in Nat
  PROVE  /\ Update(auth, count) \in Creds
         /\ Update(auth, count).next <= MaxId + 1 =>
              /\ NewIds(auth, count) \subseteq Ids
              /\ NodeIds(auth, count) \subseteq Ids
  <1>1. auth.next \in Nat \ {0} /\ auth.first \in Nat \ {0}
    BY DEF Creds
  <1>2. Missing(auth, count) \in Nat
    BY <1>1 DEF Missing, Larger
  <1>3. /\ auth.next + Missing(auth, count) >= auth.first + count
        /\ auth.next + Missing(auth, count) >= auth.next
    BY <1>1 DEF Missing, Larger
  <1>4. Update(auth, count).next = auth.next + Missing(auth, count)
    BY <1>1, <1>2, <1>3 DEF Update, Larger
  <1>5. Update(auth, count) \in Creds
    BY <1>1, <1>2 DEF Update, Larger, Creds
  <1>6. ASSUME Update(auth, count).next <= MaxId + 1
        PROVE  NewIds(auth, count) \subseteq Ids /\ NodeIds(auth, count) \subseteq Ids
    BY <1>1, <1>2, <1>3, <1>4, <1>6, CountAssumption DEF NewIds, NodeIds, Ids
  <1>. QED  BY <1>5, <1>6

(* What is made is well typed, and one pair for each id.                    *)
LEMMA FreshPairs ==
  ASSUME minted \in [Ids -> Nat], NEW ids, ids \subseteq Ids
  PROVE  /\ Fresh(ids) \subseteq Pairs
         /\ Mint(ids) => minted' \in [Ids -> Nat]
  BY DEF Fresh, Pairs, Mint

(* A write of some pairs shows them or the rows of before.                  *)
LEMMA WrittenRows ==
  ASSUME held \in [Ids -> Nat], NEW pairs, pairs \subseteq Pairs
  PROVE  /\ Written(pairs) \in [Ids -> Nat]
         /\ \A i \in Ids : \/ [id |-> i, gen |-> Written(pairs)[i]] \in pairs
                           \/ Written(pairs)[i] = held[i]
  <1>1. ASSUME NEW i \in Ids, i \in IdsOf(pairs)
        PROVE  /\ Written(pairs)[i] \in Nat
               /\ [id |-> i, gen |-> Written(pairs)[i]] \in pairs
    <2>1. PICK p \in pairs : p.id = i
      BY <1>1 DEF IdsOf
    <2>2. DEFINE q == CHOOSE r \in pairs : r.id = i
    <2>3. q \in pairs /\ q.id = i
      BY <2>1
    <2>4. q \in Pairs
      BY <2>3
    <2>5. Written(pairs)[i] = q.gen
      BY <1>1 DEF Written
    <2>6. q = [id |-> i, gen |-> q.gen] /\ q.gen \in Nat
      BY <2>3, <2>4 DEF Pairs
    <2>. QED  BY <2>3, <2>5, <2>6
  <1>2. ASSUME NEW i \in Ids, i \notin IdsOf(pairs)
        PROVE  Written(pairs)[i] = held[i]
    BY <1>2 DEF Written
  <1>3. Written(pairs) \in [Ids -> Nat]
    <2>1. \A i \in Ids : Written(pairs)[i] \in Nat
      BY <1>1, <1>2
    <2>2. Written(pairs) = [i \in Ids |-> Written(pairs)[i]]
      BY DEF Written
    <2>. QED  BY <2>1, <2>2
  <1>. QED  BY <1>1, <1>2, <1>3

LEMMA ReadPairs ==
  ASSUME NEW rows \in [Ids -> Nat], NEW ids, ids \subseteq Ids
  PROVE  /\ Read(rows, ids) \subseteq Pairs
         /\ \A p \in Read(rows, ids) :
              p.id \in Ids /\ rows[p.id] # 0 /\ p = [id |-> p.id, gen |-> rows[p.id]]
  BY DEF Read, Pairs

LEMMA IdleIsTask == Idle \in TaskRecords /\ Done \in TaskRecords
  BY DEF Idle, Done, TaskRecords, TaskStates, Inside, NewCreds, Creds

LEMMA CountedIsTask ==
  ASSUME NEW r \in TaskRecords, NEW level \in Nat
  PROVE  /\ Counted(r, level) \in TaskRecords
         /\ Counted(r, level).pc = r.pc
  <1>1. Requested(level) \in Nat
    BY CountAssumption DEF Requested
  <1>. QED  BY <1>1 DEF Counted, TaskRecords

LEMMA AfterIsTask ==
  ASSUME NEW t \in Tasks, task[t] \in TaskRecords
  PROVE  AfterUpload(t) \in TaskRecords /\ AfterUpload(t).pc \in {"digest", "done"}
  BY IdleIsTask, ZenonT(40) DEF AfterUpload, Idle, Done, TaskRecords, TaskStates

LEMMA NextTryIsTask ==
  ASSUME NEW r \in TaskRecords
  PROVE  /\ NextTry(r) \in TaskRecords
         /\ NextTry(r).keys = {} /\ NextTry(r).fresh = r.fresh
  <1>1. r.tries + 1 \in Nat
    BY DEF TaskRecords
  <1>2. \A n \in Nat : [r EXCEPT !.pc = "generate", !.tries = n, !.keys = {}] \in TaskRecords
    BY DEF TaskRecords, TaskStates, Inside
  <1>3. \A n \in Nat : /\ [r EXCEPT !.pc = "generate", !.tries = n, !.keys = {}].keys = {}
                       /\ [r EXCEPT !.pc = "generate", !.tries = n, !.keys = {}].fresh = r.fresh
    BY DEF TaskRecords
  <1>. QED  BY <1>1, <1>2, <1>3 DEF NextTry

(* What a message queue holds after one is added or taken.                  *)
LEMMA Appended ==
  ASSUME NEW S, NEW s \in Seq(S), NEW e \in S
  PROVE  /\ Append(s, e) \in Seq(S)
         /\ \A i \in DOMAIN Append(s, e) :
              \/ i \in DOMAIN s /\ Append(s, e)[i] = s[i]
              \/ Append(s, e)[i] = e
  OBVIOUS

LEMMA Taken ==
  ASSUME NEW S, NEW s \in Seq(S), s # <<>>
  PROVE  /\ Tail(s) \in Seq(S) /\ Head(s) \in S /\ 1 \in DOMAIN s /\ Head(s) = s[1]
         /\ \A i \in DOMAIN Tail(s) : i + 1 \in DOMAIN s /\ Tail(s)[i] = s[i + 1]
  OBVIOUS

(* ----- the invariant ---------------------------------------------------  *)

(* Every pair on its way to somebody has been in the store, or is in the     *)
(* private table that its upload is about to commit.                        *)
KeysHeld ==
  /\ sent \subseteq committed
  /\ \A i \in Ids : held[i] # 0 => [id |-> i, gen |-> held[i]] \in committed
  /\ \A t \in Tasks : task[t].keys \subseteq committed \cup task[t].fresh
  /\ \A t \in Tasks : task[t].pc # "commit" => task[t].fresh = {}
  /\ \A i \in DOMAIN mailbox : mailbox[i].kind = "query" => mailbox[i].keys \subseteq committed
  /\ receipt.keys \subseteq committed
Inv == TypeOK /\ KeysHeld

others == <<creds, storeCreds, mailbox, emitted, tapped, held, receipt, served, bundle, taken,
            minted, committed, sent, used, open, crashes, closes>>

LEMMA InitHolds == Init => Inv
  <1>. SUFFICES ASSUME Init PROVE Inv
    OBVIOUS
  <1>0. disturbed \in BOOLEAN
    BY Zenon DEF Init
  <1>1. TypeOK
    BY <1>0, IdleIsTask, CountAssumption, TaskAssumption
    DEF Init, TypeOK, NewCreds, Creds, Receipts, Pairs
  <1>2. KeysHeld
    BY DEF Init, KeysHeld, Idle
  <1>. QED  BY <1>1, <1>2 DEF Inv

(* One task's record changes: the clauses about tasks stay.                 *)
LEMMA TaskChange ==
  ASSUME Inv, NEW t \in Tasks, NEW r \in TaskRecords,
         task' = [task EXCEPT ![t] = r],
         r.keys \subseteq committed, r.fresh = {},
         lock' = lock \/ lock' = NoTask, lock' # t
  PROVE  /\ task' \in [Tasks -> TaskRecords]
         /\ \A s \in Tasks : task'[s].keys \subseteq committed \cup task'[s].fresh
         /\ \A s \in Tasks : task'[s].pc # "commit" => task'[s].fresh = {}
         /\ lock' \in Tasks \cup {NoTask}
         /\ lock' # NoTask => task'[lock'].pc = "commit"
  BY DEF Inv, TypeOK, KeysHeld

(* Steps that change one task, and perhaps give its lock back.              *)
LEMMA TaskAlone ==
  ASSUME Inv, NEW t \in Tasks, NEW r \in TaskRecords,
         task' = [task EXCEPT ![t] = r],
         r.keys \subseteq committed, r.fresh = {},
         lock' = lock \/ lock' = NoTask, lock' # t, UNCHANGED others, disturbed' \in BOOLEAN
  PROVE  Inv'
  <1>1. TypeOK'
    BY TaskChange DEF Inv, TypeOK, others
  <1>2. KeysHeld'
    BY TaskChange DEF Inv, KeysHeld, others
  <1>. QED  BY <1>1, <1>2 DEF Inv

(* A task that is not committing has no lock.                               *)
LEMMA NotCommitting ==
  ASSUME Inv, NEW t \in Tasks, task[t].pc # "commit"
  PROVE  /\ lock # t /\ task[t].fresh = {} /\ task[t].keys \subseteq committed
         /\ task[t] \in TaskRecords
  BY TaskAssumption DEF Inv, TypeOK, KeysHeld

LEMMA StartHolds ==
  ASSUME Inv, NEW t \in Tasks, Start(t)
  PROVE  Inv'
  <1>. USE NotCommitting, TaskAlone DEF OnlyStart, others, network, routes, link
  <1>1. creds \in Creds /\ crashes \in Nat
    BY DEF Inv, TypeOK
  <1>0. disturbed' \in BOOLEAN
    BY Zenon DEF Start, StartPostAuth, StartLow, Begin
  <1>2. CASE StartPostAuth(t)
    <2>1. DEFINE r == [Idle EXCEPT !.pc = "count", !.start = creds, !.stage = "first",
                                   !.socket = crashes]
    <2>2. r \in TaskRecords /\ r.keys = {} /\ r.fresh = {}
      BY <1>1, IdleIsTask DEF Idle, TaskRecords, TaskStates
    <2>3. task' = [task EXCEPT ![t] = r] /\ UNCHANGED others /\ lock' = lock /\ lock' # t
      BY <1>2 DEF StartPostAuth
    <2>. HIDE DEF r
    <2>. QED  BY <1>0, <2>2, <2>3
  <1>3. CASE StartLow(t)
    <2>1. PICK level \in 0..(MinCount + 1) :
            task' = [task EXCEPT ![t] = Counted([Idle EXCEPT !.pc = "enter", !.start = creds,
                                                               !.socket = crashes], level)]
      BY <1>3 DEF StartLow
    <2>2. DEFINE q == [Idle EXCEPT !.pc = "enter", !.start = creds, !.socket = crashes]
    <2>3. q \in TaskRecords /\ q.keys = {} /\ q.fresh = {}
      BY <1>1, IdleIsTask DEF Idle, TaskRecords, TaskStates
    <2>4. task' = [task EXCEPT ![t] = Counted(q, level)] /\ UNCHANGED others /\ lock' = lock /\ lock' # t
      BY <1>3, <2>1 DEF StartLow
    <2>. HIDE DEF q
    <2>5. Counted(q, level) \in TaskRecords
      BY <2>3, CountedIsTask, CountAssumption
    <2>6. Counted(q, level).keys = {} /\ Counted(q, level).fresh = {}
      BY <2>3 DEF Counted, TaskRecords
    <2>. QED  BY <1>0, <2>4, <2>5, <2>6
  <1>. QED  BY <1>2, <1>3 DEF Start

LEMMA AfterKeepsNothing ==
  ASSUME NEW t \in Tasks
  PROVE  AfterUpload(t).keys = {} /\ AfterUpload(t).fresh = {}
  BY DEF AfterUpload, Idle, Done

(* The steps of a task that touch nothing but its own record.               *)
LEMMA QuietWorkHolds ==
  ASSUME Inv, NEW t \in Tasks,
         Count(t) \/ Enter(t) \/ Check(t) \/ Digest(t) \/ DigestFails(t)
  PROVE  Inv'
  <1>1. /\ task[t].pc # "commit" /\ UNCHANGED others /\ lock' = lock /\ disturbed' \in BOOLEAN
    BY DEF Count, Enter, Check, Digest, DigestFails, OnlyTask, others, network, routes, link, Inv, TypeOK
  <1>2. /\ lock' # t /\ task[t].fresh = {} /\ task[t].keys \subseteq committed
        /\ task[t] \in TaskRecords
    BY <1>1, NotCommitting
  <1>3. AfterUpload(t) \in TaskRecords /\ Done \in TaskRecords /\ Done.keys = {} /\ Done.fresh = {}
    BY <1>2, AfterIsTask, IdleIsTask DEF Done, Idle
  <1>. SUFFICES ASSUME TRUE
                PROVE  \E r \in TaskRecords : /\ task' = [task EXCEPT ![t] = r]
                                              /\ r.keys \subseteq committed /\ r.fresh = {}
    BY <1>1, <1>2, TaskAlone
  <1>4. CASE Count(t)
    <2>1. CASE Unheard(t)
      <3>1. task' = [task EXCEPT ![t] = AfterUpload(t)]
        BY <1>4, <2>1 DEF Count
      <3>. QED  BY <3>1, <1>3, AfterKeepsNothing
    <2>2. CASE ~Unheard(t)
      <3>1. DEFINE q == [task[t] EXCEPT !.pc = IF task[t].pc = "count" THEN "enter" ELSE "check"]
      <3>2. task' = [task EXCEPT ![t] = Counted(q, Cardinality(served))]
        BY <1>4, <2>2 DEF Count
      <3>3. q \in TaskRecords /\ q.keys = task[t].keys /\ q.fresh = {}
        BY <1>2 DEF TaskRecords, TaskStates, Inside
      <3>. HIDE DEF q
      <3>4. Counted(q, Cardinality(served)) \in TaskRecords
        BY <3>3, CountAssumption DEF Counted, Requested, TaskRecords
      <3>5. /\ Counted(q, Cardinality(served)).keys = task[t].keys
            /\ Counted(q, Cardinality(served)).fresh = {}
        BY <3>3 DEF Counted, TaskRecords
      <3>. QED  BY <3>2, <3>4, <3>5, <1>2
    <2>. QED  BY <2>1, <2>2
  <1>5. CASE Enter(t)
    <2>1. DEFINE q == [task[t] EXCEPT !.pc = IF task[t].stage = "second" THEN "recount" ELSE "check"]
    <2>2. task' = [task EXCEPT ![t] = q]
      BY <1>5 DEF Enter
    <2>3. q \in TaskRecords /\ q.keys = task[t].keys /\ q.fresh = {}
      BY <1>2 DEF TaskRecords, TaskStates, Inside
    <2>. QED  BY <2>2, <2>3, <1>2
  <1>6. CASE Check(t)
    <2>1. DEFINE q == [task[t] EXCEPT !.pc = "generate", !.auth = task[t].start]
    <2>2. task' = [task EXCEPT ![t] = q] \/ task' = [task EXCEPT ![t] = AfterUpload(t)]
      BY <1>6 DEF Check
    <2>3. q \in TaskRecords /\ q.keys = task[t].keys /\ q.fresh = {}
      BY <1>2 DEF TaskRecords, TaskStates, Inside
    <2>. QED  BY <2>2, <2>3, <1>2, <1>3, AfterKeepsNothing
  <1>7. CASE Digest(t)
    <2>1. DEFINE q == [task[t] EXCEPT !.pc = "enter"]
    <2>2. task' = [task EXCEPT ![t] = q] \/ task' = [task EXCEPT ![t] = Done]
      BY <1>7 DEF Digest
    <2>3. q \in TaskRecords /\ q.keys = task[t].keys /\ q.fresh = {}
      BY <1>2 DEF TaskRecords, TaskStates
    <2>. QED  BY <2>2, <2>3, <1>2, <1>3
  <1>8. CASE DigestFails(t)
    BY <1>8, <1>3 DEF DigestFails
  <1>. QED  BY <1>4, <1>5, <1>6, <1>7, <1>8

LEMMA QueryFailsHolds ==
  ASSUME Inv, NEW t \in Tasks, QueryFails(t)
  PROVE  Inv'
  <1>1. /\ task[t].pc = "waiting" /\ UNCHANGED others /\ lock' = lock /\ disturbed' \in BOOLEAN
        /\ \/ task' = [task EXCEPT ![t] = AfterUpload(t)]
           \/ task' = [task EXCEPT ![t] = NextTry(task[t])]
    BY DEF QueryFails, Refused, OnlyTask, others, network, routes, link, Inv, TypeOK
  <1>2. /\ lock' # t /\ task[t].fresh = {} /\ task[t] \in TaskRecords
    BY <1>1, NotCommitting
  <1>3. /\ AfterUpload(t) \in TaskRecords
        /\ AfterUpload(t).keys = {} /\ AfterUpload(t).fresh = {}
    BY <1>2, AfterIsTask, AfterKeepsNothing
  <1>4. /\ NextTry(task[t]) \in TaskRecords
        /\ NextTry(task[t]).keys = {} /\ NextTry(task[t]).fresh = {}
    BY <1>2, NextTryIsTask
  <1>. QED  BY <1>1, <1>2, <1>3, <1>4, TaskAlone

LEMMA TimeOutHolds ==
  ASSUME Inv, NEW t \in Tasks, TimeOut(t)
  PROVE  Inv'
  <1>1. task[t] \in TaskRecords
    BY DEF Inv, TypeOK
  <1>2. /\ AfterUpload(t) \in TaskRecords
        /\ AfterUpload(t).keys = {} /\ AfterUpload(t).fresh = {}
    BY <1>1, AfterIsTask, AfterKeepsNothing
  <1>3. /\ task' = [task EXCEPT ![t] = AfterUpload(t)]
        /\ lock' = lock \/ lock' = NoTask
        /\ lock' # t /\ UNCHANGED others /\ disturbed' \in BOOLEAN
    BY TaskAssumption DEF TimeOut, OnlyTask, others, network, routes, link, Inv, TypeOK
  <1>. QED  BY <1>2, <1>3, TaskAlone

LEMMA GenerateHolds ==
  ASSUME Inv, NEW t \in Tasks, Generate(t)
  PROVE  Inv'
  <1>. DEFINE r == task[t]
              ids == NewIds(r.auth, r.count)
              read == Read(Written(Fresh(ids)), NodeIds(r.auth, r.count))
              update == Update(r.auth, r.count)
              message == [kind |-> "internal", update |-> update]
  <1>1. r \in TaskRecords /\ r.pc = "generate" /\ r.fresh = {} /\ lock = NoTask
    BY DEF Inv, TypeOK, KeysHeld, Generate
  <1>2. /\ update \in Creds /\ ids \subseteq Ids /\ NodeIds(r.auth, r.count) \subseteq Ids
    BY <1>1, UpdateIsCreds DEF Generate, TaskRecords
  <1>3. held \in [Ids -> Nat] /\ minted \in [Ids -> Nat]
    BY DEF Inv, TypeOK
  <1>4. Fresh(ids) \subseteq Pairs /\ minted' \in [Ids -> Nat]
    BY <1>2, <1>3, FreshPairs DEF Generate
  <1>5. /\ Written(Fresh(ids)) \in [Ids -> Nat]
        /\ \A i \in Ids : \/ [id |-> i, gen |-> Written(Fresh(ids))[i]] \in Fresh(ids)
                          \/ Written(Fresh(ids))[i] = held[i]
    BY <1>3, <1>4, WrittenRows
  <1>6. read \subseteq Pairs /\ read \subseteq committed \cup Fresh(ids)
    <2>1. /\ read \subseteq Pairs
          /\ \A p \in read : /\ p.id \in Ids /\ Written(Fresh(ids))[p.id] # 0
                             /\ p = [id |-> p.id, gen |-> Written(Fresh(ids))[p.id]]
      BY <1>2, <1>5, ReadPairs
    <2>2. ASSUME NEW p \in read PROVE p \in committed \cup Fresh(ids)
      BY <2>1, <1>5 DEF Inv, KeysHeld
    <2>. QED  BY <2>1, <2>2
  <1>7. /\ task' = [task EXCEPT ![t].pc = "commit", ![t].fresh = Fresh(ids),
                                ![t].keys = read, ![t].auth = update]
        /\ lock' = t
        /\ mailbox' = mailbox \/ mailbox' = Append(mailbox, message)
    BY DEF Generate
  <1>8. UNCHANGED <<creds, storeCreds, emitted, tapped, held, receipt, served, bundle, taken,
                    committed, sent, open, crashes, closes, used, disturbed>>
    BY DEF Generate, network, routes, link
  <1>9. message \in Messages /\ message.kind # "query"
    BY <1>2 DEF Messages
  <1>. HIDE DEF ids, read, update, message
  <1>10. /\ mailbox' \in Seq(Messages)
         /\ \A i \in DOMAIN mailbox' :
              mailbox'[i].kind = "query" => mailbox'[i].keys \subseteq committed
    <2>1. /\ mailbox \in Seq(Messages)
          /\ \A i \in DOMAIN mailbox :
               mailbox[i].kind = "query" => mailbox[i].keys \subseteq committed
      BY DEF Inv, TypeOK, KeysHeld
    <2>2. CASE mailbox' = mailbox
      BY <2>1, <2>2
    <2>3. CASE mailbox' = Append(mailbox, message)
      <3>1. /\ Append(mailbox, message) \in Seq(Messages)
            /\ \A i \in DOMAIN Append(mailbox, message) :
                 \/ i \in DOMAIN mailbox /\ Append(mailbox, message)[i] = mailbox[i]
                 \/ Append(mailbox, message)[i] = message
        BY <2>1, <1>9, Appended
      <3>. QED  BY <2>1, <2>3, <3>1, <1>9
    <2>. QED  BY <1>7, <2>2, <2>3
  <1>11. /\ task' \in [Tasks -> TaskRecords]
         /\ task'[t].pc = "commit" /\ task'[t].keys = read /\ task'[t].fresh = Fresh(ids)
         /\ \A s \in Tasks \ {t} : task'[s] = task[s]
    <2>1. [r EXCEPT !.pc = "commit", !.fresh = Fresh(ids), !.keys = read, !.auth = update]
            \in TaskRecords
      BY <1>1, <1>2, <1>4, <1>6 DEF TaskRecords, TaskStates, Inside
    <2>2. task \in [Tasks -> TaskRecords]
      BY DEF Inv, TypeOK
    <2>. QED  BY <2>1, <2>2, <1>7, <1>1 DEF TaskRecords
  <1>12. TypeOK'
    BY <1>4, <1>7, <1>8, <1>10, <1>11 DEF Inv, TypeOK
  <1>13. KeysHeld'
    BY <1>6, <1>8, <1>10, <1>11 DEF Inv, KeysHeld
  <1>. QED  BY <1>12, <1>13 DEF Inv

LEMMA CommitHolds ==
  ASSUME Inv, NEW t \in Tasks, Commit(t)
  PROVE  Inv'
  <1>. DEFINE fresh == task[t].fresh
  <1>1. /\ task[t] \in TaskRecords /\ fresh \subseteq Pairs
        /\ task[t].keys \subseteq committed \cup fresh
    BY DEF Inv, TypeOK, KeysHeld, TaskRecords
  <1>2. /\ held' = Written(fresh) /\ committed' = committed \cup fresh /\ lock' = NoTask
        /\ task' = [task EXCEPT ![t].pc = "query", ![t].fresh = {}]
        /\ UNCHANGED <<creds, mailbox, receipt, minted, open, crashes, closes, used, disturbed, storeCreds, emitted, tapped,
                       served, bundle, taken, sent>>
    BY DEF Commit, network, routes, link
  <1>3. /\ Written(fresh) \in [Ids -> Nat]
        /\ \A i \in Ids : \/ [id |-> i, gen |-> Written(fresh)[i]] \in fresh
                          \/ Written(fresh)[i] = held[i]
    BY <1>1, WrittenRows DEF Inv, TypeOK
  <1>4. /\ task' \in [Tasks -> TaskRecords]
        /\ task'[t].keys = task[t].keys /\ task'[t].fresh = {}
        /\ \A s \in Tasks \ {t} : task'[s] = task[s]
    <2>1. [task[t] EXCEPT !.pc = "query", !.fresh = {}] \in TaskRecords
      BY <1>1 DEF TaskRecords, TaskStates, Inside
    <2>. QED  BY <1>1, <1>2, <2>1 DEF Inv, TypeOK, TaskRecords
  <1>. HIDE DEF fresh
  <1>5. TypeOK'
    BY <1>1, <1>2, <1>3, <1>4 DEF Inv, TypeOK
  <1>6. KeysHeld'
    <2>1. \A i \in Ids : held'[i] # 0 => [id |-> i, gen |-> held'[i]] \in committed'
      BY <1>2, <1>3 DEF Inv, KeysHeld
    <2>2. \A s \in Tasks : /\ task'[s].keys \subseteq committed' \cup task'[s].fresh
                           /\ task'[s].pc # "commit" => task'[s].fresh = {}
      BY <1>1, <1>2, <1>4 DEF Inv, KeysHeld
    <2>. QED  BY <1>2, <2>1, <2>2 DEF Inv, KeysHeld
  <1>. QED  BY <1>5, <1>6 DEF Inv

LEMMA QueryHolds ==
  ASSUME Inv, NEW t \in Tasks, Query(t)
  PROVE  Inv'
  <1>1. /\ task[t] \in TaskRecords /\ task[t].fresh = {} /\ task[t].keys \subseteq committed
        /\ lock # t /\ lock' = lock
    BY NotCommitting DEF Query
  <1>2. CASE Orphan(t)
    <2>1. task' = [task EXCEPT ![t] = AfterUpload(t)] /\ UNCHANGED others /\ disturbed' \in BOOLEAN
      BY <1>2 DEF Query, others, network, routes, link, Inv, TypeOK
    <2>. QED  BY <1>1, <2>1, TaskAlone, AfterIsTask, AfterKeepsNothing
  <1>3. CASE ~Orphan(t)
    <2>1. DEFINE r == [task[t] EXCEPT !.pc = "waiting"]
                 message == [kind |-> "query", from |-> t, keys |-> task[t].keys]
    <2>2. /\ task' = [task EXCEPT ![t] = r] /\ mailbox' = Append(mailbox, message)
          /\ UNCHANGED <<creds, held, lock, receipt, minted, committed, open, crashes, closes, used, disturbed, storeCreds,
                         emitted, tapped, served, bundle, taken, sent>>
      BY <1>3 DEF Query, network, routes, link
    <2>3. r \in TaskRecords /\ r.keys = task[t].keys /\ r.fresh = {}
      BY <1>1 DEF TaskRecords, TaskStates, Inside
    <2>4. message \in Messages /\ message.keys \subseteq committed
      BY <1>1 DEF Messages, TaskRecords
    <2>. HIDE DEF r, message
    <2>5. /\ Append(mailbox, message) \in Seq(Messages)
          /\ \A i \in DOMAIN Append(mailbox, message) :
               \/ i \in DOMAIN mailbox /\ Append(mailbox, message)[i] = mailbox[i]
               \/ Append(mailbox, message)[i] = message
      BY <2>4, Appended DEF Inv, TypeOK
    <2>6. \A i \in DOMAIN mailbox' :
            mailbox'[i].kind = "query" => mailbox'[i].keys \subseteq committed
      BY <2>2, <2>4, <2>5 DEF Inv, KeysHeld
    <2>7. TypeOK'
      BY <1>1, <2>2, <2>3, <2>5, TaskChange DEF Inv, TypeOK
    <2>8. KeysHeld'
      BY <1>1, <2>2, <2>3, <2>6, TaskChange DEF Inv, KeysHeld
    <2>. QED  BY <2>7, <2>8 DEF Inv
  <1>. QED  BY <1>2, <1>3

(* ----- the socket and the ways of an update ----------------------------  *)

LEMMA HandleQueryHolds ==
  ASSUME Inv, HandleQuery
  PROVE  Inv'
  <1>. DEFINE m == Head(mailbox)
  <1>1. /\ mailbox # <<>> /\ m.kind = "query" /\ mailbox' = Tail(mailbox)
        /\ UNCHANGED <<creds, held, lock, receipt, minted, committed, open, crashes, closes, used, disturbed, storeCreds,
                       emitted, tapped>>
    BY DEF HandleQuery, routes, link
  <1>2. /\ Tail(mailbox) \in Seq(Messages) /\ m \in Messages
        /\ 1 \in DOMAIN mailbox /\ m = mailbox[1]
        /\ \A i \in DOMAIN Tail(mailbox) :
             i + 1 \in DOMAIN mailbox /\ Tail(mailbox)[i] = mailbox[i + 1]
    BY <1>1, Taken DEF Inv, TypeOK
  <1>3. m.from \in Tasks /\ m.keys \subseteq Pairs /\ m.keys \subseteq committed
    BY <1>1, <1>2 DEF Messages, Inv, KeysHeld
  <1>4. \A i \in DOMAIN mailbox' :
          mailbox'[i].kind = "query" => mailbox'[i].keys \subseteq committed
    BY <1>1, <1>2 DEF Inv, KeysHeld
  <1>5. /\ served' \subseteq Pairs /\ taken' \subseteq Pairs /\ sent' \subseteq committed
        /\ sent' \subseteq Pairs /\ bundle' \in {"missing", "present"}
    BY <1>3 DEF HandleQuery, ServerTakes, network, Inv, TypeOK, KeysHeld
  <1>6. Accepted(m.from) \/ Refused(m.from) \/ UNCHANGED task
    BY DEF HandleQuery
  <1>. HIDE DEF m
  <1>7. /\ task' \in [Tasks -> TaskRecords]
        /\ \A s \in Tasks : task'[s].keys \subseteq committed \cup task'[s].fresh
        /\ \A s \in Tasks : task'[s].pc # "commit" => task'[s].fresh = {}
        /\ lock # NoTask => task'[lock].pc = "commit"
    <2>1. CASE UNCHANGED task
      BY <2>1 DEF Inv, TypeOK, KeysHeld
    <2>2. CASE task[m.from].pc # "waiting" /\ ~UNCHANGED task
      <3>1. task' = [task EXCEPT ![m.from] = task[m.from]]
        BY <1>6, <2>2 DEF Accepted, Refused
      <3>2. task' = task
        BY <3>1 DEF Inv, TypeOK
      <3>. QED  BY <3>2, <2>2
    <2>3. CASE task[m.from].pc = "waiting" /\ ~UNCHANGED task
      <3>1. DEFINE q == NextTry(task[m.from])
      <3>2. \/ task' = [task EXCEPT ![m.from] = q]
            \/ task' = [task EXCEPT ![m.from] = AfterUpload(m.from)]
        BY <1>6, <2>3 DEF Accepted, Refused
      <3>3. /\ task[m.from] \in TaskRecords /\ task[m.from].fresh = {} /\ lock # m.from
        BY <1>3, <2>3, NotCommitting
      <3>4. q \in TaskRecords /\ q.keys = {} /\ q.fresh = {}
        BY <3>3, NextTryIsTask
      <3>5. /\ AfterUpload(m.from) \in TaskRecords
            /\ AfterUpload(m.from).keys = {} /\ AfterUpload(m.from).fresh = {}
        BY <1>3, <3>3, AfterIsTask, AfterKeepsNothing
      <3>. HIDE DEF q
      <3>6. lock' = lock /\ lock' # m.from
        BY <1>1, <3>3
      <3>7. PICK r \in TaskRecords : /\ task' = [task EXCEPT ![m.from] = r]
                                     /\ r.keys = {} /\ r.fresh = {}
        BY <3>2, <3>4, <3>5
      <3>. QED  BY <1>3, <3>6, <3>7, TaskChange
    <2>. QED  BY <2>1, <2>2, <2>3
  <1>8. TypeOK'
    BY <1>1, <1>2, <1>5, <1>7 DEF Inv, TypeOK
  <1>9. KeysHeld'
    BY <1>1, <1>4, <1>5, <1>7 DEF Inv, KeysHeld
  <1>. QED  BY <1>8, <1>9 DEF Inv

(* A message that is no query leaves the mailbox.                           *)
LEMMA Shorter ==
  ASSUME Inv, mailbox # <<>>, mailbox' = Tail(mailbox), committed' = committed
  PROVE  /\ mailbox' \in Seq(Messages) /\ Head(mailbox) \in Messages
         /\ \A i \in DOMAIN mailbox' :
              mailbox'[i].kind = "query" => mailbox'[i].keys \subseteq committed'
  <1>1. /\ Tail(mailbox) \in Seq(Messages) /\ Head(mailbox) \in Messages
        /\ \A i \in DOMAIN Tail(mailbox) :
             i + 1 \in DOMAIN mailbox /\ Tail(mailbox)[i] = mailbox[i + 1]
    BY Taken DEF Inv, TypeOK
  <1>. QED  BY <1>1 DEF Inv, KeysHeld

LEMMA UpdateHolds ==
  ASSUME Inv, HandleInternal \/ HandleSync \/ Forget
  PROVE  Inv'
  <1>0. disturbed' \in BOOLEAN
    <2>1. disturbed' = TRUE \/ disturbed' = disturbed
      BY DEF HandleInternal, HandleSync, Forget, link
    <2>. QED  BY <2>1 DEF Inv, TypeOK
  <1>1. /\ mailbox # <<>> /\ mailbox' = Tail(mailbox) /\ Head(mailbox).kind # "query"
        /\ creds' = Head(mailbox).update \/ creds' = creds
        /\ emitted' = emitted \/ emitted' = Append(emitted, Head(mailbox).update)
        /\ UNCHANGED <<held, lock, task, receipt, minted, committed, open, crashes, closes, used, storeCreds, tapped,
                       served, bundle, taken, sent>>
    BY DEF HandleInternal, HandleSync, Forget, routes, network, link
  <1>2. /\ mailbox' \in Seq(Messages) /\ Head(mailbox) \in Messages
        /\ \A i \in DOMAIN mailbox' :
             mailbox'[i].kind = "query" => mailbox'[i].keys \subseteq committed'
    BY <1>1, Shorter
  <1>3. Head(mailbox).update \in Creds /\ creds' \in Creds
    BY <1>1, <1>2 DEF Messages, Inv, TypeOK
  <1>4. emitted' \in Seq(Creds)
    <2>1. emitted \in Seq(Creds) /\ Head(mailbox).update \in Creds
      BY <1>1, <1>3 DEF Inv, TypeOK
    <2>2. Append(emitted, Head(mailbox).update) \in Seq(Creds)
      BY <2>1, Appended
    <2>. QED  BY <1>1, <2>1, <2>2
  <1>5. TypeOK'
    BY <1>0, <1>1, <1>2, <1>3, <1>4 DEF Inv, TypeOK
  <1>6. KeysHeld'
    BY <1>1, <1>2 DEF Inv, KeysHeld
  <1>. QED  BY <1>5, <1>6 DEF Inv

LEMMA TapHolds ==
  ASSUME Inv, Tap
  PROVE  Inv'
  <1>1. Head(emitted) \in Creds /\ Tail(emitted) \in Seq(Creds)
    BY Taken DEF Tap, Inv, TypeOK
  <1>2. Append(tapped, Head(emitted)) \in Seq(Creds)
    BY <1>1, Appended DEF Inv, TypeOK
  <1>3. TypeOK'
    BY <1>1, <1>2 DEF Tap, network, link, Inv, TypeOK
  <1>4. KeysHeld'
    BY DEF Tap, network, link, Inv, KeysHeld
  <1>. QED  BY <1>3, <1>4 DEF Inv

LEMMA EchoHolds ==
  ASSUME Inv, Echo
  PROVE  Inv'
  <1>. DEFINE message == [kind |-> "sync", update |-> Head(tapped)]
  <1>1. Head(tapped) \in Creds /\ Tail(tapped) \in Seq(Creds)
    BY Taken DEF Echo, Inv, TypeOK
  <1>2. message \in Messages /\ message.kind # "query"
    BY <1>1 DEF Messages
  <1>3. /\ mailbox' = Append(mailbox, message) /\ tapped' = Tail(tapped)
        /\ UNCHANGED <<creds, storeCreds, emitted, held, lock, task, receipt, minted, committed,
                       open, crashes, closes, used, disturbed, served, bundle, taken, sent>>
    BY DEF Echo, network, link
  <1>. HIDE DEF message
  <1>4. /\ mailbox' \in Seq(Messages)
        /\ \A i \in DOMAIN mailbox' :
             (i \in DOMAIN mailbox /\ mailbox'[i] = mailbox[i]) \/ mailbox'[i] = message
    BY <1>2, <1>3, Appended DEF Inv, TypeOK
  <1>5. TypeOK'
    BY <1>1, <1>3, <1>4 DEF Inv, TypeOK
  <1>6. KeysHeld'
    BY <1>2, <1>3, <1>4 DEF Inv, KeysHeld
  <1>. QED  BY <1>5, <1>6 DEF Inv

LEMMA LinkHolds ==
  ASSUME Inv, Close \/ Open
  PROVE  Inv'
  <1>1. TypeOK'
    <2>1. open' \in BOOLEAN
      BY Zenon DEF Close, Open
    <2>2. /\ closes' \in Nat /\ crashes' = crashes
          /\ UNCHANGED <<creds, mailbox, held, lock, task, receipt, minted, committed, storeCreds,
                         emitted, tapped, served, bundle, taken, sent, used, disturbed>>
      BY DEF Close, Open, routes, network, Inv, TypeOK
    <2>. QED  BY <2>1, <2>2 DEF Inv, TypeOK
  <1>2. KeysHeld'
    BY DEF Close, Open, routes, network, Inv, KeysHeld
  <1>. QED  BY <1>1, <1>2 DEF Inv

LEMMA CrashHolds ==
  ASSUME Inv, Crash
  PROVE  Inv'
  <1>1. receipt' \in Receipts /\ receipt'.keys = {}
    <2>1. receipt \in Receipts
      BY DEF Inv, TypeOK
    <2>2. \A r \in Receipts :
            /\ [r EXCEPT !.pc = "idle", !.keys = {}] \in Receipts
            /\ [r EXCEPT !.pc = "idle", !.keys = {}].keys = {}
      BY DEF Receipts
    <2>. QED  BY <2>1, <2>2 DEF Crash
  <1>2. TypeOK'
    <2>1. open' \in BOOLEAN /\ disturbed' \in BOOLEAN
      BY Zenon DEF Crash
    <2>2. creds' \in Creds /\ crashes' \in Nat /\ mailbox' \in Seq(Messages) /\ tapped' \in Seq(Creds)
      BY DEF Crash, NewCreds, Creds, Inv, TypeOK
    <2>3. UNCHANGED <<storeCreds, emitted, held, lock, task, minted, committed, closes, served,
                      bundle, taken, sent, used>>
      BY DEF Crash, network
    <2>. QED  BY <1>1, <2>1, <2>2, <2>3 DEF Inv, TypeOK
  <1>3. KeysHeld'
    BY <1>1 DEF Crash, network, Inv, KeysHeld
  <1>. QED  BY <1>2, <1>3 DEF Inv

(* ----- keys for a retry receipt ----------------------------------------  *)

LEMMA ReceiptHolds ==
  ASSUME Inv, ReceiptRead \/ ReceiptMerge \/ ReceiptEmit
  PROVE  Inv'
  <1>1. receipt \in Receipts /\ receipt.keys \subseteq committed /\ storeCreds \in Creds
    BY DEF Inv, TypeOK, KeysHeld
  <1>2. CASE ReceiptRead
    <2>1. receipt' \in Receipts /\ receipt'.keys = receipt.keys
      <3>1. \A a \in Creds, n \in Nat :
              /\ [receipt EXCEPT !.pc = "make", !.auth = a, !.left = n] \in Receipts
              /\ [receipt EXCEPT !.pc = "make", !.auth = a, !.left = n].keys = receipt.keys
        BY <1>1 DEF Receipts
      <3>2. receipt.left - 1 \in Nat
        BY <1>1, <1>2 DEF ReceiptRead, Receipts
      <3>. QED  BY <1>1, <1>2, <3>1, <3>2 DEF ReceiptRead
    <2>4. disturbed' \in BOOLEAN
      BY <1>2, Zenon DEF ReceiptRead, Begin
    <2>5. UNCHANGED <<creds, mailbox, lock, task, open, crashes, closes, used, storeCreds, emitted,
                      tapped, served, bundle, taken, sent, held, minted, committed>>
      BY <1>2 DEF ReceiptRead, routes, network
    <2>2. TypeOK'
      BY <2>1, <2>4, <2>5 DEF Inv, TypeOK
    <2>3. KeysHeld'
      BY <2>1, <2>5 DEF Inv, KeysHeld
    <2>. QED  BY <2>2, <2>3 DEF Inv
  <1>3. CASE ReceiptMerge
    <2>1. receipt' \in Receipts /\ receipt'.keys = receipt.keys /\ storeCreds' \in Creds
      BY <1>1, <1>3 DEF ReceiptMerge, Receipts
    <2>2. TypeOK'
      BY <1>3, <2>1 DEF ReceiptMerge, OnlyReceipt, link, Inv, TypeOK
    <2>3. KeysHeld'
      BY <1>3, <2>1 DEF ReceiptMerge, OnlyReceipt, link, Inv, KeysHeld
    <2>. QED  BY <2>2, <2>3 DEF Inv
  <1>4. CASE ReceiptEmit
    <2>1. receipt' \in Receipts /\ receipt'.keys = {}
      <3>1. NewCreds \in Creds
        BY DEF NewCreds, Creds
      <3>2. \A a \in Creds :
              /\ [receipt EXCEPT !.pc = "idle", !.auth = a, !.keys = {}] \in Receipts
              /\ [receipt EXCEPT !.pc = "idle", !.auth = a, !.keys = {}].keys = {}
        BY <1>1 DEF Receipts
      <3>. QED  BY <1>4, <3>1, <3>2 DEF ReceiptEmit
    <2>2. emitted' \in Seq(Creds)
      BY <1>1, <1>4, Appended DEF ReceiptEmit, Receipts, Inv, TypeOK
    <2>3. receipt.keys \subseteq Pairs
      BY <1>1 DEF Receipts
    <2>4. TypeOK'
      BY <1>4, <2>1, <2>2, <2>3 DEF ReceiptEmit, OnlyReceipt, link, Inv, TypeOK
    <2>5. KeysHeld'
      BY <1>1, <1>4, <2>1 DEF ReceiptEmit, OnlyReceipt, link, Inv, KeysHeld
    <2>. QED  BY <2>4, <2>5 DEF Inv
  <1>. QED  BY <1>2, <1>3, <1>4

LEMMA ReceiptMakeHolds ==
  ASSUME Inv, ReceiptMake
  PROVE  Inv'
  <1>. DEFINE ids == NewIds(receipt.auth, 1)
              read == Read(held', NodeIds(receipt.auth, 1))
              update == Update(receipt.auth, 1)
  <1>1. receipt \in Receipts /\ held \in [Ids -> Nat] /\ minted \in [Ids -> Nat]
    BY DEF Inv, TypeOK
  <1>2. update \in Creds /\ ids \subseteq Ids /\ NodeIds(receipt.auth, 1) \subseteq Ids
    BY <1>1, UpdateIsCreds DEF ReceiptMake, Receipts
  <1>3. Fresh(ids) \subseteq Pairs /\ minted' \in [Ids -> Nat]
    BY <1>1, <1>2, FreshPairs DEF ReceiptMake
  <1>4. /\ held' = Written(Fresh(ids)) /\ committed' = committed \cup Fresh(ids)
        /\ receipt' = [receipt EXCEPT !.pc = "merge", !.auth = update, !.keys = read]
        /\ UNCHANGED <<creds, mailbox, lock, task, open, crashes, closes, used, disturbed, tapped, served, bundle, storeCreds,
                       emitted, sent, taken>>
    BY DEF ReceiptMake, OnlyReceipt, link
  <1>5. /\ held' \in [Ids -> Nat]
        /\ \A i \in Ids : [id |-> i, gen |-> held'[i]] \in Fresh(ids) \/ held'[i] = held[i]
    BY <1>1, <1>3, <1>4, WrittenRows
  <1>6. \A i \in Ids : held'[i] # 0 => [id |-> i, gen |-> held'[i]] \in committed'
    BY <1>4, <1>5 DEF Inv, KeysHeld
  <1>7. read \subseteq Pairs /\ read \subseteq committed'
    <2>1. /\ read \subseteq Pairs
          /\ \A p \in read : /\ p.id \in Ids /\ held'[p.id] # 0
                             /\ p = [id |-> p.id, gen |-> held'[p.id]]
      BY <1>2, <1>5, ReadPairs
    <2>2. ASSUME NEW p \in read PROVE p \in committed'
      BY <2>1, <1>6
    <2>. QED  BY <2>1, <2>2
  <1>. HIDE DEF ids, read, update
  <1>8. receipt' \in Receipts /\ receipt'.keys = read
    BY <1>1, <1>2, <1>4, <1>7 DEF Receipts
  <1>9. TypeOK'
    BY <1>3, <1>4, <1>5, <1>8 DEF Inv, TypeOK
  <1>10. KeysHeld'
    BY <1>4, <1>6, <1>7, <1>8 DEF Inv, KeysHeld
  <1>. QED  BY <1>9, <1>10 DEF Inv

(* ----- peers -----------------------------------------------------------  *)

LEMMA PeersHold ==
  ASSUME Inv, Take \/ Use
  PROVE  Inv'
  <1>1. CASE Take
    <2>1. TypeOK'
      BY <1>1 DEF Take, routes, link, Inv, TypeOK
    <2>2. KeysHeld'
      BY <1>1 DEF Take, routes, link, Inv, KeysHeld
    <2>. QED  BY <2>1, <2>2 DEF Inv
  <1>2. CASE Use
    <2>1. PICK p \in taken : held' = [held EXCEPT ![p.id] = 0] /\ taken' = taken \ {p} /\ used' = used \cup {p}
      BY <1>2 DEF Use
    <2>2. UNCHANGED <<creds, mailbox, lock, task, receipt, minted, committed, open, crashes, closes, disturbed, storeCreds,
                      emitted, tapped, served, bundle, sent>>
      BY <1>2 DEF Use, routes, link
    <2>3. held' \in [Ids -> Nat] /\ \A i \in Ids : held'[i] = held[i] \/ held'[i] = 0
      BY <2>1 DEF Inv, TypeOK
    <2>4. TypeOK'
      BY <2>1, <2>2, <2>3 DEF Inv, TypeOK
    <2>5. KeysHeld'
      BY <2>2, <2>3 DEF Inv, KeysHeld
    <2>. QED  BY <2>4, <2>5 DEF Inv
  <1>. QED  BY <1>1, <1>2

(* ----- the theorems ----------------------------------------------------  *)

LEMMA StutterHolds ==
  ASSUME Inv, UNCHANGED vars
  PROVE  Inv'
  <1>. USE DEF vars
  <1>1. TypeOK'
    BY DEF Inv, TypeOK
  <1>2. KeysHeld'
    BY DEF Inv, KeysHeld
  <1>. QED  BY <1>1, <1>2 DEF Inv

LEMMA StepHolds == Inv /\ [Next]_vars => Inv'
  <1>. SUFFICES ASSUME Inv, [Next]_vars PROVE Inv'
    OBVIOUS
  <1>1. CASE \E t \in Tasks : Start(t) \/ Work(t) \/ TimeOut(t) \/ QueryFails(t)
    BY <1>1, StartHolds, QuietWorkHolds, GenerateHolds, CommitHolds, QueryHolds, TimeOutHolds,
       QueryFailsHolds
    DEF Work
  <1>2. CASE Route
    BY <1>2, HandleQueryHolds, UpdateHolds, TapHolds, EchoHolds DEF Route
  <1>3. CASE Receipt
    BY <1>3, ReceiptHolds, ReceiptMakeHolds DEF Receipt
  <1>4. CASE Close \/ Open \/ Crash \/ Take \/ Use
    BY <1>4, LinkHolds, CrashHolds, PeersHold
  <1>5. CASE UNCHANGED vars
    BY <1>5, StutterHolds
  <1>. QED  BY <1>1, <1>2, <1>3, <1>4, <1>5 DEF Next

LEMMA InvHolds == Spec => []Inv
  BY InitHolds, StepHolds, PTL DEF Spec

(* The types, and: the transaction on me.id is held only by an upload that   *)
(* is making keys, whenever uploads are killed (TypeOK of PreKeys).         *)
THEOREM TypeCorrect == Spec => []TypeOK
  <1>1. Inv => TypeOK
    BY DEF Inv
  <1>. QED  BY <1>1, InvHolds, PTL

(* The server and the peers are given only keys whose private halves were    *)
(* stored before: for any number of tasks, receipts, crashes and retries.   *)
THEOREM SentAreHeld == Spec => []OnlyHeldAreSent
  <1>1. Inv => OnlyHeldAreSent
    BY DEF Inv, KeysHeld, OnlyHeldAreSent
  <1>. QED  BY <1>1, InvHolds, PTL

(* ----- one upload or receipt at a time ---------------------------------  *)

(* What follows is of states before anything was disturbed: no two of the    *)
(* uploads and receipts have overlapped, no update has been dropped, and the *)
(* socket has not started again.  Connections may close.                    *)

(* Every id handed out counts as uploaded: the two counters are one.        *)
Level(c) == c.first = c.next
LevelTasks ==
  \A t \in Tasks : /\ Level(task[t].start) /\ Level(task[t].auth)
                   /\ task[t].pc \in {"idle", "done"} => task[t].keys = {}
LevelRoutes ==
  /\ Level(creds) /\ Level(storeCreds) /\ Level(receipt.auth)
  /\ \A i \in DOMAIN mailbox : mailbox[i].kind # "query" => Level(mailbox[i].update)
  /\ \A i \in DOMAIN emitted : Level(emitted[i])
  /\ \A i \in DOMAIN tapped : Level(tapped[i])
Leveled == LevelTasks /\ LevelRoutes

Active(t) == task[t].pc \notin {"idle", "done"}

(* How a task's record becomes r without a change elsewhere.                *)
Begins(t, r) ==
  /\ task[t].pc = "idle" /\ Begin
  /\ r.pc \in {"count", "enter"} /\ r.start = creds /\ r.socket = crashes
  /\ r.auth = NewCreds /\ r.keys = {}
Kept(t, r) == r.start = task[t].start /\ r.socket = task[t].socket
GoesOn(t, r) ==
  /\ Kept(t, r) /\ r.keys = task[t].keys
  /\ \/ /\ task[t].pc \in {"count", "recount", "enter"} /\ r.pc \in {"enter", "recount", "check"}
        /\ r.auth = task[t].auth
     \/ task[t].pc = "check" /\ r.pc = "generate" /\ r.auth = task[t].start
     \/ /\ task[t].pc = "digest" /\ HasBeenHeard(t) /\ bundle # "present"
        /\ r.pc = "enter" /\ r.auth = task[t].auth
TriesAgain(t, r) ==
  /\ Kept(t, r) /\ r.keys = {} /\ r.auth = task[t].auth
  /\ task[t].pc = "waiting" /\ r.pc = "generate"
Ends(t, r) ==
  /\ Active(t) /\ r.keys = {} /\ r.auth = NewCreds
  /\ (r.pc = "done" /\ r.start = NewCreds) \/ (r.pc = "digest" /\ Kept(t, r))
Shape(t, r) == Begins(t, r) \/ GoesOn(t, r) \/ TriesAgain(t, r) \/ Ends(t, r)

(* An update with level counters: as many new ids as keys are wanted, and    *)
(* those are the ids the node names.                                        *)
LEMMA LevelUpdate ==
  ASSUME NEW auth \in Creds, Level(auth), NEW count \in Nat
  PROVE  /\ Level(Update(auth, count)) /\ Update(auth, count) \in Creds
         /\ Update(auth, count).next = auth.next + count
         /\ NewIds(auth, count) = auth.next .. (auth.next + count - 1)
         /\ NodeIds(auth, count) = NewIds(auth, count)
  <1>1. auth.next \in Nat \ {0} /\ auth.first = auth.next
    BY DEF Creds, Level
  <1>2. Missing(auth, count) = count
    BY <1>1 DEF Missing, Larger
  <1>3. Larger(auth.next + count, auth.next) = auth.next + count
    BY <1>1 DEF Larger
  <1>4. Larger(auth.first, auth.next + count) = auth.next + count
    BY <1>1 DEF Larger
  <1>. QED  BY <1>1, <1>2, <1>3, <1>4 DEF Update, Level, NewIds, NodeIds, Creds

LEMMA AfterEnds ==
  ASSUME NEW t \in Tasks, Active(t)
  PROVE  Ends(t, AfterUpload(t)) /\ Ends(t, Done)
  BY ZenonT(40) DEF AfterUpload, Ends, Kept, Idle, Done

(* The steps of a task that touch its record, and perhaps the lock, only.   *)
LEMMA QuietShape ==
  ASSUME Inv, NEW t \in Tasks,
         \/ Start(t) \/ Count(t) \/ Enter(t) \/ Check(t) \/ Digest(t) \/ DigestFails(t)
         \/ TimeOut(t) \/ QueryFails(t) \/ (Query(t) /\ Orphan(t))
  PROVE  UNCHANGED others /\ \E r : task' = [task EXCEPT ![t] = r] /\ Shape(t, r)
  <1>. USE DEF Shape
  <1>1. UNCHANGED others
    BY DEF Start, StartPostAuth, StartLow, Count, Enter, Check, Digest, DigestFails, TimeOut,
           QueryFails, Query, OnlyStart, OnlyTask, others, network, routes, link
  <1>2. task[t] \in TaskRecords
    BY DEF Inv, TypeOK
  <1>3. CASE StartPostAuth(t)
    <2>1. DEFINE r == [Idle EXCEPT !.pc = "count", !.start = creds, !.stage = "first",
                                   !.socket = crashes]
    <2>2. task' = [task EXCEPT ![t] = r] /\ Begins(t, r)
      BY <1>3 DEF StartPostAuth, Begins, Idle
    <2>. QED  BY <1>1, <2>2
  <1>4. CASE StartLow(t)
    <2>1. DEFINE q == [Idle EXCEPT !.pc = "enter", !.start = creds, !.socket = crashes]
    <2>2. PICK level \in 0..(MinCount + 1) : task' = [task EXCEPT ![t] = Counted(q, level)]
      BY <1>4 DEF StartLow
    <2>3. Begins(t, Counted(q, level))
      BY <1>4 DEF StartLow, Begins, Counted, Idle
    <2>. QED  BY <1>1, <2>2, <2>3
  <1>5. CASE Active(t) /\ task' = [task EXCEPT ![t] = AfterUpload(t)]
    BY <1>1, <1>5, AfterEnds
  <1>6. CASE Count(t)
    <2>1. Active(t)
      BY <1>6 DEF Count, Active
    <2>2. CASE ~Unheard(t)
      <3>1. DEFINE q == [task[t] EXCEPT !.pc = IF task[t].pc = "count" THEN "enter" ELSE "check"]
                   r == Counted(q, Cardinality(served))
      <3>2. task' = [task EXCEPT ![t] = r]
        BY <1>6, <2>2 DEF Count
      <3>3. q.pc \in {"enter", "check"} /\ Kept(t, q) /\ q.keys = task[t].keys /\ q.auth = task[t].auth
            /\ q \in TaskRecords
        BY <1>2 DEF TaskRecords, TaskStates, Inside, Kept
      <3>4. r.pc = q.pc /\ r.start = q.start /\ r.socket = q.socket /\ r.keys = q.keys /\ r.auth = q.auth
        <4>. HIDE DEF q
        <4>. QED  BY <3>3 DEF Counted, TaskRecords
      <3>5. GoesOn(t, r)
        <4>. HIDE DEF q, r
        <4>. QED  BY <1>6, <3>3, <3>4 DEF GoesOn, Kept, Count
      <3>. QED  BY <1>1, <3>2, <3>5
    <2>3. CASE Unheard(t)
      BY <1>5, <1>6, <2>1, <2>3 DEF Count
    <2>. QED  BY <2>2, <2>3
  <1>7. CASE Enter(t)
    <2>1. DEFINE r == [task[t] EXCEPT !.pc = IF task[t].stage = "second" THEN "recount" ELSE "check"]
    <2>2. task' = [task EXCEPT ![t] = r]
      BY <1>7 DEF Enter
    <2>3. GoesOn(t, r)
      BY <1>2, <1>7 DEF Enter, GoesOn, Kept, TaskRecords
    <2>. QED  BY <1>1, <2>2, <2>3
  <1>8. CASE Check(t)
    <2>1. DEFINE r == [task[t] EXCEPT !.pc = "generate", !.auth = task[t].start]
    <2>2. Active(t) /\ (task' = [task EXCEPT ![t] = r] \/ task' = [task EXCEPT ![t] = AfterUpload(t)])
      BY <1>8 DEF Check, Active
    <2>3. GoesOn(t, r)
      BY <1>2, <1>8 DEF Check, GoesOn, Kept, TaskRecords
    <2>. QED  BY <1>1, <1>5, <2>2, <2>3
  <1>9. CASE Digest(t)
    <2>1. DEFINE r == [task[t] EXCEPT !.pc = "enter"]
    <2>2. Active(t) /\ \/ task' = [task EXCEPT ![t] = r] /\ bundle # "present"
                       \/ task' = [task EXCEPT ![t] = Done]
      BY <1>9 DEF Digest, Active
    <2>3. bundle # "present" => GoesOn(t, r)
      BY <1>2, <1>9 DEF Digest, GoesOn, Kept, TaskRecords
    <2>. QED  BY <1>1, <2>2, <2>3, AfterEnds
  <1>10. CASE DigestFails(t)
    <2>1. Active(t) /\ task' = [task EXCEPT ![t] = Done]
      BY <1>10 DEF DigestFails, Active
    <2>. QED  BY <1>1, <2>1, AfterEnds
  <1>11. CASE TimeOut(t)
    BY <1>5, <1>11 DEF TimeOut, Active, Inside
  <1>12. CASE QueryFails(t)
    <2>1. DEFINE r == NextTry(task[t])
    <2>2. Active(t) /\ (task' = [task EXCEPT ![t] = r] \/ task' = [task EXCEPT ![t] = AfterUpload(t)])
      BY <1>12 DEF QueryFails, Refused, Active
    <2>3. TriesAgain(t, r)
      BY <1>2, <1>12 DEF QueryFails, TriesAgain, Kept, NextTry, TaskRecords
    <2>. QED  BY <1>1, <1>5, <2>2, <2>3
  <1>13. CASE Query(t) /\ Orphan(t)
    BY <1>5, <1>13 DEF Query, Active
  <1>. QED  BY <1>3, <1>4, <1>6, <1>7, <1>8, <1>9, <1>10, <1>11, <1>12, <1>13 DEF Start

(* What an answer does to the record of the task that asked.                *)
LEMMA AnswerShape ==
  ASSUME Inv, NEW t \in Tasks, Accepted(t) \/ Refused(t)
  PROVE  task' = task \/ \E r : task' = [task EXCEPT ![t] = r] /\ (TriesAgain(t, r) \/ Ends(t, r))
  <1>1. task[t] \in TaskRecords /\ task \in [Tasks -> TaskRecords]
    BY DEF Inv, TypeOK
  <1>2. CASE task[t].pc # "waiting"
    <2>1. task' = [task EXCEPT ![t] = task[t]]
      BY <1>2 DEF Accepted, Refused
    <2>. QED  BY <1>1, <2>1
  <1>3. CASE task[t].pc = "waiting"
    <2>1. DEFINE r == NextTry(task[t])
    <2>2. Active(t) /\ (task' = [task EXCEPT ![t] = r] \/ task' = [task EXCEPT ![t] = AfterUpload(t)])
      BY <1>3 DEF Accepted, Refused, Active
    <2>3. TriesAgain(t, r)
      BY <1>1, <1>3 DEF TriesAgain, Kept, NextTry, TaskRecords
    <2>. QED  BY <2>2, <2>3, AfterEnds
  <1>. QED  BY <1>2, <1>3

LEMMA LevelTask ==
  ASSUME Inv, LevelTasks, Level(creds), NEW t \in Tasks, NEW r, task' = [task EXCEPT ![t] = r],
         Shape(t, r)
  PROVE  LevelTasks'
  <1>1. task \in [Tasks -> TaskRecords]
    BY DEF Inv, TypeOK
  <1>2. Level(NewCreds)
    BY DEF Level, NewCreds
  <1>3. Level(r.start) /\ Level(r.auth) /\ (r.pc \in {"idle", "done"} => r.keys = {})
    BY <1>2 DEF LevelTasks, Shape, Begins, GoesOn, TriesAgain, Ends, Kept
  <1>4. \A s \in Tasks : task'[s] = IF s = t THEN r ELSE task[s]
    BY <1>1
  <1>. QED  BY <1>3, <1>4 DEF LevelTasks

LEMMA LevelQuiet ==
  ASSUME Inv, Leveled, NEW t \in Tasks, NEW r, task' = [task EXCEPT ![t] = r], Shape(t, r),
         UNCHANGED others
  PROVE  Leveled'
  <1>1. LevelTasks'
    BY LevelTask DEF Leveled, LevelRoutes
  <1>2. LevelRoutes'
    BY DEF Leveled, LevelRoutes, others
  <1>. QED  BY <1>1, <1>2 DEF Leveled

(* An update put in the mailbox, or a message taken from it.                *)
LEMMA LevelMail ==
  ASSUME Inv, LevelRoutes
  PROVE  /\ \A m \in Messages : (m.kind # "query" => Level(m.update)) =>
              \A i \in DOMAIN Append(mailbox, m) :
                Append(mailbox, m)[i].kind # "query" => Level(Append(mailbox, m)[i].update)
         /\ mailbox # <<>> =>
              /\ Head(mailbox).kind # "query" => Level(Head(mailbox).update)
              /\ \A i \in DOMAIN Tail(mailbox) :
                   Tail(mailbox)[i].kind # "query" => Level(Tail(mailbox)[i].update)
  <1>1. mailbox \in Seq(Messages)
    BY DEF Inv, TypeOK
  <1>2. ASSUME NEW m \in Messages, m.kind # "query" => Level(m.update),
               NEW i \in DOMAIN Append(mailbox, m), Append(mailbox, m)[i].kind # "query"
        PROVE  Level(Append(mailbox, m)[i].update)
    BY <1>1, <1>2, Appended DEF LevelRoutes
  <1>3. ASSUME mailbox # <<>>
        PROVE  /\ Head(mailbox).kind # "query" => Level(Head(mailbox).update)
               /\ \A i \in DOMAIN Tail(mailbox) :
                   Tail(mailbox)[i].kind # "query" => Level(Tail(mailbox)[i].update)
    BY <1>1, <1>3, Taken DEF LevelRoutes
  <1>. QED  BY <1>2, <1>3

LEMMA LevelUpload ==
  ASSUME Inv, Leveled, NEW t \in Tasks, Generate(t) \/ Commit(t) \/ (Query(t) /\ ~Orphan(t))
  PROVE  Leveled'
  <1>. USE DEF Leveled
  <1>1. task \in [Tasks -> TaskRecords] /\ task[t] \in TaskRecords
    BY DEF Inv, TypeOK
  <1>2. CASE Generate(t)
    <2>1. DEFINE u == Update(task[t].auth, task[t].count)
                 m == [kind |-> "internal", update |-> u]
                 keys == Read(Written(Fresh(NewIds(task[t].auth, task[t].count))),
                              NodeIds(task[t].auth, task[t].count))
                 fresh == Fresh(NewIds(task[t].auth, task[t].count))
    <2>2. Level(u) /\ u \in Creds
      BY <1>1, LevelUpdate DEF TaskRecords, LevelTasks
    <2>3. m \in Messages /\ m.kind = "internal" /\ m.update = u
      BY <2>2 DEF Messages
    <2>4. /\ mailbox' = mailbox \/ mailbox' = Append(mailbox, m)
          /\ task' = [task EXCEPT ![t].pc = "commit", ![t].fresh = fresh, ![t].keys = keys,
                                  ![t].auth = u]
          /\ UNCHANGED <<creds, receipt, storeCreds, emitted, tapped>>
      BY <1>2 DEF Generate, link, routes, network
    <2>. HIDE DEF u, m, keys, fresh
    <2>5. LevelRoutes'
      BY <2>2, <2>3, <2>4, LevelMail DEF LevelRoutes
    <2>6. \A s \in Tasks : /\ s # t => task'[s] = task[s]
                           /\ s = t => /\ task'[s].start = task[s].start /\ task'[s].auth = u
                                       /\ task'[s].pc = "commit"
      BY <1>1, <2>4 DEF TaskRecords
    <2>7. LevelTasks'
      BY <2>2, <2>6 DEF LevelTasks
    <2>. QED  BY <2>5, <2>7
  <1>3. CASE Commit(t)
    <2>1. \A s \in Tasks : /\ s # t => task'[s] = task[s]
                           /\ s = t => /\ task'[s].start = task[s].start
                                       /\ task'[s].auth = task[s].auth /\ task'[s].pc = "query"
      BY <1>1, <1>3 DEF Commit, TaskRecords
    <2>2. LevelTasks'
      BY <2>1 DEF LevelTasks
    <2>3. LevelRoutes'
      BY <1>3 DEF Commit, LevelRoutes, routes
    <2>. QED  BY <2>2, <2>3
  <1>4. CASE Query(t) /\ ~Orphan(t)
    <2>1. \A s \in Tasks : /\ s # t => task'[s] = task[s]
                           /\ s = t => /\ task'[s].start = task[s].start
                                       /\ task'[s].auth = task[s].auth /\ task'[s].pc = "waiting"
      BY <1>1, <1>4 DEF Query, TaskRecords
    <2>2. LevelTasks'
      BY <2>1 DEF LevelTasks
    <2>3. DEFINE m == [kind |-> "query", from |-> t, keys |-> task[t].keys]
    <2>4. m \in Messages /\ m.kind = "query"
      BY <1>1 DEF Messages, TaskRecords
    <2>5. mailbox' = Append(mailbox, m) /\ UNCHANGED <<creds, receipt, storeCreds, emitted, tapped>>
      BY <1>4 DEF Query, routes, link
    <2>. HIDE DEF m
    <2>6. LevelRoutes'
      BY <2>4, <2>5, LevelMail DEF LevelRoutes
    <2>. QED  BY <2>2, <2>6
  <1>. QED  BY <1>2, <1>3, <1>4

LEMMA LevelRoute ==
  ASSUME Inv, Leveled, Route
  PROVE  Leveled'
  <1>. USE DEF Leveled
  <1>1. /\ mailbox \in Seq(Messages) /\ emitted \in Seq(Creds) /\ tapped \in Seq(Creds)
    BY DEF Inv, TypeOK
  <1>2. CASE HandleQuery
    <2>1. PICK t \in Tasks : task' = task \/ Accepted(t) \/ Refused(t)
      <3>1. Head(mailbox) \in Messages /\ Head(mailbox).kind = "query"
        BY <1>1, <1>2 DEF HandleQuery
      <3>2. Head(mailbox).from \in Tasks
        BY <3>1 DEF Messages
      <3>. QED  BY <1>2, <3>2 DEF HandleQuery
    <2>2. LevelTasks'
      <3>1. CASE task' = task
        BY <3>1 DEF LevelTasks
      <3>2. CASE \E r : task' = [task EXCEPT ![t] = r] /\ (TriesAgain(t, r) \/ Ends(t, r))
        BY <3>2, LevelTask DEF Shape, LevelRoutes
      <3>. QED  BY <2>1, <3>1, <3>2, AnswerShape
    <2>3. LevelRoutes'
      BY <1>2, LevelMail DEF HandleQuery, LevelRoutes, routes
    <2>. QED  BY <2>2, <2>3
  <1>3. CASE HandleInternal
    <2>1. Level(Head(mailbox).update) /\ Head(mailbox).update \in Creds
      <3>1. Head(mailbox) \in Messages /\ Head(mailbox).kind = "internal"
        BY <1>1, <1>3 DEF HandleInternal
      <3>. QED  BY <1>3, <3>1, LevelMail DEF HandleInternal, Messages
    <2>2. \A i \in DOMAIN emitted' : Level(emitted'[i])
      BY <1>1, <1>3, <2>1, Appended DEF HandleInternal, LevelRoutes
    <2>3. LevelRoutes'
      BY <1>3, <2>1, <2>2, LevelMail DEF HandleInternal, LevelRoutes
    <2>. QED  BY <1>3, <2>3 DEF HandleInternal, LevelTasks
  <1>4. CASE HandleSync \/ Forget
    <2>1. /\ mailbox # <<>> /\ mailbox' = Tail(mailbox)
          /\ creds' = creds \/ (Head(mailbox).kind = "sync" /\ creds' = Head(mailbox).update)
          /\ UNCHANGED <<task, receipt, storeCreds, emitted, tapped>>
      BY <1>4 DEF HandleSync, Forget, routes
    <2>2. LevelRoutes'
      BY <2>1, LevelMail DEF LevelRoutes
    <2>. QED  BY <2>1, <2>2 DEF LevelTasks
  <1>5. CASE Tap
    <2>1. /\ emitted # <<>> /\ emitted' = Tail(emitted) /\ storeCreds' = Head(emitted)
          /\ tapped' = Append(tapped, Head(emitted))
          /\ UNCHANGED <<creds, mailbox, task, receipt>>
      BY <1>5 DEF Tap
    <2>2. Head(emitted) \in Creds /\ Level(Head(emitted)) /\ \A i \in DOMAIN emitted' : Level(emitted'[i])
      BY <1>1, <2>1, Taken DEF LevelRoutes
    <2>3. \A i \in DOMAIN tapped' : Level(tapped'[i])
      BY <1>1, <2>1, <2>2, Appended DEF LevelRoutes
    <2>4. LevelRoutes'
      BY <2>1, <2>2, <2>3 DEF LevelRoutes
    <2>. QED  BY <2>1, <2>4 DEF LevelTasks
  <1>6. CASE Echo
    <2>1. DEFINE m == [kind |-> "sync", update |-> Head(tapped)]
    <2>2. /\ tapped # <<>> /\ tapped' = Tail(tapped) /\ mailbox' = Append(mailbox, m)
          /\ UNCHANGED <<creds, storeCreds, emitted, task, receipt>>
      BY <1>6 DEF Echo
    <2>3. Head(tapped) \in Creds /\ Level(Head(tapped)) /\ \A i \in DOMAIN tapped' : Level(tapped'[i])
      BY <1>1, <2>2, Taken DEF LevelRoutes
    <2>4. m \in Messages /\ m.update = Head(tapped)
      BY <2>3 DEF Messages
    <2>. HIDE DEF m
    <2>5. LevelRoutes'
      BY <2>2, <2>3, <2>4, LevelMail DEF LevelRoutes
    <2>. QED  BY <2>2, <2>5 DEF LevelTasks
  <1>. QED  BY <1>2, <1>3, <1>4, <1>5, <1>6 DEF Route

LEMMA LevelRest ==
  ASSUME Inv, Leveled, Receipt \/ Close \/ Open \/ Crash \/ Take \/ Use \/ UNCHANGED vars
  PROVE  Leveled'
  <1>. USE DEF Leveled
  <1>1. receipt \in Receipts /\ emitted \in Seq(Creds) /\ storeCreds \in Creds
    BY DEF Inv, TypeOK
  <1>2. Level(NewCreds)
    BY DEF Level, NewCreds
  <1>3. CASE ReceiptRead \/ ReceiptMerge
    <2>1. receipt'.auth \in {receipt.auth, storeCreds} /\ storeCreds' \in {receipt.auth, storeCreds}
          /\ UNCHANGED <<creds, mailbox, task, emitted, tapped>>
      BY <1>1, <1>3 DEF ReceiptRead, ReceiptMerge, OnlyReceipt, Receipts, routes
    <2>. QED  BY <2>1 DEF LevelTasks, LevelRoutes
  <1>4. CASE ReceiptMake
    <2>1. receipt'.auth = Update(receipt.auth, 1) /\ UNCHANGED <<creds, mailbox, task, emitted, tapped, storeCreds>>
      BY <1>1, <1>4 DEF ReceiptMake, OnlyReceipt, Receipts
    <2>2. Level(Update(receipt.auth, 1))
      BY <1>1, LevelUpdate DEF LevelRoutes, Receipts
    <2>. QED  BY <2>1, <2>2 DEF LevelTasks, LevelRoutes
  <1>5. CASE ReceiptEmit
    <2>1. receipt'.auth = NewCreds /\ emitted' = Append(emitted, receipt.auth)
          /\ UNCHANGED <<creds, mailbox, task, tapped, storeCreds>>
      BY <1>1, <1>5 DEF ReceiptEmit, OnlyReceipt, Receipts
    <2>2. \A i \in DOMAIN emitted' : Level(emitted'[i])
      BY <1>1, <2>1, Appended DEF LevelRoutes, Receipts
    <2>. QED  BY <1>2, <2>1, <2>2 DEF LevelTasks, LevelRoutes
  <1>6. CASE Close \/ Open \/ Take \/ Use \/ UNCHANGED vars
    <2>1. UNCHANGED <<creds, storeCreds, mailbox, emitted, tapped, task, receipt>>
      BY <1>6 DEF Close, Open, Take, Use, vars, routes
    <2>. QED  BY <2>1 DEF LevelTasks, LevelRoutes
  <1>7. CASE Crash
    <2>1. /\ creds' = NewCreds /\ mailbox' = <<>> /\ tapped' = <<>> /\ receipt'.auth = receipt.auth
          /\ UNCHANGED <<storeCreds, emitted, task>>
      BY <1>1, <1>7 DEF Crash, Receipts, network
    <2>. QED  BY <1>2, <2>1 DEF LevelTasks, LevelRoutes
  <1>. QED  BY <1>3, <1>4, <1>5, <1>6, <1>7 DEF Receipt

(* Both counters are one, in both copies of the credentials, in every        *)
(* snapshot, and in every update on its way.                                *)
LEMMA CountersLevel == Spec => []Leveled
  <1>1. Init => Leveled
    BY DEF Init, Leveled, LevelTasks, LevelRoutes, Level, NewCreds, Idle
  <1>2. Inv /\ Leveled /\ [Next]_vars => Leveled'
    <2>. SUFFICES ASSUME Inv, Leveled, [Next]_vars PROVE Leveled'
      OBVIOUS
    <2>1. CASE \E t \in Tasks : Start(t) \/ Work(t) \/ TimeOut(t) \/ QueryFails(t)
      <3>1. PICK t \in Tasks : Start(t) \/ Work(t) \/ TimeOut(t) \/ QueryFails(t)
        BY <2>1
      <3>2. CASE Generate(t) \/ Commit(t) \/ (Query(t) /\ ~Orphan(t))
        BY <3>2, LevelUpload
      <3>3. CASE ~(Generate(t) \/ Commit(t) \/ (Query(t) /\ ~Orphan(t)))
        <4>1. UNCHANGED others /\ \E r : task' = [task EXCEPT ![t] = r] /\ Shape(t, r)
          BY <3>1, <3>3, QuietShape DEF Work
        <4>. QED  BY <4>1, LevelQuiet
      <3>. QED  BY <3>2, <3>3
    <2>2. CASE Route
      BY <2>2, LevelRoute
    <2>3. CASE Receipt \/ Close \/ Open \/ Crash \/ Take \/ Use \/ UNCHANGED vars
      BY <2>3, LevelRest
    <2>. QED  BY <2>1, <2>2, <2>3 DEF Next
  <1>. QED  BY <1>1, <1>2, InvHolds, PTL DEF Spec

(* Sets of pairs.                                                           *)
Below(pairs, n) == \A p \in pairs : p.id < n
Before(pairs, later) == \A p \in pairs, q \in later : p.id < q.id
OneEach(pairs) == \A p, q \in pairs : p.id = q.id => p = q
Stored(pairs) == \A p \in pairs : held[p.id] = p.gen

(* The pairs that are with the server and peers, or on their way.           *)
Queries == {i \in DOMAIN mailbox : mailbox[i].kind = "query"}
Given == sent \cup UNION {mailbox[i].keys : i \in Queries}

(* Ids go out in ascending order.                                           *)
InOrder ==
  /\ OneEach(sent)
  /\ \A i \in Queries : OneEach(mailbox[i].keys) /\ Before(sent, mailbox[i].keys)
  /\ \A i, j \in Queries : i < j => Before(mailbox[i].keys, mailbox[j].keys)

(* A pair that is out, or on its way, is stored until it is used.           *)
StillHeld ==
  /\ served \cup taken \subseteq sent /\ served \cap taken = {}
  /\ Stored(served \cup taken)
  /\ \A i \in Queries : Stored(mailbox[i].keys)

(* A task at work is alone, and every id it has yet to hand out is above     *)
(* those that are out: also when the digest check makes it begin again with  *)
(* the credentials it started with, since the server has then taken nothing. *)
Working(t) ==
  LET r == task[t]
  IN  /\ \A s \in Tasks \ {t} : ~Active(s)
      /\ receipt.pc = "idle"
      /\ \A i \in Queries : mailbox[i].from = t
      /\ r.socket = crashes
      /\ bundle = "missing" => Below(sent, r.start.next)
      /\ r.pc \in {"count", "enter", "recount", "check"} => Below(Given, r.start.next)
      /\ r.pc \in {"generate", "waiting"} => Below(Given, r.auth.next)
      /\ r.pc = "commit" => r.keys = r.fresh
      /\ r.pc \in {"commit", "query"} =>
           OneEach(r.keys) /\ Before(Given, r.keys) /\ Below(Given \cup r.keys, r.auth.next)
      /\ r.pc = "query" => Stored(r.keys)

(* So is a receipt, and nothing is on its way meanwhile.                    *)
Receiving ==
  receipt.pc # "idle" =>
    /\ Settled /\ \A t \in Tasks : ~Active(t)
    /\ receipt.pc = "make" => Below(sent, receipt.auth.next)
    /\ receipt.pc \in {"merge", "emit"} =>
         /\ OneEach(receipt.keys) /\ Before(sent, receipt.keys)
         /\ Below(sent \cup receipt.keys, receipt.auth.next) /\ Stored(receipt.keys)

(* What both copies of the credentials will be when all updates have come:   *)
(* the last of those on their way, which go from the mailbox to the tap, and *)
(* from there to the mailbox again.                                         *)
LastOf(s, u) == s # <<>> /\ s[Len(s)] = u
LastMail(kind, u) ==
  \E i \in DOMAIN mailbox :
    /\ mailbox[i].kind = kind /\ mailbox[i].update = u
    /\ \A j \in DOMAIN mailbox : j > i => mailbox[j].kind # kind
NoMail(kind) == \A i \in DOMAIN mailbox : mailbox[i].kind # kind
Reaching(u) ==
  \/ LastOf(tapped, u)
  \/ tapped = <<>> /\ LastMail("sync", u)
  \/ tapped = <<>> /\ NoMail("sync") /\ creds = u
Heading(u) ==
  \/ LastMail("internal", u)
  \/ NoMail("internal") /\ LastOf(emitted, u)
  \/ NoMail("internal") /\ emitted = <<>> /\ storeCreds = u /\ Reaching(u)
Counts(u) == Below(Given, u.next) /\ \A t \in Tasks : Below(task[t].keys, u.next)
Arriving == receipt.pc = "idle" => \E u \in Creds : Heading(u) /\ Counts(u)

Turns ==
  ~disturbed => /\ InOrder /\ StillHeld /\ Receiving /\ Arriving
                /\ \A t \in Tasks : Active(t) => Working(t)

(* What is added to a queue comes last, and what is taken was first.        *)
LEMMA Longer ==
  ASSUME NEW S, NEW s \in Seq(S), NEW e \in S
  PROVE  /\ Len(s) \in Nat /\ DOMAIN s = 1 .. Len(s)
         /\ Append(s, e) \in Seq(S)
         /\ Len(Append(s, e)) = Len(s) + 1 /\ DOMAIN Append(s, e) = 1 .. (Len(s) + 1)
         /\ Append(s, e) # <<>>
         /\ \A i \in 1 .. Len(s) : Append(s, e)[i] = s[i]
         /\ Append(s, e)[Len(s) + 1] = e
  OBVIOUS

LEMMA OneLess ==
  ASSUME NEW S, NEW s \in Seq(S), s # <<>>
  PROVE  /\ Len(s) \in Nat \ {0} /\ DOMAIN s = 1 .. Len(s)
         /\ Tail(s) \in Seq(S) /\ Head(s) = s[1] /\ Head(s) \in S
         /\ Len(Tail(s)) = Len(s) - 1 /\ DOMAIN Tail(s) = 1 .. (Len(s) - 1)
         /\ \A i \in 1 .. (Len(s) - 1) : Tail(s)[i] = s[i + 1]
         /\ Tail(s) = <<>> <=> Len(s) = 1
  <1>1. Len(s) \in Nat \ {0} /\ DOMAIN s = 1 .. Len(s) /\ Head(s) = s[1] /\ Head(s) \in S
    OBVIOUS
  <1>2. Tail(s) \in Seq(S) /\ Len(Tail(s)) = Len(s) - 1
    OBVIOUS
  <1>3. DOMAIN Tail(s) = 1 .. (Len(s) - 1)
    BY <1>2
  <1>4. \A i \in 1 .. (Len(s) - 1) : Tail(s)[i] = s[i + 1]
    BY <1>1
  <1>5. Tail(s) = <<>> <=> Len(s) = 1
    <2>1. Tail(s) = <<>> <=> Len(Tail(s)) = 0
      BY <1>2, EmptySeq
    <2>. QED  BY <1>1, <1>2, <2>1
  <1>. QED  BY <1>1, <1>2, <1>3, <1>4, <1>5

(* The pairs that are out or under way keep their order and their rows when  *)
(* neither they nor the queries change.                                     *)
LEMMA NothingGiven ==
  ASSUME Inv, Queries' = Queries, \A i \in Queries : mailbox'[i] = mailbox[i],
         UNCHANGED <<sent, served, taken, held>>
  PROVE  /\ Given' = Given
         /\ InOrder => InOrder'
         /\ StillHeld => StillHeld'
  <1>1. Given' = Given
    BY DEF Given
  <1>2. InOrder => InOrder'
    BY DEF InOrder
  <1>3. StillHeld => StillHeld'
    BY DEF StillHeld, Stored
  <1>. QED  BY <1>1, <1>2, <1>3

(* Writing pairs above those that are out leaves their rows alone.          *)
LEMMA WrittenAbove ==
  ASSUME Inv, NEW pairs, pairs \subseteq Pairs, NEW above, above \subseteq Pairs, Before(pairs, above),
         Stored(pairs), held' = Written(above)
  PROVE  Stored(pairs)'
  <1>1. \A p \in pairs : p.id \in Ids /\ p.id \notin IdsOf(above)
    BY DEF Before, IdsOf, Pairs, Ids
  <1>. QED  BY <1>1 DEF Stored, Written

LEMMA WrittenStored ==
  ASSUME Inv, NEW pairs, pairs \subseteq Pairs, OneEach(pairs), held' = Written(pairs)
  PROVE  Stored(pairs)'
  <1>1. SUFFICES ASSUME NEW p \in pairs PROVE Written(pairs)[p.id] = p.gen
    BY DEF Stored
  <1>2. p.id \in IdsOf(pairs) /\ p.id \in Ids
    BY DEF IdsOf, Pairs
  <1>3. PICK q : q = CHOOSE x \in pairs : x.id = p.id
    OBVIOUS
  <1>4. q \in pairs /\ q.id = p.id
    BY <1>3
  <1>5. q = p
    BY <1>4 DEF OneEach
  <1>. QED  BY <1>2, <1>3, <1>5 DEF Written

(* New pairs are one for each id, and lie where their ids do.               *)
LEMMA FreshAbove ==
  ASSUME Inv, NEW auth \in Creds, Level(auth), NEW count \in Nat, Update(auth, count).next <= MaxId + 1,
         NEW pairs, Below(pairs, auth.next), pairs \subseteq Pairs
  PROVE  LET fresh == Fresh(NewIds(auth, count))
         IN  /\ fresh \subseteq Pairs /\ OneEach(fresh) /\ Before(pairs, fresh)
             /\ Below(pairs \cup fresh, Update(auth, count).next)
             /\ Read(Written(fresh), NodeIds(auth, count)) = fresh
  <1>1. DEFINE ids == NewIds(auth, count)
               fresh == Fresh(ids)
  <1>2. /\ ids = auth.next .. (auth.next + count - 1) /\ NodeIds(auth, count) = ids
        /\ Update(auth, count).next = auth.next + count
    BY LevelUpdate
  <1>3. ids \subseteq Ids
    BY UpdateIsCreds
  <1>4. minted \in [Ids -> Nat]
    BY DEF Inv, TypeOK
  <1>5. fresh \subseteq Pairs
    BY <1>3, <1>4, FreshPairs
  <1>6. auth.next \in Nat /\ \A i \in ids : auth.next <= i /\ i < auth.next + count /\ i \in Int
    BY <1>2 DEF Creds
  <1>7. \A p \in fresh : p.id \in ids
    BY DEF Fresh
  <1>8. OneEach(fresh)
    BY DEF OneEach, Fresh
  <1>9. \A p \in pairs : p.id \in Int
    BY DEF Pairs, Ids
  <1>. HIDE DEF ids, fresh
  <1>10. Before(pairs, fresh)
    BY <1>6, <1>7, <1>9 DEF Before, Below
  <1>11. Below(pairs \cup fresh, auth.next + count)
    BY <1>6, <1>7, <1>9 DEF Below
  <1>12. Read(Written(fresh), ids) = fresh
    <2>1. \A i \in ids : [id |-> i, gen |-> minted[i] + 1] \in fresh
      BY DEF fresh, Fresh
    <2>2. \A i \in ids : i \in IdsOf(fresh)
      <3>1. \A i \in ids : [id |-> i, gen |-> minted[i] + 1].id = i
        OBVIOUS
      <3>. QED  BY <2>1, <3>1, Zenon DEF IdsOf
    <2>3. \A i \in ids : Written(fresh)[i] = minted[i] + 1
      <3>1. SUFFICES ASSUME NEW i \in ids PROVE Written(fresh)[i] = minted[i] + 1
        OBVIOUS
      <3>2. PICK q : q = CHOOSE x \in fresh : x.id = i
        OBVIOUS
      <3>3. q \in fresh /\ q.id = i
        <4>1. [id |-> i, gen |-> minted[i] + 1].id = i
          OBVIOUS
        <4>2. \E x \in fresh : x.id = i
          BY <2>1, <4>1
        <4>. QED  BY <3>2, <4>2, Zenon
      <3>4. q = [id |-> i, gen |-> minted[i] + 1]
        BY <2>1, <3>3, <1>8 DEF OneEach
      <3>5. Written(fresh)[i] = q.gen
        BY <1>3, <2>2, <3>2 DEF Written
      <3>. QED  BY <3>4, <3>5
    <2>4. \A i \in ids : minted[i] + 1 # 0
      BY <1>3, <1>4
    <2>5. {j \in ids : Written(fresh)[j] # 0} = ids
      BY <2>3, <2>4
    <2>6. Read(Written(fresh), ids) = {[id |-> i, gen |-> Written(fresh)[i]] : i \in ids}
      BY <2>5 DEF Read
    <2>7. fresh = {[id |-> i, gen |-> minted[i] + 1] : i \in ids}
      BY DEF fresh, Fresh
    <2>. QED  BY <2>3, <2>6, <2>7
  <1>. QED  BY <1>2, <1>5, <1>8, <1>10, <1>11, <1>12 DEF ids, fresh

(* ----- the steps of a task ---------------------------------------------  *)

Ready == Inv /\ Leveled /\ Turns /\ ~disturbed

(* A task begins when all is quiet, and then what is out is below both       *)
(* copies of the credentials.                                               *)
LEMMA BelowCounters ==
  ASSUME Ready, Settled, receipt.pc = "idle"
  PROVE  /\ creds = storeCreds /\ Given = sent /\ Queries = {}
         /\ Below(sent, creds.next)
  <1>1. PICK u \in Creds : Heading(u) /\ Counts(u)
    BY DEF Ready, Turns, Arriving
  <1>2. DOMAIN mailbox = {} /\ mailbox = <<>> /\ emitted = <<>> /\ tapped = <<>>
    BY DEF Settled
  <1>3. creds = u /\ storeCreds = u
    BY <1>1, <1>2, Zenon DEF Heading, Reaching, LastMail, LastOf
  <1>4. Queries = {}
    BY <1>2 DEF Queries
  <1>5. Given = sent
    BY <1>4 DEF Given
  <1>. QED  BY <1>1, <1>3, <1>4, <1>5 DEF Counts

LEMMA Alone ==
  ASSUME Ready, NEW t \in Tasks, Active(t)
  PROVE  Working(t) /\ \A s \in Tasks : Active(s) => s = t
  <1>1. Working(t)
    BY DEF Ready, Turns
  <1>. QED  BY <1>1 DEF Working

LEMMA NobodyElse ==
  ASSUME Ready, NEW t \in Tasks, task[t].pc = "idle", Begin, ~disturbed'
  PROVE  Settled /\ receipt.pc = "idle" /\ \A s \in Tasks : ~Active(s)
  BY DEF Begin, Busy, Active

(* The clauses about tasks, when one of them takes a step.                  *)
LEMMA TasksTurn ==
  ASSUME Ready, NEW t \in Tasks, NEW r, task' = [task EXCEPT ![t] = r],
         \A s \in Tasks \ {t} : ~Active(s), Active(t)' => Working(t)'
  PROVE  /\ task'[t] = r /\ \A s \in Tasks \ {t} : task'[s] = task[s] /\ task[s].keys = {}
         /\ \A s \in Tasks : Active(s)' => Working(s)'
  <1>1. task \in [Tasks -> TaskRecords]
    BY DEF Ready, Inv, TypeOK
  <1>2. task'[t] = r /\ \A s \in Tasks \ {t} : task'[s] = task[s]
    BY <1>1
  <1>3. \A s \in Tasks \ {t} : ~Active(s)'
    BY <1>2 DEF Active
  <1>4. \A s \in Tasks \ {t} : task[s].keys = {}
    BY DEF Ready, Leveled, LevelTasks, Active
  <1>. QED  BY <1>2, <1>3, <1>4

LEMMA QuietTurns ==
  ASSUME Ready, NEW t \in Tasks, NEW r, task' = [task EXCEPT ![t] = r], Shape(t, r), UNCHANGED others,
         ~disturbed'
  PROVE  Turns'
  <1>1. /\ UNCHANGED <<creds, storeCreds, mailbox, emitted, tapped, held, receipt, served, bundle>>
        /\ UNCHANGED <<taken, sent, open, crashes, closes>>
    BY DEF others
  <1>2. task'[t] = r
    BY DEF Ready, Inv, TypeOK
  <1>3. /\ receipt.pc = "idle" /\ \A s \in Tasks \ {t} : ~Active(s)
        /\ r.keys = {} \/ r.keys = task[t].keys
        /\ task[t].pc = "idle" => Begins(t, r)
        /\ task[t].pc = "idle" \/ (Active(t) /\ Working(t))
    <2>1. CASE Begins(t, r)
      BY <2>1, NobodyElse DEF Begins
    <2>2. CASE ~Begins(t, r)
      <3>1. Active(t)
        BY <2>2 DEF Shape, GoesOn, TriesAgain, Ends, Active
      <3>2. Working(t)
        BY <3>1, Alone
      <3>. QED  BY <2>2, <3>1, <3>2 DEF Shape, GoesOn, TriesAgain, Ends, Working, Active
    <2>. QED  BY <2>1, <2>2
  <1>4. Queries' = Queries
    BY <1>1 DEF Queries
  <1>5. Given' = Given /\ InOrder' /\ StillHeld'
    BY <1>1, <1>4, NothingGiven DEF Ready, Turns
  <1>6. ASSUME Active(t)' PROVE Working(t)'
    <2>1. /\ \A i \in Queries : mailbox[i].from = t
          /\ r.socket = crashes
          /\ bundle = "missing" => Below(sent, r.start.next)
          /\ r.pc \in {"count", "enter", "recount", "check"} => Below(Given, r.start.next)
          /\ r.pc \in {"generate", "waiting"} => Below(Given, r.auth.next)
          /\ r.pc \notin {"commit", "query"}
      <3>1. CASE Begins(t, r)
        <4>1. Settled /\ receipt.pc = "idle"
          BY <3>1, NobodyElse DEF Begins
        <4>2. Given = sent /\ Queries = {} /\ Below(sent, creds.next)
          BY <4>1, BelowCounters
        <4>. QED  BY <3>1, <4>2 DEF Begins
      <3>2. CASE GoesOn(t, r)
        <4>1. Active(t)
          BY <3>2 DEF GoesOn, Active
        <4>2. Working(t) /\ r.start = task[t].start /\ r.socket = task[t].socket
          BY <3>2, <4>1, Alone DEF GoesOn, Kept
        <4>3. CASE task[t].pc \in {"count", "recount", "enter"} /\ r.pc \in {"enter", "recount", "check"}
          BY <4>2, <4>3 DEF Working
        <4>4. CASE task[t].pc = "check" /\ r.pc = "generate" /\ r.auth = task[t].start
          BY <4>2, <4>4 DEF Working
        <4>5. CASE task[t].pc = "digest" /\ HasBeenHeard(t) /\ bundle # "present" /\ r.pc = "enter"
          <5>1. Queries = {}
            <6>1. SUFFICES ASSUME NEW i \in Queries PROVE FALSE
              OBVIOUS
            <6>2. i \in DOMAIN mailbox /\ mailbox[i].kind = "query" /\ mailbox[i].from = t
              BY <4>2 DEF Working, Queries
            <6>. QED  BY <4>5, <6>2, Zenon DEF HasBeenHeard
          <5>2. Given = sent
            BY <5>1 DEF Given
          <5>3. bundle = "missing"
            BY <4>5 DEF Ready, Inv, TypeOK
          <5>. QED  BY <4>2, <4>5, <5>1, <5>2, <5>3 DEF Working
        <4>. QED  BY <3>2, <4>3, <4>4, <4>5 DEF GoesOn
      <3>3. CASE TriesAgain(t, r)
        <4>1. Active(t)
          BY <3>3 DEF TriesAgain, Active
        <4>. QED  BY <3>3, <4>1, Alone DEF TriesAgain, Kept, Working
      <3>4. CASE Ends(t, r)
        <4>1. r.pc = "digest" /\ Kept(t, r) /\ Active(t)
          BY <1>2, <1>6, <3>4 DEF Ends, Active
        <4>. QED  BY <4>1, Alone DEF Kept, Working
      <3>. QED  BY <3>1, <3>2, <3>3, <3>4 DEF Shape
    <2>2. \A s \in Tasks \ {t} : ~Active(s)'
      BY <1>3 DEF Active, Ready, Inv, TypeOK
    <2>. QED  BY <1>1, <1>2, <1>3, <1>4, <1>5, <2>1, <2>2 DEF Working, Below
  <1>7. \A s \in Tasks : Active(s)' => Working(s)'
    BY <1>3, <1>6, TasksTurn
  <1>8. Arriving'
    <2>1. PICK u \in Creds : Heading(u) /\ Counts(u)
      BY <1>3 DEF Ready, Turns, Arriving
    <2>2. Heading(u)'
      BY <1>1, <2>1 DEF Heading, Reaching, LastMail, LastOf, NoMail
    <2>3. \A s \in Tasks : task'[s].keys = {} \/ task'[s].keys = task[s].keys
      BY <1>2, <1>3 DEF Ready, Inv, TypeOK
    <2>4. Counts(u)'
      BY <1>5, <2>1, <2>3 DEF Counts, Below
    <2>. QED  BY <2>2, <2>4 DEF Arriving
  <1>9. Receiving'
    BY <1>1, <1>3 DEF Receiving
  <1>. QED  BY <1>1, <1>5, <1>7, <1>8, <1>9 DEF Turns, Ready

LEMMA MailAdded ==
  ASSUME Inv, NEW m \in Messages, mailbox' = Append(mailbox, m)
  PROVE  LET n == Len(mailbox) + 1
         IN  /\ n \in DOMAIN mailbox' /\ mailbox'[n] = m
             /\ n \in Nat /\ DOMAIN mailbox = 1 .. (n - 1) /\ DOMAIN mailbox' = 1 .. n
             /\ \A i \in DOMAIN mailbox : i \in DOMAIN mailbox' /\ mailbox'[i] = mailbox[i] /\ i < n
             /\ m.kind # "query" => Queries' = Queries
             /\ m.kind = "query" => Queries' = Queries \cup {n}
  <1>1. PICK n : n = Len(mailbox) + 1
    OBVIOUS
  <1>2. mailbox \in Seq(Messages)
    BY DEF Inv, TypeOK
  <1>3. /\ n \in Nat /\ DOMAIN mailbox = 1 .. (n - 1) /\ DOMAIN mailbox' = 1 .. n
        /\ mailbox'[n] = m /\ \A i \in 1 .. (n - 1) : mailbox'[i] = mailbox[i]
    BY <1>1, <1>2, Longer
  <1>4. \A i \in 1 .. (n - 1) : i \in 1 .. n /\ i < n
    BY <1>3
  <1>5. n \in 1 .. n /\ \A i \in 1 .. n : i = n \/ i \in 1 .. (n - 1)
    BY <1>1, <1>2, <1>3
  <1>6. Queries' = {i \in 1 .. n : mailbox'[i].kind = "query"}
    BY <1>3 DEF Queries
  <1>7. Queries = {i \in 1 .. (n - 1) : mailbox[i].kind = "query"}
    BY <1>3 DEF Queries
  <1>8. m.kind # "query" => Queries' = Queries
    BY <1>3, <1>4, <1>5, <1>6, <1>7
  <1>9. m.kind = "query" => Queries' = Queries \cup {n}
    BY <1>3, <1>4, <1>5, <1>6, <1>7
  <1>. QED  BY ONLY <1>1, <1>3, <1>4, <1>5, <1>8, <1>9

(* The last update put in heads everything; a query changes no heading.     *)
LEMMA HeadingAdded ==
  ASSUME Inv, NEW m \in Messages, mailbox' = Append(mailbox, m),
         UNCHANGED <<creds, storeCreds, emitted, tapped>>
  PROVE  /\ m.kind = "internal" => Heading(m.update)'
         /\ m.kind = "query" => \A u : Heading(u) => Heading(u)'
  <1>1. PICK n : n = Len(mailbox) + 1
    OBVIOUS
  <1>2. /\ n \in DOMAIN mailbox' /\ mailbox'[n] = m
        /\ n \in Nat /\ DOMAIN mailbox = 1 .. (n - 1) /\ DOMAIN mailbox' = 1 .. n
        /\ \A i \in DOMAIN mailbox : i \in DOMAIN mailbox' /\ mailbox'[i] = mailbox[i] /\ i < n
    BY <1>1, MailAdded
  <1>3. \A j \in DOMAIN mailbox' : j = n \/ j \in DOMAIN mailbox
    BY <1>2
  <1>4. ASSUME m.kind = "internal" PROVE LastMail("internal", m.update)'
    <2>1. \A j \in DOMAIN mailbox' : ~(j > n)
      BY <1>2
    <2>. QED  BY <1>2, <1>4, <2>1 DEF LastMail
  <1>5. ASSUME m.kind = "query", NEW k \in {"internal", "sync"}
        PROVE  (NoMail(k) => NoMail(k)') /\ \A u : LastMail(k, u) => LastMail(k, u)'
    <2>1. NoMail(k) => NoMail(k)'
      BY <1>2, <1>3, <1>5 DEF NoMail
    <2>2. ASSUME NEW u, LastMail(k, u) PROVE LastMail(k, u)'
      <3>1. PICK i \in DOMAIN mailbox : /\ mailbox[i].kind = k /\ mailbox[i].update = u
                                        /\ \A j \in DOMAIN mailbox : j > i => mailbox[j].kind # k
        BY <2>2 DEF LastMail
      <3>2. \A j \in DOMAIN mailbox' : j > i => mailbox'[j].kind # k
        BY <1>2, <1>3, <1>5, <3>1
      <3>. QED  BY <1>2, <3>1, <3>2 DEF LastMail
    <2>. QED  BY <2>1, <2>2
  <1>. QED  BY <1>4, <1>5 DEF Heading, Reaching, LastOf

LEMMA GenerateTurns ==
  ASSUME Ready, NEW t \in Tasks, Generate(t)
  PROVE  Turns'
  <1>. DEFINE a == task[t].auth
              c == task[t].count
              u == Update(a, c)
              fresh == Fresh(NewIds(a, c))
              m == [kind |-> "internal", update |-> u]
              r == [task[t] EXCEPT !.pc = "commit", !.fresh = fresh, !.keys = fresh, !.auth = u]
  <1>1. task \in [Tasks -> TaskRecords] /\ task[t] \in TaskRecords /\ a \in Creds /\ c \in Nat /\ Level(a)
    BY DEF Ready, Inv, TypeOK, TaskRecords, Leveled, LevelTasks
  <1>2. task[t].pc = "generate" /\ Active(t) /\ u.next <= MaxId + 1
    BY DEF Generate, Active
  <1>3. Working(t) /\ ~Orphan(t)
    BY <1>2, Alone DEF Working, Orphan
  <1>4. Given \subseteq Pairs
    <2>1. \A i \in Queries : mailbox[i].keys \subseteq Pairs
      BY DEF Ready, Inv, TypeOK, Queries, Messages
    <2>. QED  BY <2>1 DEF Given, Ready, Inv, TypeOK
  <1>5. /\ fresh \subseteq Pairs /\ OneEach(fresh) /\ Before(Given, fresh)
        /\ Below(Given \cup fresh, u.next) /\ Read(Written(fresh), NodeIds(a, c)) = fresh
    <2>1. Below(Given, a.next)
      BY <1>2, <1>3 DEF Working
    <2>. QED  BY <1>1, <1>2, <1>4, <2>1, FreshAbove DEF Ready
  <1>6. /\ task' = [task EXCEPT ![t] = r] /\ mailbox' = Append(mailbox, m)
        /\ UNCHANGED <<creds, storeCreds, emitted, tapped, held, receipt, served, bundle, taken, sent,
                       open, crashes, closes>>
    BY <1>1, <1>3, <1>5 DEF Generate, routes, link, network
  <1>7. m \in Messages /\ m.kind = "internal" /\ m.update = u /\ u \in Creds
    BY <1>1, LevelUpdate DEF Messages
  <1>8. /\ r.pc = "commit" /\ r.fresh = fresh /\ r.keys = fresh /\ r.auth = u
        /\ r.start = task[t].start /\ r.socket = task[t].socket
    BY <1>1 DEF TaskRecords
  <1>. HIDE DEF a, c, u, fresh, m, r
  <1>9. Queries' = Queries /\ (\A i \in Queries : mailbox'[i] = mailbox[i])
    BY <1>6, <1>7, MailAdded DEF Queries, Ready
  <1>10. Given' = Given /\ InOrder' /\ StillHeld'
    BY <1>6, <1>9, NothingGiven DEF Ready, Turns
  <1>11. /\ task'[t] = r /\ \A s \in Tasks \ {t} : ~Active(s) /\ task'[s] = task[s]
    BY <1>1, <1>3, <1>6 DEF Working
  <1>12. Working(t)'
    <2>1. \A s \in Tasks \ {t} : ~Active(s)'
      BY <1>11 DEF Active
    <2>. QED  BY <1>3, <1>5, <1>6, <1>8, <1>9, <1>10, <1>11, <2>1 DEF Working, Below
  <1>13. /\ \A s \in Tasks \ {t} : task'[s].keys = {}
         /\ \A s \in Tasks : Active(s)' => Working(s)'
    BY <1>6, <1>11, <1>12, TasksTurn
  <1>14. Arriving'
    <2>1. PICK v \in Creds : v = u
      BY <1>7
    <2>2. PICK n \in Messages : n = m
      BY <1>7
    <2>3. Heading(v)'
      BY <1>6, <1>7, <2>1, <2>2, HeadingAdded DEF Ready
    <2>4. Counts(v)'
      BY <1>5, <1>8, <1>10, <1>11, <1>13, <2>1 DEF Counts, Below
    <2>. QED  BY <2>3, <2>4 DEF Arriving
  <1>15. Receiving'
    BY <1>3, <1>6 DEF Receiving, Working
  <1>. QED  BY <1>6, <1>10, <1>13, <1>14, <1>15 DEF Turns, Ready

LEMMA CommitTurns ==
  ASSUME Ready, NEW t \in Tasks, Commit(t)
  PROVE  Turns'
  <1>0. PICK keys : keys = task[t].keys
    OBVIOUS
  <1>. DEFINE r == [task[t] EXCEPT !.pc = "query", !.fresh = {}]
  <1>1. task \in [Tasks -> TaskRecords] /\ task[t] \in TaskRecords /\ keys \subseteq Pairs
    BY <1>0 DEF Ready, Inv, TypeOK, TaskRecords
  <1>2. task[t].pc = "commit" /\ Working(t)
    BY Alone DEF Commit, Active
  <1>3. /\ OneEach(keys) /\ Before(Given, keys) /\ Below(Given \cup keys, task[t].auth.next)
        /\ held' = Written(keys)
    BY <1>0, <1>2 DEF Working, Commit
  <1>4. /\ task' = [task EXCEPT ![t] = r]
        /\ UNCHANGED <<creds, storeCreds, mailbox, emitted, tapped, receipt, served, bundle, taken, sent,
                       open, crashes, closes>>
    BY DEF Commit, routes, link, network
  <1>5. /\ r.pc = "query" /\ r.keys = keys /\ r.auth = task[t].auth
        /\ r.start = task[t].start /\ r.socket = task[t].socket
    BY <1>0, <1>1 DEF TaskRecords
  <1>. HIDE DEF r
  <1>6. Queries' = Queries /\ Given' = Given
    BY <1>4 DEF Queries, Given
  <1>7. InOrder'
    BY <1>4, <1>6 DEF InOrder, Ready, Turns
  <1>8. StillHeld'
    <2>1. StillHeld
      BY DEF Ready, Turns
    <2>2. ASSUME NEW pairs, pairs \subseteq Given, Stored(pairs) PROVE Stored(pairs)'
      <3>1. pairs \subseteq Pairs /\ Before(pairs, keys)
        <4>1. \A i \in Queries : mailbox[i].keys \subseteq Pairs
          BY DEF Ready, Inv, TypeOK, Queries, Messages
        <4>2. Given \subseteq Pairs
          BY <4>1 DEF Given, Ready, Inv, TypeOK
        <4>. QED  BY <1>3, <2>2, <4>2 DEF Before
      <3>. QED  BY <1>1, <1>3, <2>2, <3>1, WrittenAbove DEF Ready
    <2>3. served \cup taken \subseteq Given /\ \A i \in Queries : mailbox[i].keys \subseteq Given
      BY <2>1 DEF StillHeld, Given
    <2>4. \A p \in Given : held[p.id] = p.gen => held'[p.id] = p.gen
      <3>1. SUFFICES ASSUME NEW p \in Given, held[p.id] = p.gen PROVE held'[p.id] = p.gen
        OBVIOUS
      <3>2. Stored({p})'
        BY <2>2, <3>1 DEF Stored
      <3>. QED  BY <3>2 DEF Stored
    <2>5. \A p \in served \cup taken : held'[p.id] = p.gen
      BY <2>1, <2>3, <2>4 DEF StillHeld, Stored
    <2>6. \A i \in Queries : \A p \in mailbox[i].keys : held'[p.id] = p.gen
      BY <2>1, <2>3, <2>4 DEF StillHeld, Stored
    <2>. QED  BY <1>4, <1>6, <2>1, <2>5, <2>6 DEF StillHeld, Stored
  <1>9. Stored(keys)'
    BY <1>1, <1>3, WrittenStored DEF Ready
  <1>10. task'[t] = r /\ \A s \in Tasks \ {t} : ~Active(s) /\ task'[s] = task[s]
    BY <1>1, <1>2, <1>4 DEF Working
  <1>11. Working(t)'
    <2>1. \A s \in Tasks \ {t} : ~Active(s)'
      BY <1>10 DEF Active
    <2>2. Stored(keys)' => Stored(task[t].keys)'
      BY <1>5, <1>10 DEF Stored
    <2>. QED  BY <1>2, <1>3, <1>4, <1>5, <1>6, <1>9, <1>10, <2>1, <2>2 DEF Working, Below, Stored
  <1>12. \A s \in Tasks : Active(s)' => Working(s)'
    BY <1>4, <1>10, <1>11, TasksTurn
  <1>13. Arriving'
    <2>1. PICK u \in Creds : Heading(u) /\ Counts(u)
      BY <1>2 DEF Ready, Turns, Arriving, Working
    <2>2. Heading(u)'
      BY <1>4, <2>1 DEF Heading, Reaching, LastMail, LastOf, NoMail
    <2>3. Counts(u)'
      BY <1>0, <1>5, <1>6, <1>10, <2>1 DEF Counts, Below
    <2>. QED  BY <2>2, <2>3 DEF Arriving
  <1>14. Receiving'
    BY <1>2, <1>4 DEF Receiving, Working
  <1>. QED  BY <1>4, <1>7, <1>8, <1>12, <1>13, <1>14 DEF Turns, Ready

LEMMA QueryTurns ==
  ASSUME Ready, NEW t \in Tasks, Query(t), ~Orphan(t)
  PROVE  Turns'
  <1>0. PICK keys : keys = task[t].keys
    OBVIOUS
  <1>. DEFINE r == [task[t] EXCEPT !.pc = "waiting"]
              m == [kind |-> "query", from |-> t, keys |-> keys]
  <1>1. task \in [Tasks -> TaskRecords] /\ task[t] \in TaskRecords /\ keys \subseteq Pairs
    BY <1>0 DEF Ready, Inv, TypeOK, TaskRecords
  <1>2. task[t].pc = "query" /\ Working(t)
    BY Alone DEF Query, Active
  <1>3. /\ OneEach(keys) /\ Before(Given, keys) /\ Below(Given \cup keys, task[t].auth.next)
        /\ Stored(keys)
    BY <1>0, <1>2 DEF Working
  <1>4. /\ task' = [task EXCEPT ![t] = r] /\ mailbox' = Append(mailbox, m)
        /\ UNCHANGED <<creds, storeCreds, emitted, tapped, held, receipt, served, bundle, taken, sent,
                       open, crashes, closes>>
    BY <1>0 DEF Query, routes, link, network
  <1>5. /\ r.pc = "waiting" /\ r.keys = keys /\ r.auth = task[t].auth
        /\ r.start = task[t].start /\ r.socket = task[t].socket
    BY <1>0, <1>1 DEF TaskRecords
  <1>6. m \in Messages /\ m.kind = "query" /\ m.keys = keys /\ m.from = t
    BY <1>1 DEF Messages
  <1>. HIDE DEF r, m
  <1>7. PICK n : /\ Queries' = Queries \cup {n} /\ mailbox'[n] = m /\ n \in Nat
                 /\ \A i \in Queries : mailbox'[i] = mailbox[i] /\ i < n /\ i \in Nat
    BY <1>4, <1>6, MailAdded DEF Ready, Queries
  <1>8. Given' = Given \cup keys
    <2>1. UNION {mailbox'[i].keys : i \in Queries'} = keys \cup UNION {mailbox[i].keys : i \in Queries}
      <3>1. \A p : p \in UNION {mailbox'[i].keys : i \in Queries'}
                  <=> \E i \in Queries \cup {n} : p \in mailbox'[i].keys
        BY <1>7
      <3>2. \A p : (\E i \in Queries \cup {n} : p \in mailbox'[i].keys)
                  <=> p \in keys \/ \E i \in Queries : p \in mailbox[i].keys
        BY <1>6, <1>7
      <3>. QED  BY <3>1, <3>2, Zenon
    <2>. QED  BY <1>4, <2>1 DEF Given
  <1>9. InOrder'
    <2>1. InOrder
      BY DEF Ready, Turns
    <2>2. Before(sent, keys) /\ \A i \in Queries : Before(mailbox[i].keys, keys)
      BY <1>3 DEF Before, Given
    <2>3. \A i \in Queries' : OneEach(mailbox'[i].keys) /\ Before(sent', mailbox'[i].keys)
      BY <1>3, <1>4, <1>6, <1>7, <2>1, <2>2 DEF InOrder
    <2>4. \A i, j \in Queries' : i < j => Before(mailbox'[i].keys, mailbox'[j].keys)
      BY <1>6, <1>7, <2>1, <2>2 DEF InOrder
    <2>. QED  BY <1>4, <2>1, <2>3, <2>4 DEF InOrder
  <1>10. StillHeld'
    BY <1>3, <1>4, <1>6, <1>7 DEF StillHeld, Stored, Ready, Turns
  <1>11. task'[t] = r /\ \A s \in Tasks \ {t} : ~Active(s) /\ task'[s] = task[s]
    BY <1>1, <1>2, <1>4 DEF Working
  <1>12. Working(t)'
    <2>1. \A s \in Tasks \ {t} : ~Active(s)'
      BY <1>11 DEF Active
    <2>2. \A i \in Queries' : mailbox'[i].from = t
      BY <1>2, <1>6, <1>7 DEF Working
    <2>. QED  BY <1>2, <1>3, <1>4, <1>5, <1>8, <1>11, <2>1, <2>2 DEF Working, Below
  <1>13. \A s \in Tasks : Active(s)' => Working(s)'
    BY <1>4, <1>11, <1>12, TasksTurn
  <1>14. Arriving'
    <2>1. PICK u \in Creds : Heading(u) /\ Counts(u)
      BY <1>2 DEF Ready, Turns, Arriving, Working
    <2>2. Heading(u)'
      BY <1>4, <1>6, <2>1, HeadingAdded DEF Ready
    <2>3. Counts(u)'
      BY <1>0, <1>5, <1>8, <1>11, <2>1 DEF Counts, Below
    <2>. QED  BY <2>2, <2>3 DEF Arriving
  <1>15. Receiving'
    BY <1>2, <1>4 DEF Receiving, Working
  <1>. QED  BY <1>4, <1>9, <1>10, <1>13, <1>14, <1>15 DEF Turns, Ready

(* ----- the ways of an update -------------------------------------------  *)

LEMMA MailTaken ==
  ASSUME Inv, mailbox # <<>>, mailbox' = Tail(mailbox)
  PROVE  /\ Head(mailbox) = mailbox[1] /\ 1 \in DOMAIN mailbox /\ Head(mailbox) \in Messages
         /\ \A i \in DOMAIN mailbox' : /\ i \in Nat /\ i + 1 \in DOMAIN mailbox
                                       /\ i >= 1 /\ mailbox'[i] = mailbox[i + 1]
         /\ \A j \in DOMAIN mailbox \ {1} : /\ j \in Nat /\ j > 1 /\ j - 1 \in DOMAIN mailbox'
                                            /\ mailbox'[j - 1] = mailbox[j]
  <1>1. PICK n : n = Len(mailbox)
    OBVIOUS
  <1>2. mailbox \in Seq(Messages)
    BY DEF Inv, TypeOK
  <1>3. /\ n \in Nat \ {0} /\ DOMAIN mailbox = 1 .. n /\ DOMAIN mailbox' = 1 .. (n - 1)
        /\ Head(mailbox) = mailbox[1] /\ Head(mailbox) \in Messages
        /\ \A i \in 1 .. (n - 1) : mailbox'[i] = mailbox[i + 1]
    BY <1>1, <1>2, OneLess
  <1>4. \A i \in 1 .. (n - 1) : i \in Nat /\ i + 1 \in 1 .. n /\ i >= 1
    BY <1>3
  <1>5. \A j \in (1 .. n) \ {1} : j \in Nat /\ j > 1 /\ j - 1 \in 1 .. (n - 1) /\ (j - 1) + 1 = j
    BY <1>3
  <1>6. 1 \in 1 .. n
    BY <1>3
  <1>7. \A j \in (1 .. n) \ {1} : mailbox'[j - 1] = mailbox[j]
    BY <1>3, <1>5
  <1>. QED  BY ONLY <1>3, <1>4, <1>5, <1>6, <1>7

(* The last of a kind stays the last, unless it was the only one.           *)
LEMMA MailLeft ==
  ASSUME Inv, mailbox # <<>>, mailbox' = Tail(mailbox), NEW k
  PROVE  /\ NoMail(k) => NoMail(k)'
         /\ \A u : LastMail(k, u) =>
              \/ LastMail(k, u)'
              \/ Head(mailbox).kind = k /\ Head(mailbox).update = u /\ NoMail(k)'
  <1>1. NoMail(k) => NoMail(k)'
    BY MailTaken DEF NoMail
  <1>2. ASSUME NEW u, LastMail(k, u)
        PROVE  \/ LastMail(k, u)'
               \/ Head(mailbox).kind = k /\ Head(mailbox).update = u /\ NoMail(k)'
    <2>1. PICK i \in DOMAIN mailbox : /\ mailbox[i].kind = k /\ mailbox[i].update = u
                                      /\ \A j \in DOMAIN mailbox : j > i => mailbox[j].kind # k
      BY <1>2 DEF LastMail
    <2>2. CASE i = 1
      <3>1. \A j \in DOMAIN mailbox' : mailbox'[j].kind # k
        <4>1. SUFFICES ASSUME NEW j \in DOMAIN mailbox' PROVE mailbox'[j].kind # k
          OBVIOUS
        <4>2. j + 1 \in DOMAIN mailbox /\ j + 1 > 1 /\ mailbox'[j] = mailbox[j + 1]
          BY MailTaken
        <4>. QED  BY <2>1, <2>2, <4>2
      <3>. QED  BY <2>1, <2>2, <3>1, MailTaken DEF NoMail
    <2>3. CASE i # 1
      <3>1. i - 1 \in DOMAIN mailbox' /\ mailbox'[i - 1] = mailbox[i] /\ i \in Nat
        BY <2>3, MailTaken
      <3>2. ASSUME NEW j \in DOMAIN mailbox', j > i - 1 PROVE mailbox'[j].kind # k
        <4>1. j + 1 \in DOMAIN mailbox /\ j + 1 > i /\ mailbox'[j] = mailbox[j + 1]
          BY <3>1, <3>2, MailTaken
        <4>. QED  BY <2>1, <4>1
      <3>. QED  BY <2>1, <3>1, <3>2 DEF LastMail
    <2>. QED  BY <2>2, <2>3
  <1>. QED  BY <1>1, <1>2

LEMMA QueriesLeft ==
  ASSUME Inv, mailbox # <<>>, mailbox' = Tail(mailbox)
  PROVE  /\ \A i \in Queries' : i + 1 \in Queries /\ mailbox'[i] = mailbox[i + 1] /\ i \in Nat /\ i >= 1
         /\ \A j \in Queries : j = 1 \/ (j > 1 /\ j - 1 \in Queries' /\ mailbox'[j - 1] = mailbox[j])
  BY MailTaken DEF Queries

(* An update that leaves the mailbox moves the queries up.                  *)
LEMMA MovedUp ==
  ASSUME Inv, mailbox # <<>>, mailbox' = Tail(mailbox), Head(mailbox).kind # "query",
         UNCHANGED <<sent, served, taken, held>>
  PROVE  /\ Given' = Given
         /\ InOrder => InOrder'
         /\ StillHeld => StillHeld'
         /\ \A i \in Queries' : \E j \in Queries : mailbox'[i] = mailbox[j]
  <1>1. /\ \A i \in Queries' : i + 1 \in Queries /\ mailbox'[i] = mailbox[i + 1] /\ i \in Nat
        /\ \A j \in Queries : j - 1 \in Queries' /\ mailbox'[j - 1] = mailbox[j]
    BY QueriesLeft, MailTaken DEF Queries
  <1>2. \A p : (\E i \in Queries' : p \in mailbox'[i].keys) <=> \E j \in Queries : p \in mailbox[j].keys
    BY <1>1
  <1>3. UNION {mailbox'[i].keys : i \in Queries'} = UNION {mailbox[i].keys : i \in Queries}
    BY <1>2
  <1>4. Given' = Given
    BY <1>3 DEF Given
  <1>5. InOrder => InOrder'
    <2>1. \A i, j \in Queries' : i < j => i + 1 < j + 1
      BY <1>1
    <2>. QED  BY <1>1, <2>1 DEF InOrder
  <1>6. StillHeld => StillHeld'
    <2>1. Stored(served \cup taken) => Stored(served \cup taken)'
      BY DEF Stored
    <2>2. ASSUME \A j \in Queries : Stored(mailbox[j].keys)
          PROVE  \A i \in Queries' : Stored(mailbox[i].keys)'
      <3>1. \A j \in Queries : \A p \in mailbox[j].keys : held'[p.id] = p.gen
        BY <2>2 DEF Stored
      <3>2. ASSUME NEW i \in Queries', NEW p \in mailbox'[i].keys PROVE held'[p.id] = p.gen
        <4>1. i + 1 \in Queries /\ p \in mailbox[i + 1].keys
          BY <1>1, <3>2
        <4>. QED  BY <3>1, <4>1
      <3>. QED  BY <3>2 DEF Stored
    <2>. QED  BY <2>1, <2>2 DEF StillHeld
  <1>. QED  BY <1>1, <1>4, <1>5, <1>6

LEMMA WorkingStays ==
  ASSUME Ready, Given' = Given, \A i \in Queries' : \E j \in Queries : mailbox'[i] = mailbox[j],
         UNCHANGED <<task, receipt, crashes, sent, bundle, held>>
  PROVE  /\ \A s \in Tasks : Active(s)' => Working(s)'
         /\ \A u : Counts(u) => Counts(u)'
  <1>1. \A s \in Tasks : Active(s)' = Active(s)
    BY DEF Active
  <1>2. ASSUME NEW t \in Tasks, Active(t) PROVE Working(t)'
    <2>1. Working(t)
      BY <1>2, Alone
    <2>. QED  BY <1>1, <2>1 DEF Working, Stored
  <1>3. \A u : Counts(u) => Counts(u)'
    BY DEF Counts
  <1>. QED  BY <1>1, <1>2, <1>3

(* While something is on its way there is no receipt.                       *)
LEMMA NoReceipt ==
  ASSUME Ready, ~Settled
  PROVE  receipt.pc = "idle" /\ \E u \in Creds : Heading(u) /\ Counts(u)
  BY DEF Ready, Turns, Receiving, Arriving

LEMMA MergeTurns ==
  ASSUME Ready, HandleInternal \/ HandleSync
  PROVE  Turns'
  <1>1. /\ mailbox # <<>> /\ mailbox' = Tail(mailbox) /\ creds' = Head(mailbox).update
        /\ UNCHANGED <<storeCreds, tapped, held, task, receipt, served, bundle, taken, sent,
                       open, crashes, closes>>
    BY DEF HandleInternal, HandleSync, routes, link, network
  <1>2. /\ HandleInternal => /\ Head(mailbox).kind = "internal"
                             /\ emitted' = Append(emitted, Head(mailbox).update)
        /\ HandleSync => Head(mailbox).kind = "sync" /\ emitted' = emitted
    BY DEF HandleInternal, HandleSync, routes
  <1>3. /\ Given' = Given /\ InOrder' /\ StillHeld'
        /\ \A i \in Queries' : \E j \in Queries : mailbox'[i] = mailbox[j]
    BY <1>1, <1>2, MovedUp DEF Ready, Turns
  <1>4. receipt.pc = "idle"
    BY <1>1, NoReceipt DEF Settled
  <1>5. PICK u \in Creds : Heading(u) /\ Counts(u)
    BY <1>1, NoReceipt DEF Settled
  <1>6. Head(mailbox) = mailbox[1] /\ 1 \in DOMAIN mailbox /\ Head(mailbox) \in Messages
    BY <1>1, MailTaken DEF Ready
  <1>7. \A k : /\ NoMail(k) => NoMail(k)' /\ Head(mailbox).kind # k
               /\ LastMail(k, u) => \/ LastMail(k, u)'
                                    \/ Head(mailbox).kind = k /\ Head(mailbox).update = u /\ NoMail(k)'
    BY <1>1, <1>6, MailLeft DEF Ready, NoMail
  <1>8. Heading(u)'
    <2>1. CASE HandleInternal
      <3>1. LastMail("internal", u)
        BY <1>2, <1>5, <1>7, <2>1 DEF Heading
      <3>2. CASE LastMail("internal", u)'
        BY <3>2 DEF Heading
      <3>3. CASE Head(mailbox).update = u /\ NoMail("internal")'
        <4>1. emitted \in Seq(Creds) /\ emitted' = Append(emitted, u)
          BY <1>2, <2>1, <3>3 DEF Ready, Inv, TypeOK
        <4>2. LastOf(emitted, u)'
          BY <4>1, Longer DEF LastOf
        <4>. QED  BY <3>3, <4>2 DEF Heading
      <3>. QED  BY <1>7, <3>1, <3>2, <3>3
    <2>2. CASE HandleSync
      <3>1. Head(mailbox).kind = "sync" /\ emitted' = emitted
        BY <1>2, <2>2
      <3>2. LastMail("internal", u) => LastMail("internal", u)'
        BY <1>7, <3>1
      <3>3. Reaching(u) => Reaching(u)'
        BY <1>1, <1>7, <3>1 DEF Reaching, LastOf
      <3>. QED  BY <1>1, <1>5, <1>7, <3>1, <3>2, <3>3 DEF Heading, LastOf
    <2>. QED  BY <2>1, <2>2
  <1>9. (\A s \in Tasks : Active(s)' => Working(s)') /\ Counts(u)'
    BY <1>1, <1>3, <1>5, WorkingStays
  <1>10. Arriving'
    BY <1>8, <1>9 DEF Arriving
  <1>11. Receiving'
    BY <1>1, <1>4 DEF Receiving
  <1>. QED  BY <1>1, <1>3, <1>9, <1>10, <1>11 DEF Turns, Ready

LEMMA TapTurns ==
  ASSUME Ready, Tap
  PROVE  Turns'
  <1>1. /\ emitted # <<>> /\ emitted' = Tail(emitted) /\ storeCreds' = Head(emitted)
        /\ tapped' = Append(tapped, Head(emitted))
        /\ UNCHANGED <<creds, mailbox, held, task, receipt, served, bundle, taken, sent,
                       open, crashes, closes>>
    BY DEF Tap, link, network
  <1>2. emitted \in Seq(Creds) /\ tapped \in Seq(Creds) /\ Head(emitted) \in Creds
    BY <1>1 DEF Ready, Inv, TypeOK
  <1>3. Queries' = Queries /\ \A i \in Queries : mailbox'[i] = mailbox[i]
    BY <1>1 DEF Queries
  <1>4. Given' = Given /\ InOrder' /\ StillHeld'
    BY <1>1, <1>3, NothingGiven DEF Ready, Turns
  <1>5. receipt.pc = "idle"
    BY <1>1, NoReceipt DEF Settled
  <1>6. PICK u \in Creds : Heading(u) /\ Counts(u)
    BY <1>1, NoReceipt DEF Settled
  <1>7. Heading(u)'
    <2>1. /\ NoMail("internal") => NoMail("internal")'
          /\ LastMail("internal", u) => LastMail("internal", u)'
      BY <1>1 DEF NoMail, LastMail
    <2>2. ASSUME LastOf(emitted, u)
          PROVE  LastOf(emitted, u)' \/ (emitted' = <<>> /\ storeCreds' = u /\ LastOf(tapped, u)')
      <3>1. PICK n : n = Len(emitted)
        OBVIOUS
      <3>2. /\ n \in Nat \ {0} /\ Head(emitted) = emitted[1] /\ Len(Tail(emitted)) = n - 1
            /\ \A i \in 1 .. (n - 1) : Tail(emitted)[i] = emitted[i + 1]
            /\ Tail(emitted) = <<>> <=> n = 1
        BY <1>1, <1>2, <3>1, OneLess
      <3>3. CASE n = 1
        <4>1. Head(emitted) = u
          BY <2>2, <3>1, <3>2, <3>3 DEF LastOf
        <4>2. LastOf(tapped, u)'
          BY <1>1, <1>2, <4>1, Longer DEF LastOf
        <4>. QED  BY <1>1, <3>2, <3>3, <4>1, <4>2
      <3>4. CASE n # 1
        <4>1. n - 1 \in 1 .. (n - 1) /\ (n - 1) + 1 = n
          BY <3>2, <3>4
        <4>2. Tail(emitted)[n - 1] = u /\ Tail(emitted) # <<>>
          BY <2>2, <3>1, <3>2, <3>4, <4>1 DEF LastOf
        <4>. QED  BY <1>1, <3>2, <4>2 DEF LastOf
      <3>. QED  BY <3>3, <3>4
    <2>. QED  BY <1>1, <1>6, <2>1, <2>2 DEF Heading, Reaching
  <1>8. (\A s \in Tasks : Active(s)' => Working(s)') /\ Counts(u)'
    BY <1>1, <1>3, <1>4, <1>6, WorkingStays
  <1>9. Arriving'
    BY <1>7, <1>8 DEF Arriving
  <1>10. Receiving'
    BY <1>1, <1>5 DEF Receiving
  <1>. QED  BY <1>1, <1>4, <1>8, <1>9, <1>10 DEF Turns, Ready

LEMMA EchoTurns ==
  ASSUME Ready, Echo
  PROVE  Turns'
  <1>1. PICK m : m = [kind |-> "sync", update |-> Head(tapped)]
    OBVIOUS
  <1>2. /\ tapped # <<>> /\ tapped' = Tail(tapped) /\ mailbox' = Append(mailbox, m)
        /\ UNCHANGED <<creds, storeCreds, emitted, held, task, receipt, served, bundle, taken, sent,
                       open, crashes, closes>>
    BY <1>1 DEF Echo, link, network
  <1>3. tapped \in Seq(Creds) /\ m \in Messages /\ m.kind = "sync" /\ m.update = Head(tapped)
    BY <1>1, <1>2 DEF Ready, Inv, TypeOK, Messages
  <1>4. Queries' = Queries /\ \A i \in Queries : mailbox'[i] = mailbox[i]
    BY <1>2, <1>3, MailAdded DEF Queries, Ready
  <1>5. Given' = Given /\ InOrder' /\ StillHeld'
    BY <1>2, <1>4, NothingGiven DEF Ready, Turns
  <1>6. receipt.pc = "idle"
    BY <1>2, NoReceipt DEF Settled
  <1>7. PICK u \in Creds : Heading(u) /\ Counts(u)
    BY <1>2, NoReceipt DEF Settled
  <1>8. Heading(u)'
    <2>1. PICK n : /\ n \in DOMAIN mailbox' /\ mailbox'[n] = m /\ n \in Nat /\ DOMAIN mailbox' = 1 .. n
                   /\ \A i \in DOMAIN mailbox : i \in DOMAIN mailbox' /\ mailbox'[i] = mailbox[i] /\ i < n
                   /\ \A j \in DOMAIN mailbox' : j = n \/ j \in DOMAIN mailbox
      <3>1. PICK n : n = Len(mailbox) + 1
        OBVIOUS
      <3>2. /\ n \in DOMAIN mailbox' /\ mailbox'[n] = m
            /\ n \in Nat /\ DOMAIN mailbox = 1 .. (n - 1) /\ DOMAIN mailbox' = 1 .. n
            /\ \A i \in DOMAIN mailbox : i \in DOMAIN mailbox' /\ mailbox'[i] = mailbox[i] /\ i < n
        BY <1>2, <1>3, <3>1, MailAdded DEF Ready
      <3>. QED  BY <3>2
    <2>2. NoMail("internal") => NoMail("internal")'
      BY <1>3, <2>1 DEF NoMail
    <2>3. ASSUME LastMail("internal", u) PROVE LastMail("internal", u)'
      <3>1. PICK i \in DOMAIN mailbox :
              /\ mailbox[i].kind = "internal" /\ mailbox[i].update = u
              /\ \A j \in DOMAIN mailbox : j > i => mailbox[j].kind # "internal"
        BY <2>3 DEF LastMail
      <3>2. \A j \in DOMAIN mailbox' : j > i => mailbox'[j].kind # "internal"
        BY <1>3, <2>1, <3>1
      <3>. QED  BY <2>1, <3>1, <3>2 DEF LastMail
    <2>4. ASSUME LastOf(tapped, u)
          PROVE  LastOf(tapped, u)' \/ (tapped' = <<>> /\ LastMail("sync", u)')
      <3>1. PICK l : l = Len(tapped)
        OBVIOUS
      <3>2. /\ l \in Nat \ {0} /\ Head(tapped) = tapped[1] /\ Len(Tail(tapped)) = l - 1
            /\ \A i \in 1 .. (l - 1) : Tail(tapped)[i] = tapped[i + 1]
            /\ Tail(tapped) = <<>> <=> l = 1
        BY <1>2, <1>3, <3>1, OneLess
      <3>3. CASE l = 1
        <4>1. m.update = u
          BY <1>3, <2>4, <3>1, <3>2, <3>3 DEF LastOf
        <4>2. \A j \in DOMAIN mailbox' : ~(j > n)
          BY <2>1
        <4>3. LastMail("sync", u)'
          BY <1>3, <2>1, <4>1, <4>2 DEF LastMail
        <4>. QED  BY <1>2, <3>2, <3>3, <4>3
      <3>4. CASE l # 1
        <4>1. l - 1 \in 1 .. (l - 1) /\ (l - 1) + 1 = l
          BY <3>2, <3>4
        <4>2. Tail(tapped)[l - 1] = u /\ Tail(tapped) # <<>>
          BY <2>4, <3>1, <3>2, <3>4, <4>1 DEF LastOf
        <4>. QED  BY <1>2, <3>2, <4>2 DEF LastOf
      <3>. QED  BY <3>3, <3>4
    <2>5. Reaching(u) => Reaching(u)'
      BY <1>2, <2>4 DEF Reaching
    <2>. QED  BY <1>2, <1>7, <2>2, <2>3, <2>5 DEF Heading, LastOf
  <1>9. (\A s \in Tasks : Active(s)' => Working(s)') /\ Counts(u)'
    BY <1>2, <1>4, <1>5, <1>7, WorkingStays
  <1>10. Arriving'
    BY <1>8, <1>9 DEF Arriving
  <1>11. Receiving'
    BY <1>2, <1>6 DEF Receiving
  <1>. QED  BY <1>2, <1>5, <1>9, <1>10, <1>11 DEF Turns, Ready

(* The first query is taken by the server, or not.                          *)
LEMMA QueryLeaves ==
  ASSUME Ready, HandleQuery
  PROVE  /\ UNCHANGED <<creds, storeCreds, emitted, tapped, held, receipt, open, crashes, closes>>
         /\ Given' \subseteq Given /\ sent' \subseteq Given /\ InOrder' /\ StillHeld'
         /\ \A i \in Queries' : \E j \in Queries : mailbox'[i] = mailbox[j]
         /\ \A u : Heading(u) => Heading(u)'
         /\ bundle' = "missing" => bundle = "missing" /\ sent' = sent
         /\ Head(mailbox).from \in Tasks
         /\ \/ UNCHANGED task
            \/ Accepted(Head(mailbox).from) \/ Refused(Head(mailbox).from)
  <1>1. PICK m : m = Head(mailbox)
    OBVIOUS
  <1>2. /\ mailbox # <<>> /\ m.kind = "query" /\ mailbox' = Tail(mailbox)
        /\ UNCHANGED <<creds, storeCreds, emitted, tapped, held, receipt, open, crashes, closes>>
        /\ ServerTakes(m.keys) \/ UNCHANGED network
    BY <1>1 DEF HandleQuery, routes, link
  <1>3. 1 \in Queries /\ mailbox[1] = m /\ m \in Messages /\ m.from \in Tasks /\ m.keys \subseteq Pairs
    <2>1. Head(mailbox) = mailbox[1] /\ 1 \in DOMAIN mailbox /\ Head(mailbox) \in Messages
      BY <1>2, MailTaken DEF Ready
    <2>. QED  BY <1>1, <1>2, <2>1 DEF Queries, Messages
  <1>4. /\ \A i \in Queries' : i + 1 \in Queries /\ mailbox'[i] = mailbox[i + 1] /\ i \in Nat /\ i >= 1
        /\ \A j \in Queries : j = 1 \/ (j > 1 /\ j - 1 \in Queries' /\ mailbox'[j - 1] = mailbox[j])
    BY <1>2, QueriesLeft DEF Ready
  <1>5. /\ sent' = sent \/ sent' = sent \cup m.keys
        /\ bundle' = "missing" => bundle = "missing" /\ sent' = sent
    BY <1>2 DEF ServerTakes, network
  <1>6. m.keys \subseteq Given /\ sent \subseteq Given
    BY <1>3 DEF Given
  <1>7. Given' \subseteq Given /\ sent' \subseteq Given
    <2>1. ASSUME NEW i \in Queries', NEW p \in mailbox'[i].keys PROVE p \in Given
      <3>1. i + 1 \in Queries /\ p \in mailbox[i + 1].keys
        BY <1>4, <2>1
      <3>. QED  BY <3>1 DEF Given
    <2>. QED  BY <1>5, <1>6, <2>1 DEF Given
  <1>8. InOrder /\ StillHeld
    BY DEF Ready, Turns
  <1>9. \A p \in sent \cup m.keys : p.id \in Int
    BY <1>3 DEF Ready, Inv, TypeOK, Pairs, Ids
  <1>10. OneEach(m.keys) /\ Before(sent, m.keys) /\ OneEach(sent) /\ Stored(m.keys)
    BY <1>3, <1>8 DEF InOrder, StillHeld
  <1>11. InOrder'
    <2>1. OneEach(sent)'
      BY <1>5, <1>9, <1>10 DEF OneEach, Before
    <2>2. ASSUME NEW i \in Queries'
          PROVE  OneEach(mailbox'[i].keys) /\ Before(sent', mailbox'[i].keys)
      <3>1. i + 1 \in Queries /\ mailbox'[i] = mailbox[i + 1] /\ 1 < i + 1
        BY <1>4, <2>2
      <3>2. OneEach(mailbox[i + 1].keys) /\ Before(sent, mailbox[i + 1].keys)
        BY <1>8, <3>1 DEF InOrder
      <3>3. Before(m.keys, mailbox[i + 1].keys)
        BY <1>3, <1>8, <3>1 DEF InOrder
      <3>. QED  BY <1>5, <3>1, <3>2, <3>3 DEF Before
    <2>3. ASSUME NEW i \in Queries', NEW j \in Queries', i < j
          PROVE  Before(mailbox'[i].keys, mailbox'[j].keys)
      <3>1. /\ i + 1 \in Queries /\ mailbox'[i] = mailbox[i + 1] /\ i \in Nat
            /\ j + 1 \in Queries /\ mailbox'[j] = mailbox[j + 1] /\ j \in Nat
        BY <1>4
      <3>2. i + 1 < j + 1
        BY <2>3, <3>1
      <3>. QED  BY <1>8, <3>1, <3>2 DEF InOrder
    <2>. QED  BY <2>1, <2>2, <2>3 DEF InOrder
  <1>12. StillHeld'
    <2>1. /\ served' \subseteq served \cup m.keys /\ taken' = taken
          /\ served' \subseteq served \/ sent' = sent \cup m.keys
      BY <1>2 DEF ServerTakes, network
    <2>2. m.keys \cap taken = {}
      BY <1>8, <1>9, <1>10 DEF StillHeld, Before
    <2>3. \A p \in served' \cup taken' : held'[p.id] = p.gen
      BY <1>2, <1>8, <1>10, <2>1 DEF StillHeld, Stored
    <2>4. ASSUME NEW i \in Queries', NEW p \in mailbox'[i].keys PROVE held'[p.id] = p.gen
      <3>1. i + 1 \in Queries /\ p \in mailbox[i + 1].keys
        BY <1>4, <2>4
      <3>. QED  BY <1>2, <1>8, <3>1 DEF StillHeld, Stored
    <2>5. served' \cup taken' \subseteq sent' /\ served' \cap taken' = {}
      BY <1>5, <1>8, <2>1, <2>2 DEF StillHeld
    <2>. QED  BY <2>3, <2>4, <2>5 DEF StillHeld, Stored
  <1>13. \A i \in Queries' : \E j \in Queries : mailbox'[i] = mailbox[j]
    BY <1>4
  <1>14. ASSUME NEW u, Heading(u) PROVE Heading(u)'
    <2>1. \A k \in {"internal", "sync"} : /\ NoMail(k) => NoMail(k)'
                                          /\ LastMail(k, u) => LastMail(k, u)'
      BY <1>1, <1>2, MailLeft DEF Ready
    <2>. QED  BY <1>2, <1>14, <2>1 DEF Heading, Reaching, LastOf
  <1>15. UNCHANGED task \/ Accepted(m.from) \/ Refused(m.from)
    BY <1>1 DEF HandleQuery
  <1>. QED  BY <1>1, <1>2, <1>3, <1>5, <1>7, <1>11, <1>12, <1>13, <1>14, <1>15

LEMMA HandleQueryTurns ==
  ASSUME Ready, HandleQuery
  PROVE  Turns'
  <1>1. /\ UNCHANGED <<creds, storeCreds, emitted, tapped, held, receipt, open, crashes, closes>>
        /\ Given' \subseteq Given /\ sent' \subseteq Given /\ InOrder' /\ StillHeld'
        /\ \A i \in Queries' : \E j \in Queries : mailbox'[i] = mailbox[j]
        /\ \A u : Heading(u) => Heading(u)'
        /\ bundle' = "missing" => bundle = "missing" /\ sent' = sent
    BY QueryLeaves
  <1>2. PICK t \in Tasks : UNCHANGED task \/ Accepted(t) \/ Refused(t)
    BY QueryLeaves
  <1>3. mailbox # <<>> /\ receipt.pc = "idle"
    BY NoReceipt DEF HandleQuery, Settled
  <1>4. PICK u \in Creds : Heading(u) /\ Counts(u)
    BY <1>3, NoReceipt DEF Settled
  <1>5. task \in [Tasks -> TaskRecords]
    BY DEF Ready, Inv, TypeOK
  <1>6. ASSUME NEW s \in Tasks, Working(s), \A v \in Tasks \ {s} : task'[v] = task[v],
               \/ task'[s] = task[s]
               \/ TriesAgain(s, task'[s])
               \/ task'[s].pc = "digest" /\ Kept(s, task'[s])
        PROVE  Working(s)'
    <2>1. \A v \in Tasks \ {s} : ~Active(v)'
      BY <1>6 DEF Working, Active
    <2>2. /\ \A i \in Queries' : mailbox'[i].from = s
          /\ task'[s].socket = crashes'
          /\ bundle' = "missing" => Below(sent', task'[s].start.next)
          /\ receipt'.pc = "idle"
      BY <1>1, <1>3, <1>6 DEF Working, TriesAgain, Kept
    <2>3. CASE task'[s] = task[s]
      BY <1>1, <1>6, <2>1, <2>2, <2>3 DEF Working, Below, Before, Stored
    <2>4. CASE TriesAgain(s, task'[s])
      BY <1>1, <1>6, <2>1, <2>2, <2>4 DEF Working, Below, TriesAgain
    <2>5. CASE task'[s].pc = "digest" /\ Kept(s, task'[s])
      BY <2>1, <2>2, <2>5 DEF Working
    <2>. QED  BY <1>6, <2>3, <2>4, <2>5
  <1>7. /\ \A s \in Tasks : Active(s)' => Working(s)'
        /\ \A s \in Tasks : task'[s].keys \subseteq task[s].keys
    <2>1. CASE task' = task
      <3>1. \A s \in Tasks : Active(s)' = Active(s)
        BY <2>1 DEF Active
      <3>. QED  BY <1>6, <2>1, <3>1, Alone
    <2>2. ASSUME NEW r, task' = [task EXCEPT ![t] = r], TriesAgain(t, r) \/ Ends(t, r)
          PROVE  /\ \A s \in Tasks : Active(s)' => Working(s)'
                 /\ \A s \in Tasks : task'[s].keys \subseteq task[s].keys
      <3>1. Active(t)
        BY <2>2 DEF TriesAgain, Ends, Active
      <3>2. Working(t)
        BY <3>1, Alone
      <3>3. task'[t] = r /\ \A v \in Tasks \ {t} : task'[v] = task[v]
        BY <1>5, <2>2
      <3>4. Active(t)' => Working(t)'
        BY <1>6, <2>2, <3>2, <3>3 DEF Ends, Active
      <3>5. \A s \in Tasks : Active(s)' => Working(s)'
        BY <2>2, <3>2, <3>4, TasksTurn DEF Working
      <3>6. r.keys = {}
        BY <2>2 DEF TriesAgain, Ends
      <3>. QED  BY <3>3, <3>5, <3>6
    <2>. QED  BY <1>2, <2>1, <2>2, AnswerShape DEF Ready
  <1>8. Counts(u)'
    BY <1>1, <1>4, <1>7 DEF Counts, Below
  <1>9. Arriving'
    BY <1>1, <1>4, <1>8 DEF Arriving
  <1>10. Receiving'
    BY <1>1, <1>3 DEF Receiving
  <1>. QED  BY <1>1, <1>7, <1>9, <1>10 DEF Turns, Ready

(* ----- receipts, peers, and breaks -------------------------------------  *)

(* While a receipt is made nothing is on its way.                           *)
LEMMA ReceiptAlone ==
  ASSUME Ready, receipt.pc # "idle"
  PROVE  /\ Settled /\ \A t \in Tasks : ~Active(t) /\ task[t].keys = {}
         /\ mailbox = <<>> /\ emitted = <<>> /\ Queries = {} /\ Given = sent
  <1>1. Settled /\ \A t \in Tasks : ~Active(t)
    BY DEF Ready, Turns, Receiving
  <1>2. mailbox = <<>> /\ emitted = <<>> /\ DOMAIN mailbox = {}
    BY <1>1 DEF Settled
  <1>3. Queries = {}
    BY <1>2 DEF Queries
  <1>4. Given = sent
    BY <1>3 DEF Given
  <1>5. \A t \in Tasks : task[t].keys = {}
    BY <1>1 DEF Ready, Leveled, LevelTasks, Active
  <1>. QED  BY <1>1, <1>2, <1>3, <1>4, <1>5

LEMMA ReceiptTurns ==
  ASSUME Ready, ReceiptRead \/ ReceiptMerge, ~disturbed'
  PROVE  Turns'
  <1>1. UNCHANGED <<creds, mailbox, emitted, tapped, held, task, served, bundle, taken, sent, open, crashes, closes>>
    BY DEF ReceiptRead, ReceiptMerge, OnlyReceipt, link, routes, network
  <1>2. receipt \in Receipts
    BY DEF Ready, Inv, TypeOK
  <1>3. Settled /\ \A t \in Tasks : ~Active(t)
    <2>1. CASE ReceiptRead
      BY <2>1 DEF ReceiptRead, Begin, Busy, Active
    <2>2. CASE ReceiptMerge
      BY <2>2, ReceiptAlone DEF ReceiptMerge
    <2>. QED  BY <2>1, <2>2
  <1>4. Receiving' /\ receipt'.pc # "idle"
    <2>1. CASE ReceiptRead
      <3>1. receipt'.pc = "make" /\ receipt'.auth = storeCreds
        BY <1>2, <2>1 DEF ReceiptRead, Receipts
      <3>2. Below(sent, storeCreds.next)
        BY <1>3, <2>1, BelowCounters DEF ReceiptRead
      <3>. QED  BY <1>1, <1>3, <3>1, <3>2 DEF Receiving, Settled, Active
    <2>2. CASE ReceiptMerge
      <3>1. receipt.pc = "merge" /\ receipt'.pc = "emit" /\ receipt'.auth = receipt.auth
            /\ receipt'.keys = receipt.keys
        BY <1>2, <2>2 DEF ReceiptMerge, Receipts
      <3>2. Receiving
        BY DEF Ready, Turns
      <3>. QED  BY <1>1, <1>3, <3>1, <3>2 DEF Receiving, Settled, Active, Stored
    <2>. QED  BY <2>1, <2>2
  <1>5. Queries' = Queries /\ \A i \in Queries : mailbox'[i] = mailbox[i]
    BY <1>1 DEF Queries
  <1>6. InOrder' /\ StillHeld'
    BY <1>1, <1>5, NothingGiven DEF Ready, Turns
  <1>7. \A s \in Tasks : ~Active(s)'
    BY <1>1, <1>3 DEF Active
  <1>. QED  BY <1>1, <1>4, <1>6, <1>7 DEF Turns, Arriving, Ready

LEMMA ReceiptMakeTurns ==
  ASSUME Ready, ReceiptMake
  PROVE  Turns'
  <1>1. PICK a : a = receipt.auth
    OBVIOUS
  <1>2. PICK fresh : fresh = Fresh(NewIds(a, 1))
    OBVIOUS
  <1>3. receipt \in Receipts /\ a \in Creds /\ Level(a) /\ sent \subseteq Pairs
    BY <1>1 DEF Ready, Inv, TypeOK, Receipts, Leveled, LevelRoutes
  <1>4. /\ receipt.pc = "make" /\ Update(a, 1).next <= MaxId + 1 /\ held' = Written(fresh)
        /\ UNCHANGED <<creds, storeCreds, mailbox, emitted, tapped, task, served, bundle, taken, sent,
                       open, crashes, closes>>
    BY <1>1, <1>2 DEF ReceiptMake, OnlyReceipt, link
  <1>5. /\ receipt'.pc = "merge" /\ receipt'.auth = Update(a, 1)
        /\ receipt'.keys = Read(Written(fresh), NodeIds(a, 1))
    BY <1>1, <1>2, <1>3 DEF ReceiptMake, Receipts
  <1>6. Settled /\ Queries = {} /\ \A t \in Tasks : ~Active(t)
    BY <1>4, ReceiptAlone
  <1>7. /\ fresh \subseteq Pairs /\ OneEach(fresh) /\ Before(sent, fresh)
        /\ Below(sent \cup fresh, Update(a, 1).next) /\ receipt'.keys = fresh
    <2>1. Below(sent, a.next)
      BY <1>1, <1>4 DEF Ready, Turns, Receiving
    <2>. QED  BY <1>2, <1>3, <1>4, <1>5, <2>1, FreshAbove DEF Ready
  <1>8. Stored(fresh)'
    BY <1>4, <1>7, WrittenStored DEF Ready
  <1>9. Receiving'
    <2>1. Settled' /\ \A t \in Tasks : ~Active(t)'
      BY <1>4, <1>6 DEF Settled, Active
    <2>2. Stored(receipt.keys)'
      BY <1>7, <1>8 DEF Stored
    <2>. QED  BY <1>4, <1>5, <1>7, <2>1, <2>2 DEF Receiving
  <1>10. Queries' = {}
    BY <1>4, <1>6 DEF Queries
  <1>11. InOrder'
    BY <1>4, <1>10 DEF InOrder, Ready, Turns
  <1>12. StillHeld'
    <2>1. PICK out : out = served \cup taken
      OBVIOUS
    <2>2. out \subseteq sent /\ Stored(out) /\ StillHeld
      BY <2>1 DEF Ready, Turns, StillHeld
    <2>3. out \subseteq Pairs /\ Before(out, fresh)
      BY <1>3, <1>7, <2>2 DEF Before
    <2>4. Stored(out)'
      BY <1>4, <1>7, <2>2, <2>3, WrittenAbove DEF Ready
    <2>5. Stored(served \cup taken)'
      BY <1>4, <2>1, <2>4 DEF Stored
    <2>. QED  BY <1>4, <1>10, <2>2, <2>5 DEF StillHeld
  <1>13. receipt'.pc # "idle" /\ \A s \in Tasks : ~Active(s)'
    BY <1>4, <1>5, <1>6 DEF Active
  <1>. QED  BY <1>4, <1>9, <1>11, <1>12, <1>13 DEF Turns, Arriving, Ready

LEMMA ReceiptEmitTurns ==
  ASSUME Ready, ReceiptEmit
  PROVE  Turns'
  <1>1. PICK a : a = receipt.auth
    OBVIOUS
  <1>2. PICK keys : keys = receipt.keys
    OBVIOUS
  <1>3. receipt \in Receipts /\ a \in Creds /\ keys \subseteq Pairs /\ sent \subseteq Pairs
    BY <1>1, <1>2 DEF Ready, Inv, TypeOK, Receipts
  <1>4. /\ receipt.pc = "emit" /\ receipt'.pc = "idle" /\ emitted' = Append(emitted, a)
        /\ \/ sent' = sent \cup keys /\ taken' = taken \cup keys
           \/ UNCHANGED <<sent, taken>>
        /\ UNCHANGED <<creds, storeCreds, mailbox, tapped, held, task, served, bundle, open, crashes,
                       closes>>
    BY <1>1, <1>2, <1>3 DEF ReceiptEmit, OnlyReceipt, link, Receipts
  <1>5. /\ \A t \in Tasks : ~Active(t) /\ task[t].keys = {}
        /\ mailbox = <<>> /\ Queries = {} /\ DOMAIN mailbox = {}
    BY <1>4, ReceiptAlone
  <1>6. /\ OneEach(keys) /\ Before(sent, keys) /\ Below(sent \cup keys, a.next) /\ Stored(keys)
    BY <1>1, <1>2, <1>4 DEF Ready, Turns, Receiving
  <1>7. InOrder /\ StillHeld
    BY DEF Ready, Turns
  <1>8. Queries' = {}
    BY <1>4, <1>5 DEF Queries
  <1>9. Given' = sent'
    BY <1>8 DEF Given
  <1>10. \A p \in sent \cup keys : p.id \in Int
    BY <1>3 DEF Pairs, Ids
  <1>11. InOrder'
    <2>1. OneEach(sent)'
      BY <1>4, <1>6, <1>7, <1>10 DEF InOrder, OneEach, Before
    <2>. QED  BY <1>8, <2>1 DEF InOrder
  <1>12. StillHeld'
    <2>1. keys \cap served = {}
      BY <1>6, <1>7, <1>10 DEF StillHeld, Before
    <2>2. Stored(served \cup taken)'
      BY <1>4, <1>6, <1>7 DEF StillHeld, Stored
    <2>. QED  BY <1>4, <1>7, <1>8, <2>1, <2>2 DEF StillHeld
  <1>13. Heading(a)'
    <2>1. NoMail("internal")'
      BY <1>4, <1>5 DEF NoMail
    <2>2. LastOf(emitted, a)'
      <3>1. emitted \in Seq(Creds)
        BY DEF Ready, Inv, TypeOK
      <3>. QED  BY <1>3, <1>4, <3>1, Longer DEF LastOf
    <2>. QED  BY <2>1, <2>2 DEF Heading
  <1>14. Counts(a)'
    BY <1>4, <1>5, <1>6, <1>9 DEF Counts, Below
  <1>15. \A s \in Tasks : ~Active(s)'
    BY <1>4, <1>5 DEF Active
  <1>. QED  BY <1>3, <1>4, <1>11, <1>12, <1>13, <1>14, <1>15 DEF Turns, Arriving, Receiving, Ready

LEMMA PeersTurn ==
  ASSUME Ready, Take \/ Use
  PROVE  Turns'
  <1>1. UNCHANGED <<creds, storeCreds, mailbox, emitted, tapped, task, receipt, bundle, sent, open, crashes, closes>>
    BY DEF Take, Use, routes, link
  <1>2. Queries' = Queries /\ Given' = Given
    BY <1>1 DEF Queries, Given
  <1>3. InOrder /\ StillHeld /\ Receiving
    BY DEF Ready, Turns
  <1>4. InOrder'
    BY <1>1, <1>2, <1>3 DEF InOrder
  <1>5. \A p \in Given : p.id \in Int
    <2>1. \A i \in Queries : mailbox[i].keys \subseteq Pairs
      BY DEF Ready, Inv, TypeOK, Queries, Messages
    <2>. QED  BY <2>1 DEF Given, Ready, Inv, TypeOK, Pairs, Ids
  <1>6. PICK p \in sent : /\ served' \cup taken' \subseteq served \cup taken /\ served' \cap taken' = {}
                          /\ \/ held' = held
                             \/ held' = [held EXCEPT ![p.id] = 0] /\ p \notin served' \cup taken'
    <2>1. CASE Take
      BY <1>3, <2>1 DEF Take, StillHeld
    <2>2. CASE Use
      BY <1>3, <2>2 DEF Use, StillHeld
    <2>. QED  BY <2>1, <2>2
  <1>7. \A q \in Pairs : q.id # p.id /\ held[q.id] = q.gen => held'[q.id] = q.gen
    BY <1>6 DEF Ready, Inv, TypeOK, Pairs
  <1>8. ASSUME NEW keys, keys \subseteq Pairs, Before(sent, keys), Stored(keys) PROVE Stored(keys)'
    <2>1. SUFFICES ASSUME NEW q \in keys PROVE held'[q.id] = q.gen
      BY DEF Stored
    <2>2. p.id < q.id /\ p.id \in Int /\ held[q.id] = q.gen
      BY <1>5, <1>8 DEF Before, Given, Stored
    <2>3. q.id # p.id /\ q \in Pairs
      BY <1>8, <2>2
    <2>. QED  BY <1>7, <2>2, <2>3
  <1>9. StillHeld'
    <2>1. ASSUME NEW q \in served' \cup taken' PROVE held'[q.id] = q.gen
      <3>1. q \in served \cup taken /\ q \in sent /\ q \in Pairs /\ held[q.id] = q.gen
        BY <1>3, <1>6, <2>1 DEF StillHeld, Stored, Ready, Inv, TypeOK
      <3>2. q # p => q.id # p.id
        BY <1>3, <3>1 DEF InOrder, OneEach
      <3>. QED  BY <1>6, <1>7, <2>1, <3>1, <3>2
    <2>2. ASSUME NEW i \in Queries PROVE \A q \in mailbox[i].keys : held'[q.id] = q.gen
      <3>1. PICK keys : keys = mailbox[i].keys
        OBVIOUS
      <3>2. Stored(keys)'
        <4>1. keys \subseteq Pairs
          BY <3>1 DEF Ready, Inv, TypeOK, Queries, Messages
        <4>. QED  BY <1>3, <1>8, <2>2, <3>1, <4>1 DEF InOrder, StillHeld
      <3>. QED  BY <3>1, <3>2 DEF Stored
    <2>. QED  BY <1>1, <1>2, <1>3, <1>6, <2>1, <2>2 DEF StillHeld, Stored
  <1>10. ASSUME NEW s \in Tasks, Active(s)' PROVE Working(s)'
    <2>1. Active(s)
      BY <1>1, <1>10 DEF Active
    <2>2. Working(s)
      BY <2>1, Alone
    <2>3. PICK keys : keys = task[s].keys
      OBVIOUS
    <2>4. task[s].pc = "query" => Stored(keys)'
      <3>1. keys \subseteq Pairs
        BY <2>3 DEF Ready, Inv, TypeOK, TaskRecords
      <3>. QED  BY <1>8, <2>2, <2>3, <3>1 DEF Working, Before, Given
    <2>5. \A v \in Tasks \ {s} : ~Active(v)'
      BY <1>1, <2>2 DEF Working, Active
    <2>. QED  BY <1>1, <1>2, <2>2, <2>3, <2>4, <2>5 DEF Working, Stored
  <1>11. Receiving'
    <2>1. PICK keys : keys = receipt.keys
      OBVIOUS
    <2>2. receipt.pc \in {"merge", "emit"} => Stored(keys)'
      <3>1. keys \subseteq Pairs
        BY <2>1 DEF Ready, Inv, TypeOK, Receipts
      <3>. QED  BY <1>3, <1>8, <2>1, <3>1 DEF Receiving
    <2>3. Settled' = Settled /\ \A s \in Tasks : Active(s)' = Active(s)
      BY <1>1 DEF Settled, Active
    <2>. QED  BY <1>1, <1>3, <2>1, <2>2, <2>3 DEF Receiving, Stored
  <1>12. Arriving'
    <2>1. ASSUME NEW u, Heading(u), Counts(u) PROVE Heading(u)' /\ Counts(u)'
      <3>1. Heading(u)'
        BY <1>1, <2>1 DEF Heading, Reaching, LastMail, NoMail, LastOf
      <3>2. Counts(u)'
        BY <1>1, <1>2, <2>1 DEF Counts
      <3>. QED  BY <3>1, <3>2
    <2>. QED  BY <1>1, <2>1 DEF Arriving, Ready, Turns
  <1>. QED  BY <1>1, <1>4, <1>9, <1>10, <1>11, <1>12 DEF Turns, Ready

LEMMA StutterTurns ==
  ASSUME Ready, Close \/ Open \/ UNCHANGED vars
  PROVE  Turns'
  <1>1. UNCHANGED <<creds, storeCreds, mailbox, emitted, tapped, held, task, receipt, served, bundle, taken,
                    sent, crashes>>
    BY DEF Close, Open, vars, routes, network
  <1>2. Queries' = Queries /\ Given' = Given
    BY <1>1 DEF Queries, Given
  <1>3. InOrder' /\ StillHeld'
    BY <1>1, <1>2, NothingGiven DEF Ready, Turns
  <1>4. (\A s \in Tasks : Active(s)' => Working(s)') /\ \A u : Counts(u) => Counts(u)'
    <2>1. \A i \in Queries' : mailbox'[i] = mailbox[i]
      BY <1>1
    <2>. QED  BY <1>1, <1>2, <2>1, WorkingStays
  <1>5. \A u : Heading(u) => Heading(u)'
    BY <1>1 DEF Heading, Reaching, LastMail, NoMail, LastOf
  <1>6. Arriving'
    BY <1>1, <1>4, <1>5 DEF Arriving, Ready, Turns
  <1>7. Receiving'
    BY <1>1 DEF Receiving, Settled, Active, Stored, Ready, Turns
  <1>. QED  BY <1>1, <1>3, <1>4, <1>6, <1>7 DEF Turns, Ready

(* ----- one key for each id ---------------------------------------------  *)

LEMMA InitTurns == Init => Turns
  <1>. SUFFICES ASSUME Init PROVE Turns
    OBVIOUS
  <1>1. /\ mailbox = <<>> /\ emitted = <<>> /\ tapped = <<>> /\ sent = {} /\ served = {} /\ taken = {}
        /\ open /\ receipt.pc = "idle" /\ creds = NewCreds /\ storeCreds = NewCreds
        /\ \A t \in Tasks : task[t].pc = "idle" /\ task[t].keys = {}
    BY DEF Init, Idle
  <1>2. DOMAIN mailbox = {}
    BY <1>1
  <1>3. Queries = {} /\ Given = {}
    BY <1>1, <1>2 DEF Queries, Given
  <1>4. InOrder /\ StillHeld /\ Receiving
    BY <1>1, <1>3 DEF InOrder, StillHeld, Receiving, OneEach, Stored
  <1>5. Heading(NewCreds)
    BY <1>1, <1>2 DEF Heading, Reaching, NoMail
  <1>6. Counts(NewCreds) /\ NewCreds \in Creds
    BY <1>1, <1>3 DEF Counts, Below, NewCreds, Creds
  <1>. QED  BY <1>1, <1>4, <1>5, <1>6 DEF Turns, Arriving, Active

(* What was disturbed stays so.                                             *)
LEMMA Disturbances ==
  ASSUME Inv, [Next]_vars, ~disturbed'
  PROVE  ~disturbed /\ ~Forget /\ ~Crash
  <1>1. ~Forget /\ ~Crash
    BY DEF Forget, Crash
  <1>2. ASSUME NEW t \in Tasks, Start(t) PROVE ~disturbed
    <2>1. Begin
      BY <1>2 DEF Start, StartPostAuth, StartLow
    <2>. QED  BY <2>1, Zenon DEF Begin
  <1>3. ASSUME NEW t \in Tasks, Work(t) \/ TimeOut(t) \/ QueryFails(t) PROVE ~disturbed
    <2>1. UNCHANGED link
      BY <1>3 DEF Work, Count, Enter, Check, Generate, Commit, Query, Digest, DigestFails, TimeOut,
                  QueryFails, OnlyTask
    <2>. QED  BY <2>1 DEF link
  <1>4. ASSUME Route PROVE ~disturbed
    <2>1. UNCHANGED link
      BY <1>1, <1>4 DEF Route, HandleQuery, HandleInternal, HandleSync, Tap, Echo
    <2>. QED  BY <2>1 DEF link
  <1>5. ASSUME Receipt PROVE ~disturbed
    <2>1. Begin \/ UNCHANGED link
      BY <1>5 DEF Receipt, ReceiptRead, ReceiptMake, ReceiptMerge, ReceiptEmit, OnlyReceipt
    <2>2. CASE Begin
      BY <2>2, Zenon DEF Begin
    <2>3. CASE UNCHANGED link
      BY <2>3 DEF link
    <2>. QED  BY <2>1, <2>2, <2>3
  <1>6. ASSUME Close \/ Open \/ Take \/ Use \/ UNCHANGED vars PROVE ~disturbed
    BY <1>6 DEF Close, Open, Take, Use, link, vars
  <1>7. \/ \E t \in Tasks : Start(t) \/ Work(t) \/ TimeOut(t) \/ QueryFails(t)
        \/ Route \/ Receipt \/ Close \/ Open \/ Crash \/ Take \/ Use \/ UNCHANGED vars
    BY DEF Next
  <1>8. ~disturbed
    BY <1>1, <1>2, <1>3, <1>4, <1>5, <1>6, <1>7, Zenon
  <1>. QED  BY <1>1, <1>8

LEMMA TurnsStep == Inv /\ Leveled /\ Turns /\ [Next]_vars => Turns'
  <1>. SUFFICES ASSUME Inv, Leveled, Turns, [Next]_vars, ~disturbed' PROVE Turns'
    BY DEF Turns
  <1>1. Ready /\ ~Forget /\ ~Crash
    BY Disturbances DEF Ready
  <1>2. ASSUME NEW t \in Tasks, Start(t) \/ Work(t) \/ TimeOut(t) \/ QueryFails(t)
        PROVE  Turns'
    <2>1. CASE Generate(t) \/ Commit(t) \/ (Query(t) /\ ~Orphan(t))
      BY <1>1, <2>1, GenerateTurns, CommitTurns, QueryTurns
    <2>2. CASE ~(Generate(t) \/ Commit(t) \/ (Query(t) /\ ~Orphan(t)))
      <3>1. UNCHANGED others /\ \E r : task' = [task EXCEPT ![t] = r] /\ Shape(t, r)
        BY <1>2, <2>2, QuietShape DEF Work
      <3>. QED  BY <1>1, <3>1, QuietTurns
    <2>. QED  BY <2>1, <2>2
  <1>3. CASE Route
    BY <1>1, <1>3, HandleQueryTurns, MergeTurns, TapTurns, EchoTurns DEF Route
  <1>4. CASE Receipt
    BY <1>1, <1>4, ReceiptTurns, ReceiptMakeTurns, ReceiptEmitTurns DEF Receipt
  <1>5. CASE Close \/ Open \/ Take \/ Use \/ UNCHANGED vars
    BY <1>1, <1>5, PeersTurn, StutterTurns
  <1>. QED  BY <1>1, <1>2, <1>3, <1>4, <1>5 DEF Next

(* The invariant of uploads and receipts until two of them overlap, an       *)
(* update is dropped or the socket starts again.                            *)
THEOREM TakingTurns == Spec => []Turns
  <1>1. Init => Turns
    BY InitTurns
  <1>2. Inv /\ Leveled /\ Turns /\ [Next]_vars => Turns'
    BY TurnsStep
  <1>. QED  BY <1>1, <1>2, InvHolds, CountersLevel, PTL DEF Spec

(* An id names one pre-key (OneKeyPerId): the ids of a receipt or an upload  *)
(* lie above all that have left the device, whatever becomes of retries,     *)
(* answers, connections and the second upload of a digest check, unless      *)
(* uploads or receipts overlap, an update is dropped or the socket restarts. *)
THEOREM IdsNameOneKey == Spec => []OneKeyPerId
  <1>1. Turns => OneKeyPerId
    BY DEF Turns, InOrder, OneEach, OneKeyPerId
  <1>. QED  BY <1>1, TakingTurns, PTL

(* ----- what costs a key its private half -------------------------------  *)

(* Every pair that was ever stored still is, or has been read with, or has   *)
(* given way to another pair of its id: in every state.                     *)
Accounted == \A p \in committed : held[p.id] = p.gen \/ Lost(p)

(* Pairs that are written are stored, or another of the same id is.         *)
LEMMA WrittenAccounts ==
  ASSUME Inv, Accounted, NEW pairs, pairs \subseteq Pairs, held' = Written(pairs),
         committed' = committed \cup pairs, used' = used
  PROVE  Accounted'
  <1>1. SUFFICES ASSUME NEW p \in committed' PROVE held'[p.id] = p.gen \/ Lost(p)'
    BY DEF Accounted
  <1>2. p.id \in Ids /\ committed \subseteq Pairs /\ p \in Pairs
    BY DEF Inv, TypeOK, Pairs
  <1>3. CASE p.id \in IdsOf(pairs)
    <2>1. PICK q : q = CHOOSE x \in pairs : x.id = p.id
      OBVIOUS
    <2>2. \E x \in pairs : x.id = p.id
      BY <1>3 DEF IdsOf
    <2>3. q \in pairs /\ q.id = p.id
      BY <2>1, <2>2
    <2>4. held'[p.id] = q.gen
      BY <1>2, <1>3, <2>1 DEF Written
    <2>. QED  BY <2>3, <2>4 DEF Lost
  <1>4. CASE p.id \notin IdsOf(pairs)
    <2>1. p \in committed /\ held'[p.id] = held[p.id]
      BY <1>2, <1>4 DEF IdsOf, Written
    <2>. QED  BY <2>1 DEF Accounted, Lost
  <1>. QED  BY <1>3, <1>4

LEMMA UseAccounts ==
  ASSUME Inv, Accounted, Use
  PROVE  Accounted'
  <1>1. PICK q \in taken : /\ held[q.id] = q.gen /\ held' = [held EXCEPT ![q.id] = 0]
                           /\ used' = used \cup {q} /\ committed' = committed
    BY DEF Use
  <1>2. SUFFICES ASSUME NEW p \in committed PROVE held'[p.id] = p.gen \/ Lost(p)'
    BY <1>1 DEF Accounted
  <1>3. p \in Pairs /\ q \in Pairs /\ held \in [Ids -> Nat]
    BY DEF Inv, TypeOK
  <1>4. CASE Lost(p)
    BY <1>1, <1>4 DEF Lost
  <1>5. CASE held[p.id] = p.gen /\ p.id = q.id
    <2>1. p = q
      BY <1>1, <1>3, <1>5 DEF Pairs
    <2>. QED  BY <1>1, <2>1 DEF Lost
  <1>6. CASE held[p.id] = p.gen /\ p.id # q.id
    BY <1>1, <1>3, <1>6 DEF Pairs
  <1>. QED  BY <1>4, <1>5, <1>6 DEF Accounted

(* The other steps write and use nothing.                                   *)
LEMMA OthersAccount ==
  ASSUME Inv, [Next]_vars, ~ReceiptMake, ~Use, \A t \in Tasks : ~Commit(t)
  PROVE  UNCHANGED <<held, committed, used>>
  <1>1. ASSUME NEW t \in Tasks, Start(t) \/ Work(t) \/ TimeOut(t) \/ QueryFails(t)
        PROVE  UNCHANGED <<held, committed, used>>
    BY <1>1 DEF Start, StartPostAuth, StartLow, OnlyStart, Work, Count, Enter, Check, Generate, Query,
                Digest, DigestFails, TimeOut, QueryFails, OnlyTask, link
  <1>2. CASE Route
    BY <1>2 DEF Route, HandleQuery, HandleInternal, HandleSync, Forget, Tap, Echo, link
  <1>3. CASE Receipt
    BY <1>3 DEF Receipt, ReceiptRead, ReceiptMerge, ReceiptEmit, OnlyReceipt, link
  <1>4. CASE Close \/ Open \/ Crash \/ Take \/ UNCHANGED vars
    BY <1>4 DEF Close, Open, Crash, Take, link, vars
  <1>. QED  BY <1>1, <1>2, <1>3, <1>4 DEF Next

LEMMA AccountedHolds == Spec => []Accounted
  <1>1. Init => Accounted
    BY DEF Init, Accounted
  <1>2. Inv /\ Accounted /\ [Next]_vars => Accounted'
    <2>. SUFFICES ASSUME Inv, Accounted, [Next]_vars PROVE Accounted'
      OBVIOUS
    <2>1. CASE \E t \in Tasks : Commit(t)
      <3>1. PICK t \in Tasks : Commit(t)
        BY <2>1
      <3>2. task[t].fresh \subseteq Pairs
        BY DEF Inv, TypeOK, TaskRecords
      <3>3. /\ held' = Written(task[t].fresh) /\ committed' = committed \cup task[t].fresh
            /\ used' = used
        BY <3>1 DEF Commit, link
      <3>. QED  BY <3>2, <3>3, WrittenAccounts
    <2>2. CASE ReceiptMake
      <3>1. PICK ids : ids = NewIds(receipt.auth, 1)
        OBVIOUS
      <3>2. /\ Update(receipt.auth, 1).next <= MaxId + 1 /\ held' = Written(Fresh(ids))
            /\ committed' = committed \cup Fresh(ids) /\ used' = used
        BY <2>2, <3>1 DEF ReceiptMake, OnlyReceipt, link
      <3>3. ids \subseteq Ids
        BY <3>1, <3>2, UpdateIsCreds DEF Inv, TypeOK, Receipts
      <3>4. Fresh(ids) \subseteq Pairs
        BY <3>3, FreshPairs DEF Inv, TypeOK
      <3>. QED  BY <3>2, <3>4, WrittenAccounts
    <2>3. CASE Use
      BY <2>3, UseAccounts
    <2>4. CASE ~ReceiptMake /\ ~Use /\ \A t \in Tasks : ~Commit(t)
      BY <2>4, OthersAccount DEF Accounted, Lost
    <2>. QED  BY <2>1, <2>2, <2>3, <2>4
  <1>. QED  BY <1>1, <1>2, InvHolds, PTL DEF Spec

(* What the server hands out and what peers have got has been sent.         *)
GivenOut == served \cup taken \subseteq sent

LEMMA GivenOutHolds == Spec => []GivenOut
  <1>1. Init => GivenOut
    BY DEF Init, GivenOut
  <1>2. GivenOut /\ [Next]_vars => GivenOut'
    <2>. SUFFICES ASSUME GivenOut, [Next]_vars PROVE GivenOut'
      OBVIOUS
    <2>1. ASSUME NEW t \in Tasks, Start(t) \/ Work(t) \/ TimeOut(t) \/ QueryFails(t)
          PROVE  UNCHANGED network
      BY <2>1 DEF Start, StartPostAuth, StartLow, OnlyStart, Work, Count, Enter, Check, Generate, Commit,
                  Query, Digest, DigestFails, TimeOut, QueryFails, OnlyTask
    <2>2. CASE HandleQuery
      BY <2>2 DEF HandleQuery, ServerTakes, GivenOut, network
    <2>3. CASE Route /\ ~HandleQuery
      BY <2>3 DEF Route, HandleInternal, HandleSync, Forget, Tap, Echo, GivenOut, network
    <2>4. CASE Receipt
      BY <2>4 DEF Receipt, ReceiptRead, ReceiptMake, ReceiptMerge, ReceiptEmit, OnlyReceipt, GivenOut,
                  network
    <2>5. CASE Close \/ Open \/ Crash \/ Take \/ Use \/ UNCHANGED vars
      BY <2>5 DEF Close, Open, Crash, Take, Use, GivenOut, network, vars
    <2>6. UNCHANGED network => GivenOut'
      BY DEF GivenOut, network
    <2>. QED  BY <2>1, <2>2, <2>3, <2>4, <2>5, <2>6 DEF Next
  <1>. QED  BY <1>1, <1>2, PTL DEF Spec

(* A key the server may hand out, or a peer has got, is stored until it is   *)
(* used (ServedAreHeld); and where uploads or receipts overlap, an update is *)
(* dropped or the socket restarts, it is lost only to an earlier use or to   *)
(* another key of its id.                                                   *)
THEOREM ServedStayHeld == Spec => []ServedAreHeld
  <1>1. Inv /\ Turns /\ Accounted /\ GivenOut => ServedAreHeld
    <2>. SUFFICES ASSUME Inv, Turns, Accounted, GivenOut, NEW p \in served \cup taken
                  PROVE  held[p.id] = p.gen \/ (disturbed /\ Lost(p))
      BY DEF ServedAreHeld
    <2>1. p \in committed
      BY DEF Inv, KeysHeld, GivenOut
    <2>2. ~disturbed => held[p.id] = p.gen
      BY DEF Turns, StillHeld, Stored
    <2>. QED  BY <2>1, <2>2 DEF Accounted
  <1>. QED  BY <1>1, InvHolds, TakingTurns, AccountedHolds, GivenOutHolds, PTL

(* Once updates have arrived, both copies of the credentials count every id  *)
(* that left the device (UploadedAreTracked), but for the same three cases.  *)
THEOREM UploadedStayTracked == Spec => []UploadedAreTracked
  <1>1. Inv /\ Leveled /\ Turns => UploadedAreTracked
    <2>. SUFFICES ASSUME Inv, Leveled, Turns, ~disturbed, Settled, receipt.pc = "idle"
                  PROVE  \A p \in sent : p.id < creds.next /\ p.id < storeCreds.next
      BY DEF UploadedAreTracked
    <2>1. Ready
      BY DEF Ready
    <2>. QED  BY <2>1, BelowCounters DEF Below
  <1>. QED  BY <1>1, InvHolds, CountersLevel, TakingTurns, PTL

=============================================================================
