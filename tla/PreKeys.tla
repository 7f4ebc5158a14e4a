------------------------------ MODULE PreKeys ------------------------------
(***************************************************************************)
(* One-time pre-keys: who hands out their ids, and where their private       *)
(* halves are.  signal/prekey.ex with its callers in connection/socket.ex    *)
(* and connection/coordinator.ex.                                            *)
(*                                                                          *)
(* The next id to hand out is in the credentials, which exist twice: in the  *)
(* socket's auth_state and in the connection store.  An upload task works on *)
(* a snapshot of the first, a retry receipt on the second; each update goes  *)
(* from the socket through the emitter's tap to the store, and from there    *)
(* through the coordinator back to the socket, which listens only while      *)
(* there is a connection.                                                   *)
(*                                                                          *)
(* A pair is its id and the how-manieth pair made for that id.               *)
(***************************************************************************)
EXTENDS Integers, FiniteSets, Sequences

CONSTANTS
  Tasks,         \* upload tasks that the socket may start
  NoTask,        \* no task
  MaxId,         \* bound: ids are 1..MaxId
  MinCount,      \* min_prekey_count
  InitialCount,  \* initial_prekey_count
  MaxRetries,    \* @max_upload_retries
  MaxReceipts,   \* bound: retry receipts that carry keys
  MaxBreaks      \* bound: connections that close and crashes of the socket process

ASSUME TaskAssumption == NoTask \notin Tasks
ASSUME CountAssumption == /\ MaxId \in Nat \ {0}
                          /\ MinCount \in Nat \ {0}
                          /\ InitialCount \in Nat \ {0}
                          /\ {MaxRetries, MaxReceipts, MaxBreaks} \subseteq Nat

VARIABLES
  creds,       \* the socket's next and first unuploaded id
  storeCreds,  \* the connection store's
  open,        \* is the socket authenticating or connected?
  mailbox,     \* the socket's mailbox: updates of tasks, echoes, upload queries
  emitted,     \* creds_update events on their way to the coordinator's tap
  tapped,      \* those in the coordinator's mailbox
  held,        \* the generation of the private key stored under each id; 0: none
  lock,        \* the upload that is in a transaction on the key me.id
  task,        \* the upload tasks
  receipt,     \* the coordinator's send task that makes keys for a retry receipt
  served,      \* pairs whose public halves the server hands out
  bundle,      \* whether the server has ever taken an upload
  taken,       \* pairs that a peer got and has not yet been read with
  minted,      \* how many pairs have been made for each id
  committed,   \* history: pairs that have been in the store
  sent,        \* history: pairs that the server or a peer has been given
  used,        \* history: pairs that a message was read with
  disturbed,   \* history: an upload or receipt began during another or before the
               \* last one's updates had arrived, an update was dropped for want of
               \* a connection, or the socket's process started again
  crashes,
  closes
vars == <<creds, storeCreds, mailbox, emitted, tapped, held, lock, task, receipt,
          served, bundle, taken, minted, committed, sent, used, disturbed, open, crashes, closes>>
network == <<served, bundle, taken, sent>>
routes == <<storeCreds, emitted, tapped>>
link == <<open, crashes, closes, used, disturbed>>

Ids == 1..MaxId
Creds == [next : Nat \ {0}, first : Nat \ {0}]
Pairs == [id : Ids, gen : Nat \ {0}]
NewCreds == [next |-> 1, first |-> 1]
IdsOf(pairs) == {p.id : p \in pairs}
Larger(a, b) == IF a >= b THEN a ELSE b

Inside == {"recount", "check", "generate", "commit", "query", "waiting"}
TaskStates == Inside \cup {"idle", "count", "enter", "digest", "done"}
Idle == [pc |-> "idle", start |-> NewCreds, auth |-> NewCreds, count |-> 0,
         level |-> "enough", tries |-> 0, fresh |-> {}, keys |-> {}, stage |-> "notified",
         socket |-> 0]
Done == [Idle EXCEPT !.pc = "done"]

Init ==
  /\ creds = NewCreds /\ storeCreds = NewCreds
  /\ mailbox = <<>> /\ emitted = <<>> /\ tapped = <<>>
  /\ held = [i \in Ids |-> 0] /\ minted = [i \in Ids |-> 0]
  /\ lock = NoTask
  /\ task = [t \in Tasks |-> Idle]
  /\ receipt = [pc |-> "idle", auth |-> NewCreds, keys |-> {}, left |-> MaxReceipts]
  /\ served = {} /\ bundle = "missing" /\ taken = {}
  /\ committed = {} /\ sent = {} /\ used = {} /\ disturbed = FALSE
  /\ open = TRUE /\ crashes = 0 /\ closes = 0

(* ----- making keys -----------------------------------------------------  *)

(* generate_next_pre_keys: the ids that are missing, the ids the node names, *)
(* what the credentials become, and the pairs that are made.                *)
Missing(auth, count) == Larger(count - (auth.next - auth.first), 0)
NewIds(auth, count) == auth.next .. (auth.next + Missing(auth, count) - 1)
NodeIds(auth, count) == auth.first .. (auth.first + count - 1)
\* Mutant of Update: the last id is handed out again.
UpdateOffByOne(auth, count) ==
  LET end == auth.next + Missing(auth, count) - 1
  IN  [next |-> Larger(end, auth.next), first |-> Larger(auth.first, end)]
Update(auth, count) ==
  LET end == auth.next + Missing(auth, count)
  IN  [next |-> Larger(end, auth.next), first |-> Larger(auth.first, end)]
Fresh(ids) == {[id |-> i, gen |-> minted[i] + 1] : i \in ids}
Mint(ids) == minted' = [i \in Ids |-> IF i \in ids THEN minted[i] + 1 ELSE minted[i]]

(* The rows after a write, and the pairs that a read of some ids returns.   *)
Written(pairs) ==
  [i \in Ids |-> IF i \in IdsOf(pairs) THEN (CHOOSE p \in pairs : p.id = i).gen ELSE held[i]]
Read(rows, ids) == {[id |-> i, gen |-> rows[i]] : i \in {j \in ids : rows[j] # 0}}

(* ----- starting --------------------------------------------------------  *)

Settled == mailbox = <<>> /\ emitted = <<>> /\ tapped = <<>>
Busy == \/ \E t \in Tasks : task[t].pc \notin {"idle", "done"}
        \/ receipt.pc # "idle"
\* Nothing makes the next one wait for the last one, or for its updates.
Begin == disturbed' = (disturbed \/ ~Settled \/ Busy)
OnlyTask == UNCHANGED <<creds, mailbox, held, receipt, minted, committed, link, routes, network>>

OnlyStart == UNCHANGED <<creds, mailbox, held, lock, receipt, minted, committed, open, crashes,
                         closes, used, routes, network>>

(* What a count of the server's keys asks for, and whether it is low.       *)
Requested(level) == IF level = 0 THEN InitialCount ELSE MinCount
Counted(r, level) == [r EXCEPT !.count = Requested(level),
                                !.level = IF level <= Requested(level) THEN "low" ELSE "enough"]

(* A success node: the post-authentication task keeps this snapshot of the   *)
(* credentials, for its upload and for its digest check.                    *)
StartPostAuth(t) ==
  /\ task[t].pc = "idle" /\ open /\ Begin
  /\ task' = [task EXCEPT ![t] = [Idle EXCEPT !.pc = "count", !.start = creds, !.stage = "first",
                                                !.socket = crashes]]
  /\ OnlyStart

(* A notification that the server runs low, with the count it gives.        *)
StartLow(t) ==
  /\ task[t].pc = "idle" /\ open /\ Begin
  /\ \E level \in 0..(MinCount + 1) :
       task' = [task EXCEPT ![t] = Counted([Idle EXCEPT !.pc = "enter", !.start = creds,
                                                          !.socket = crashes], level)]
  /\ OnlyStart

(* ----- one upload ------------------------------------------------------  *)

(* A task outlives its socket, and dies of its next query; while there is no *)
(* connection a query is an error.                                          *)
Orphan(t) == task[t].socket # crashes
Unheard(t) == Orphan(t) \/ ~open

(* What follows an upload, whatever it came to: after the first one of a     *)
(* post-authentication task the digest check.                               *)
AfterUpload(t) ==
  LET r == task[t]
  IN  IF r.stage = "first" /\ ~Orphan(t)
      THEN [Idle EXCEPT !.pc = "digest", !.start = r.start, !.stage = "second",
                        !.socket = r.socket]
      ELSE Done

(* A task asks nothing more before the socket has seen what it sent.        *)
HasBeenHeard(t) ==
  t \notin {mailbox[i].from : i \in {j \in DOMAIN mailbox : mailbox[j].kind = "query"}}

(* The count query, before the upload or, in the digest check, inside it.   *)
Count(t) ==
  /\ task[t].pc \in {"count", "recount"} /\ HasBeenHeard(t)
  /\ task' = [task EXCEPT ![t] =
       IF Unheard(t) THEN AfterUpload(t)
       ELSE Counted([@ EXCEPT !.pc = IF task[t].pc = "count" THEN "enter" ELSE "check"],
                    Cardinality(served))]
  /\ OnlyTask /\ UNCHANGED lock

(* :global.trans({PreKey, upload_key}, fun): the lock is PreKey, upload_key   *)
(* the name of the requester, and a requester may hold the lock many times.  *)
Requester(t) == <<"prekey_upload", task[t].socket>>
Enter(t) ==
  /\ task[t].pc = "enter"
  /\ \A s \in Tasks : task[s].pc \in Inside => Requester(s) = Requester(t)
  /\ task' = [task EXCEPT ![t].pc = IF task[t].stage = "second" THEN "recount" ELSE "check"]
  /\ OnlyTask /\ UNCHANGED lock

CurrentIsMissing(auth) == auth.next > 1 /\ held[auth.next - 1] = 0
Check(t) ==
  /\ task[t].pc = "check"
  /\ task' = [task EXCEPT ![t] = IF @.level = "low" \/ CurrentIsMissing(@.start)
       THEN [@ EXCEPT !.pc = "generate", !.auth = task[t].start]
       ELSE AfterUpload(t)]
  /\ OnlyTask /\ UNCHANGED lock

\* Mutant of Generate: the query inside the transaction.
GenerateAsking(t) ==
  LET r == task[t]
      fresh == Fresh(NewIds(r.auth, r.count))
      keys == Read(Written(fresh), NodeIds(r.auth, r.count))
  IN  /\ r.pc = "generate" /\ lock = NoTask
      /\ Update(r.auth, r.count).next <= MaxId + 1
      /\ lock' = t
      /\ Mint(NewIds(r.auth, r.count))
      /\ mailbox' = Append(mailbox, [kind |-> "query", from |-> t, keys |-> keys])
      /\ task' = [task EXCEPT ![t].pc = "commit", ![t].fresh = fresh, ![t].keys = keys]
      /\ UNCHANGED <<creds, held, receipt, committed, link, routes, network>>
(* In a transaction on me.id: make the pairs in the private table, read what *)
(* the node will name, and send the update to the socket.                   *)
Generate(t) ==
  LET r == task[t]
      fresh == Fresh(NewIds(r.auth, r.count))
  IN  /\ r.pc = "generate" /\ lock = NoTask
      /\ Update(r.auth, r.count).next <= MaxId + 1
      /\ lock' = t
      /\ Mint(NewIds(r.auth, r.count))
      /\ mailbox' = IF Orphan(t) THEN mailbox
                    ELSE Append(mailbox, [kind |-> "internal", update |-> Update(r.auth, r.count)])
      /\ task' = [task EXCEPT ![t].pc = "commit", ![t].fresh = fresh,
                              ![t].keys = Read(Written(fresh), NodeIds(r.auth, r.count)),
                              ![t].auth = Update(r.auth, r.count)]
      /\ UNCHANGED <<creds, held, receipt, committed, link, routes, network>>

\* Mutant of Commit: the rows of the transaction are dropped.
CommitNothing(t) ==
  /\ task[t].pc = "commit"
  /\ committed' = committed \cup task[t].fresh
  /\ lock' = NoTask
  /\ task' = [task EXCEPT ![t].pc = "query", ![t].fresh = {}]
  /\ UNCHANGED <<creds, mailbox, held, receipt, minted, link, routes, network>>
Commit(t) ==
  /\ task[t].pc = "commit"
  /\ held' = Written(task[t].fresh)
  /\ committed' = committed \cup task[t].fresh
  /\ lock' = NoTask
  /\ task' = [task EXCEPT ![t].pc = "query", ![t].fresh = {}]
  /\ UNCHANGED <<creds, mailbox, receipt, minted, link, routes, network>>

Query(t) ==
  /\ task[t].pc = "query"
  /\ task' = [task EXCEPT ![t] = IF Orphan(t) THEN AfterUpload(t) ELSE [@ EXCEPT !.pc = "waiting"]]
  /\ mailbox' = IF Orphan(t) THEN mailbox
                ELSE Append(mailbox, [kind |-> "query", from |-> t, keys |-> task[t].keys])
  /\ UNCHANGED <<creds, held, lock, receipt, minted, committed, link, routes, network>>

(* What the task does with the answer: an error is tried again with the next *)
(* ids, a few times.                                                        *)
NextTry(r) == [r EXCEPT !.pc = "generate", !.tries = r.tries + 1, !.keys = {}]
Accepted(t) ==
  task' = [task EXCEPT ![t] = IF @.pc = "waiting" THEN AfterUpload(t) ELSE @]
Refused(t) ==
  task' = [task EXCEPT ![t] = IF @.pc # "waiting" THEN @
                              ELSE IF @.tries >= MaxRetries THEN AfterUpload(t)
                              ELSE NextTry(@)]

(* The upload takes too long, or the count before it: the upload's process   *)
(* is killed, and the store gives the lock of a dead owner back.            *)
TimeOut(t) ==
  /\ task[t].pc \in Inside \cup {"count"}
  /\ task' = [task EXCEPT ![t] = AfterUpload(t)]
  /\ lock' = IF lock = t THEN NoTask ELSE lock
  /\ OnlyTask

(* The passive IQ, then the digest.  When the server has no bundle the task  *)
(* uploads once more, with the options, and so the snapshot, of before.     *)
Digest(t) ==
  /\ task[t].pc = "digest" /\ HasBeenHeard(t)
  /\ task' = [task EXCEPT ![t] =
       IF bundle = "present" \/ Unheard(t) THEN Done
       ELSE [@ EXCEPT !.pc = "enter"]]
  /\ OnlyTask /\ UNCHANGED lock
DigestFails(t) ==
  /\ task[t].pc = "digest"
  /\ task' = [task EXCEPT ![t] = Done]
  /\ OnlyTask /\ UNCHANGED lock

(* ----- the socket and the ways of an update ----------------------------  *)

(* The server keeps one public key for each id, the latest.                 *)
ServerTakes(keys) ==
  /\ served' = {p \in served : p.id \notin IdsOf(keys)} \cup keys
  /\ bundle' = "present"
  /\ sent' = sent \cup keys
  /\ UNCHANGED taken

(* A query: taken and answered, refused, or one of both with the answer lost; *)
(* without a connection, refused.                                           *)
HandleQuery ==
  /\ mailbox # <<>> /\ Head(mailbox).kind = "query"
  /\ mailbox' = Tail(mailbox)
  /\ LET m == Head(mailbox)
     IN  \/ open /\ ServerTakes(m.keys) /\ (Accepted(m.from) \/ UNCHANGED task)
         \/ UNCHANGED network /\ (Refused(m.from) \/ (open /\ UNCHANGED task))
  /\ UNCHANGED <<creds, held, lock, receipt, minted, committed, link, routes>>

(* The connection closes, or the query's timer fires: an error for who waits. *)
QueryFails(t) ==
  /\ task[t].pc = "waiting" /\ HasBeenHeard(t)
  /\ Refused(t)
  /\ OnlyTask /\ UNCHANGED lock

(* {:internal_creds_update, update}: merge and tell everybody.              *)
HandleInternal ==
  /\ open /\ mailbox # <<>> /\ Head(mailbox).kind = "internal"
  /\ mailbox' = Tail(mailbox)
  /\ creds' = Head(mailbox).update
  /\ emitted' = Append(emitted, Head(mailbox).update)
  /\ UNCHANGED <<held, lock, task, receipt, minted, committed, link, storeCreds, tapped, network>>

(* {:sync_creds_update, update}: merge.                                     *)
HandleSync ==
  /\ open /\ mailbox # <<>> /\ Head(mailbox).kind = "sync"
  /\ mailbox' = Tail(mailbox)
  /\ creds' = Head(mailbox).update
  /\ UNCHANGED <<held, lock, task, receipt, minted, committed, link, routes, network>>

(* Without a connection the socket forgets updates.                         *)
Forget ==
  /\ ~open /\ mailbox # <<>> /\ Head(mailbox).kind # "query"
  /\ mailbox' = Tail(mailbox)
  /\ disturbed' = TRUE
  /\ UNCHANGED <<creds, held, lock, task, receipt, minted, committed, open, crashes, closes, used,
                 routes, network>>

(* The connection closes; the coordinator makes the next.                   *)
Close ==
  /\ open /\ crashes + closes < MaxBreaks
  /\ open' = FALSE /\ closes' = closes + 1
  /\ UNCHANGED <<creds, mailbox, held, lock, task, receipt, minted, committed, crashes, used,
                 disturbed, routes, network>>
Open ==
  /\ ~open /\ open' = TRUE
  /\ UNCHANGED <<creds, mailbox, held, lock, task, receipt, minted, committed, crashes, closes,
                 used, disturbed, routes, network>>

(* The coordinator's tap, in a task of the emitter: the store, then a        *)
(* message to the coordinator.                                              *)
Tap ==
  /\ emitted # <<>>
  /\ emitted' = Tail(emitted)
  /\ storeCreds' = Head(emitted)
  /\ tapped' = Append(tapped, Head(emitted))
  /\ UNCHANGED <<creds, mailbox, held, lock, task, receipt, minted, committed, link, network>>

(* The coordinator passes every update to the socket, whoever made it.      *)
Echo ==
  /\ tapped # <<>>
  /\ tapped' = Tail(tapped)
  /\ mailbox' = Append(mailbox, [kind |-> "sync", update |-> Head(tapped)])
  /\ UNCHANGED <<creds, storeCreds, emitted, held, lock, task, receipt, minted, committed,
                 link, network>>

(* The socket process dies: it and the coordinator start again, the socket   *)
(* with the auth_state that the supervisor was started with.                *)
Crash ==
  /\ crashes + closes < MaxBreaks
  /\ crashes' = crashes + 1 /\ open' = FALSE /\ disturbed' = TRUE
  /\ creds' = NewCreds
  /\ mailbox' = <<>> /\ tapped' = <<>>
  /\ receipt' = [receipt EXCEPT !.pc = "idle", !.keys = {}]
  /\ UNCHANGED <<storeCreds, emitted, held, lock, task, minted, committed, closes, used,
                 network>>

(* ----- keys for a retry receipt ----------------------------------------  *)

OnlyReceipt == UNCHANGED <<creds, mailbox, lock, task, link, tapped, served, bundle>>

ReceiptRead ==
  /\ receipt.pc = "idle" /\ receipt.left > 0 /\ Begin
  /\ receipt' = [receipt EXCEPT !.pc = "make", !.auth = storeCreds, !.left = @ - 1]
  /\ UNCHANGED <<creds, mailbox, lock, task, open, crashes, closes, used, routes, network, held,
                 minted, committed>>

(* next_pre_keys_node with a count of 1, not in a transaction.              *)
ReceiptMake ==
  LET ids == NewIds(receipt.auth, 1)
  IN  /\ receipt.pc = "make" /\ Update(receipt.auth, 1).next <= MaxId + 1
      /\ Mint(ids)
      /\ held' = Written(Fresh(ids))
      /\ committed' = committed \cup Fresh(ids)
      /\ receipt' = [receipt EXCEPT !.pc = "merge", !.auth = Update(receipt.auth, 1),
                                    !.keys = Read(held', NodeIds(receipt.auth, 1))]
      /\ OnlyReceipt /\ UNCHANGED <<storeCreds, emitted, sent, taken>>

ReceiptMerge ==
  /\ receipt.pc = "merge"
  /\ storeCreds' = receipt.auth
  /\ receipt' = [receipt EXCEPT !.pc = "emit"]
  /\ OnlyReceipt /\ UNCHANGED <<held, minted, committed, emitted, sent, taken>>

\* Mutant of ReceiptEmit: only the store learns of the update.
ReceiptEmitSilent ==
  /\ receipt.pc = "emit"
  /\ \/ open /\ sent' = sent \cup receipt.keys /\ taken' = taken \cup receipt.keys
     \/ UNCHANGED <<sent, taken>>
  /\ receipt' = [receipt EXCEPT !.pc = "idle", !.auth = NewCreds, !.keys = {}]
  /\ OnlyReceipt /\ UNCHANGED <<held, minted, committed, storeCreds, emitted>>
(* The update goes to the tap, the receipt to the peer, if the socket sends. *)
ReceiptEmit ==
  /\ receipt.pc = "emit"
  /\ emitted' = Append(emitted, receipt.auth)
  /\ \/ open /\ sent' = sent \cup receipt.keys /\ taken' = taken \cup receipt.keys
     \/ UNCHANGED <<sent, taken>>
  /\ receipt' = [receipt EXCEPT !.pc = "idle", !.auth = NewCreds, !.keys = {}]
  /\ OnlyReceipt /\ UNCHANGED <<held, minted, committed, storeCreds>>

(* ----- peers -----------------------------------------------------------  *)

(* A peer asks the server for a bundle: the server gives each key once.     *)
Take ==
  /\ \E p \in served : served' = served \ {p} /\ taken' = taken \cup {p}
  /\ UNCHANGED <<creds, mailbox, held, lock, task, receipt, minted, committed, link, routes,
                 bundle, sent>>

(* Its message is read with the pre-key, which is then removed.             *)
Use ==
  /\ \E p \in taken : /\ held[p.id] = p.gen
                      /\ held' = [held EXCEPT ![p.id] = 0]
                      /\ taken' = taken \ {p} /\ used' = used \cup {p}
  /\ UNCHANGED <<creds, mailbox, lock, task, receipt, minted, committed, open, crashes, closes,
                 disturbed, routes, served, bundle, sent>>

Start(t) == StartPostAuth(t) \/ StartLow(t)
Work(t) == Count(t) \/ Enter(t) \/ Check(t) \/ Generate(t) \/ Commit(t) \/ Query(t) \/ Digest(t) \/ DigestFails(t)
Route == HandleQuery \/ HandleInternal \/ HandleSync \/ Forget \/ Tap \/ Echo
Receipt == ReceiptRead \/ ReceiptMake \/ ReceiptMerge \/ ReceiptEmit
Next ==
  \/ \E t \in Tasks : Start(t) \/ Work(t) \/ TimeOut(t) \/ QueryFails(t)
  \/ Route \/ Receipt \/ Close \/ Open \/ Crash \/ Take \/ Use
Spec == Init /\ [][Next]_vars

(* ----- properties ------------------------------------------------------  *)

TaskRecords ==
  [pc : TaskStates, start : Creds, auth : Creds, count : Nat,
   level : {"low", "enough"}, tries : Nat, fresh : SUBSET Pairs, keys : SUBSET Pairs,
   stage : {"notified", "first", "second"}, socket : Nat]
Messages == [kind : {"internal", "sync"}, update : Creds]
              \cup [kind : {"query"}, from : Tasks, keys : SUBSET Pairs]
Receipts == [pc : {"idle", "make", "merge", "emit"}, auth : Creds, keys : SUBSET Pairs, left : Nat]

(* Types; and who is in the transaction on me.id is an upload that is making *)
(* keys: a killed upload leaves no lock behind.                             *)
TypeOK ==
  /\ creds \in Creds /\ storeCreds \in Creds
  /\ mailbox \in Seq(Messages) /\ emitted \in Seq(Creds) /\ tapped \in Seq(Creds)
  /\ held \in [Ids -> Nat] /\ minted \in [Ids -> Nat]
  /\ task \in [Tasks -> TaskRecords] /\ receipt \in Receipts
  /\ served \subseteq Pairs /\ taken \subseteq Pairs
  /\ committed \subseteq Pairs /\ sent \subseteq Pairs
  /\ used \subseteq Pairs /\ disturbed \in BOOLEAN
  /\ bundle \in {"missing", "present"} /\ open \in BOOLEAN
  /\ crashes \in Nat /\ closes \in Nat
  /\ lock \in Tasks \cup {NoTask}
  /\ lock # NoTask => task[lock].pc = "commit"

(* An id names one pre-key: no two pairs of one id ever leave the device,    *)
(* by upload or in a receipt, through retries, lost answers, uploads that    *)
(* are killed at any point, the second upload of a digest check and          *)
(* connections that close: unless two of them overlapped, an update of the   *)
(* credentials was dropped, or the socket began again with old ones.         *)
OneKeyPerId == ~disturbed => \A p, q \in sent : p.id = q.id => p = q

(* A key that the server may hand out, or that a peer got and has not used,  *)
(* has its private half in the store.  Where the code makes an id twice - in *)
(* the same three cases - only that or an earlier use can cost it: never a   *)
(* killed upload, a refusal, a close or a crash.                            *)
Lost(p) == \/ p \in used
           \/ \E q \in committed : q.id = p.id /\ q # p
ServedAreHeld ==
  \A p \in served \cup taken : held[p.id] = p.gen \/ (disturbed /\ Lost(p))

(* Once the updates have arrived, both copies of the credentials count every *)
(* id that the server or a peer was given, but for the same three cases:     *)
(* "Track uploaded key IDs in auth state"                                   *)
(* (dev/implementation_plan/07-authentication.md:192).                       *)
UploadedAreTracked ==
  ~disturbed /\ Settled /\ receipt.pc = "idle" =>
    \A p \in sent : p.id < creds.next /\ p.id < storeCreds.next

(* The server and peers are given only pairs whose private half was in the   *)
(* store before, whatever overlaps and crashes.                             *)
OnlyHeldAreSent == sent \subseteq committed
=============================================================================
