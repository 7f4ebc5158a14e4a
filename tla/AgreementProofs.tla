--------------------------- MODULE AgreementProofs ---------------------------
(***************************************************************************)
(* Two places where sides that compute apart have to agree.  The bridge of  *)
(* the parity suite gives every test the reference's answer to its own      *)
(* request, and leaves no payload behind, for any tests, any number of      *)
(* calls, any cases and any runner.  The devices of an account agree on     *)
(* what a collection holds and on its hash: for any number of lanes, any    *)
(* modulus and any digests, what a patch adds the next can take away again; *)
(* and for any collections, indexes and keys, any history and any page      *)
(* size, whatever is broken, missing or failing, what this device stores is *)
(* what the server's patches amount to.                                     *)
(***************************************************************************)
EXTENDS NodeBridge, AppState, FiniteSetTheorems, TLAPS

-----------------------------------------------------------------------------
(* The bridge. *)

(* Calls under way have files of their own, with numbers already given out. *)
PathsOwn ==
    /\ phase \in [Tests -> {"ready", "write", "wait"}]
    /\ unique \in 0..MaxCalls
    /\ path \in [Tests -> 0..MaxCalls]
    /\ \A t \in Tests : path[t] <= unique
    /\ \A t \in Tests : phase[t] # "ready" => path[t] # 0
    /\ \A t, u \in Tests : path[t] = path[u] => t = u \/ path[t] = 0

(* The file of a call that waits holds its request, and there is no other.  *)
FilesOwn ==
    /\ \A t \in Tests : phase[t] = "wait" =>
          path[t] \in DOMAIN files /\ files[path[t]] = Payload(t)
    /\ \A p \in DOMAIN files : \E t \in Tests : phase[t] = "wait" /\ path[t] = p

(* A runner has read the request of its call, and answered that.            *)
RunnersOwn ==
    /\ DOMAIN request = Tests /\ DOMAIN exit = Tests /\ DOMAIN case = Tests
    /\ \A t \in Tests : phase[t] # "wait" => request[t] = Nil /\ exit[t] = Running
    /\ \A t \in Tests : request[t] \in {Nil, Payload(t)}
    /\ \A t \in Tests : exit[t].ok => exit[t] = RunnerResponse(Payload(t))

(* What a call has returned is the answer to its request.                   *)
ResultsOwn ==
    /\ DOMAIN result = Tests
    /\ \A t \in Tests : Returned(t) /\ result[t][1] = "ok" =>
          /\ RunnerResponse(Payload(t)).ok
          /\ result[t][2] = RunnerResponse(Payload(t)).result

BridgeInv == PathsOwn /\ FilesOwn /\ RunnersOwn /\ ResultsOwn

-----------------------------------------------------------------------------
LEMMA InitBridge == ASSUME BridgeInit PROVE BridgeInv
  BY BridgeAssumption DEF BridgeInit, BridgeInv, PathsOwn, FilesOwn, RunnersOwn, ResultsOwn,
                          Returned, Running

(* A call takes a number nobody has. *)
LEMMA CallKeeps == ASSUME BridgeInv, NEW t \in Tests, Call(t) PROVE BridgeInv'
<1> USE DEF BridgeInv, Call
<1>1. PathsOwn'
  BY BridgeAssumption DEF PathsOwn, PayloadPath
<1>2. \A u \in Tests : u # t => Payload(u)' = Payload(u)
  BY DEF RunnersOwn, Payload
<1>3. FilesOwn'
  BY <1>2 DEF PathsOwn, FilesOwn
<1>4. RunnersOwn'
  BY <1>2 DEF PathsOwn, RunnersOwn, Running
<1>5. ResultsOwn'
  BY <1>2 DEF PathsOwn, ResultsOwn, Returned
<1> QED BY <1>1, <1>3, <1>4, <1>5

(* A payload is written where no other call reads. *)
LEMMA WriteKeeps == ASSUME BridgeInv, NEW t \in Tests, Write(t) PROVE BridgeInv'
<1> USE DEF BridgeInv, Write
<1>1. PathsOwn'
  BY DEF PathsOwn
<1>2. \A u \in Tests : Payload(u)' = Payload(u)
  BY DEF Payload
<1>3. /\ DOMAIN files' = DOMAIN files \union {path[t]}
      /\ files'[path[t]] = Payload(t)
      /\ \A p \in DOMAIN files : p # path[t] => files'[p] = files[p]
  OBVIOUS
<1>4. FilesOwn'
  BY <1>2, <1>3 DEF PathsOwn, FilesOwn
<1>5. RunnersOwn' /\ ResultsOwn'
  BY <1>2 DEF PathsOwn, RunnersOwn, ResultsOwn, Returned
<1> QED BY <1>1, <1>4, <1>5

(* A runner reads, replies or dies for its own call only. *)
LEMMA RunnerKeeps ==
    ASSUME BridgeInv, NEW t \in Tests, RunnerRead(t) \/ RunnerReply(t) \/ RunnerDies(t)
    PROVE  BridgeInv'
<1> USE DEF BridgeInv
<1>1. UNCHANGED <<phase, case, path, result, files, unique>>
  BY DEF RunnerRead, RunnerReply, RunnerDies
<1>2. \A u \in Tests : Payload(u)' = Payload(u)
  BY <1>1 DEF Payload
<1>3. PathsOwn' /\ FilesOwn' /\ ResultsOwn'
  BY <1>1, <1>2 DEF PathsOwn, FilesOwn, ResultsOwn, Returned
<1>4. CASE RunnerRead(t)
  BY <1>1, <1>2, <1>3, <1>4 DEF FilesOwn, RunnersOwn, RunnerRead
<1>5. CASE RunnerReply(t)
  BY <1>1, <1>2, <1>3, <1>5 DEF RunnersOwn, RunnerReply
<1>6. CASE RunnerDies(t)
  BY <1>1, <1>2, <1>3, <1>6 DEF RunnersOwn, RunnerDies
<1> QED BY <1>4, <1>5, <1>6

(* A call returns what its runner made of its request, and its file goes. *)
LEMMA ReturnKeeps == ASSUME BridgeInv, NEW t \in Tests, Return(t) PROVE BridgeInv'
<1> USE DEF BridgeInv, Return
<1>1. PathsOwn'
  BY DEF PathsOwn
<1>2. \A u \in Tests : Payload(u)' = Payload(u)
  BY DEF Payload
<1>3. /\ DOMAIN files' = DOMAIN files \ {path[t]}
      /\ \A p \in DOMAIN files' : files'[p] = files[p]
  BY DEF Restrict, LeftFiles
<1>4. FilesOwn'
  BY <1>2, <1>3 DEF PathsOwn, FilesOwn
<1>5. RunnersOwn'
  BY <1>2 DEF PathsOwn, RunnersOwn, Running
<1>6. ResultsOwn'
  <2>1. ASSUME result'[t][1] = "ok"
        PROVE  /\ RunnerResponse(Payload(t)).ok
               /\ result'[t][2] = RunnerResponse(Payload(t)).result
    BY <2>1 DEF RunnersOwn, ResultsOwn
  <2> QED BY <1>2, <2>1 DEF PathsOwn, ResultsOwn, Returned
<1> QED BY <1>1, <1>4, <1>5, <1>6

LEMMA StepKeeps == ASSUME BridgeInv, [BridgeNext]_bridgeVars PROVE BridgeInv'
<1>1. CASE UNCHANGED bridgeVars
  <2>1. UNCHANGED <<phase, case, path, request, exit, result, files, unique>>
    BY <1>1 DEF bridgeVars
  <2> QED BY <2>1 DEF BridgeInv, PathsOwn, FilesOwn, RunnersOwn, ResultsOwn, Returned, Payload
<1>2. CASE BridgeNext
  <2>1. PICK t \in Tests : BridgeStep(t)
    BY <1>2 DEF BridgeNext
  <2> QED BY <2>1, CallKeeps, WriteKeeps, RunnerKeeps, ReturnKeeps DEF BridgeStep
<1> QED BY <1>1, <1>2

-----------------------------------------------------------------------------
(* Files, runners and results belong to the calls: the inductive invariant  *)
(* of the bridge.                                                           *)
THEOREM CallsAreApart == BridgeSpec => []BridgeInv
  BY InitBridge, StepKeeps, PTL DEF BridgeSpec

(* run/2 of the bridge returns the answer to what its own caller asked,     *)
(* however many tests call it at once (node_bridge.ex: a payload file for   *)
(* each call).                                                              *)
THEOREM OwnAnswers == BridgeSpec => []AnswersOwnRequest
<1>1. BridgeInv => AnswersOwnRequest
  BY DEF BridgeInv, PathsOwn, FilesOwn, ResultsOwn, AnswersOwnRequest, BridgeTypeOK
<1> QED BY <1>1, CallsAreApart, PTL

(* A payload file is there only while its call runs, whatever the runner    *)
(* did (the after clause of run_command/1).                                 *)
THEOREM NothingLeft == BridgeSpec => []NoPayloadLeft
<1>1. BridgeInv => NoPayloadLeft
  BY DEF BridgeInv, FilesOwn, NoPayloadLeft
<1> QED BY <1>1, CallsAreApart, PTL

-----------------------------------------------------------------------------
(* Induction over numbers, and the folds of the library. *)

(* Without its theorem, whose parameter is an operator: a number that is    *)
(* missing would leave finitely many, and one more of them.                 *)
LEMMA Induct ==
  ASSUME NEW S, 0 \in S, \A k \in Nat : k \in S => k + 1 \in S
  PROVE  \A n \in Nat : n \in S
<1> SUFFICES ASSUME NEW n \in Nat, n \notin S PROVE FALSE
  OBVIOUS
<1> DEFINE A == {k \in 0..n : k \in S}
           B == {k + 1 : k \in A}
<1>1. IsFiniteSet(A) /\ Cardinality(A) \in Nat
  <2>1. IsFiniteSet(0..n)
    BY FS_Interval
  <2> QED BY <2>1, FS_Subset, FS_CardinalityType
<1>2. B \subseteq A \ {0}
  OBVIOUS
<1>3. 0 \in A
  OBVIOUS
<1>4. Cardinality(A \ {0}) = Cardinality(A) - 1 /\ IsFiniteSet(A \ {0})
  BY <1>1, <1>3, FS_RemoveElement
<1>5. IsFiniteSet(B) /\ Cardinality(B) <= Cardinality(A) - 1
  BY <1>2, <1>4, FS_Subset
<1>6. Cardinality(A) <= Cardinality(B)
  <2> DEFINE f == [b \in B |-> b - 1]
  <2>1. f \in Surjection(B, A)
    BY DEF Surjection
  <2> QED BY <1>1, <1>5, <2>1, FS_Surjection
<1>7. Cardinality(B) \in Nat
  BY <1>5, FS_CardinalityType
<1> QED BY <1>1, <1>5, <1>6, <1>7

(* The greatest of some numbers up to n. *)
LEMMA MaxOfSome ==
  ASSUME NEW n \in Nat, NEW t, t \subseteq 1..n, t # {}
  PROVE  Max(t) \in t /\ \A y \in t : y <= Max(t)
<1> DEFINE P == {k \in Nat : \A u : u \subseteq 1..k /\ u # {} => \E x \in u : \A y \in u : x >= y}
<1>1. 0 \in P
  OBVIOUS
<1>2. ASSUME NEW k \in Nat, k \in P PROVE k + 1 \in P
  <2> SUFFICES ASSUME NEW u, u \subseteq 1..(k + 1), u # {}
               PROVE  \E x \in u : \A y \in u : x >= y
    OBVIOUS
  <2>1. CASE k + 1 \in u
    BY <2>1
  <2>2. CASE k + 1 \notin u
    <3>1. u \subseteq 1..k
      BY <2>2
    <3> QED BY <1>2, <3>1
  <2> QED BY <2>1, <2>2
<1> HIDE DEF P
<1>3. n \in P
  BY <1>1, <1>2, Induct
<1>4. \E x \in t : \A y \in t : x >= y
  BY <1>3 DEF P
<1> QED BY <1>4 DEF Max

(* What FoldLeft chooses, of the elements up to k. *)
IsTable(it, k, F, b, s) ==
  \A t \in SUBSET (1..k) : it[t] = IF t = {} THEN b ELSE F[<<it[t \ {Max(t)}], s[Max(t)]>>]
HasTable(k, V, F, b, s) == \E it \in [SUBSET (1..k) -> V] : IsTable(it, k, F, b, s)

\* A table of the steps of a fold has one step more.
LEMMA TableGrows ==
  ASSUME NEW V, NEW X, NEW F \in [V \X X -> V], NEW b \in V, NEW s \in Seq(X),
         NEW k \in Nat, k + 1 <= Len(s), HasTable(k, V, F, b, s)
  PROVE  HasTable(k + 1, V, F, b, s)
<1>1. PICK it \in [SUBSET (1..k) -> V] : IsTable(it, k, F, b, s)
  BY DEF HasTable
<1> DEFINE ju == [t \in SUBSET (1..(k + 1)) |->
                    IF k + 1 \in t THEN F[<<it[t \ {k + 1}], s[k + 1]>>] ELSE it[t]]
<1>2. \A t \in SUBSET (1..(k + 1)) : k + 1 \in t => t \ {k + 1} \in SUBSET (1..k)
  OBVIOUS
<1>3. \A t \in SUBSET (1..(k + 1)) : k + 1 \notin t => t \in SUBSET (1..k)
  OBVIOUS
<1>4. s[k + 1] \in X
  OBVIOUS
<1>5. ju \in [SUBSET (1..(k + 1)) -> V]
  BY <1>1, <1>2, <1>3, <1>4
<1>6. ASSUME NEW t \in SUBSET (1..(k + 1)), k + 1 \in t
      PROVE  ju[t] = IF t = {} THEN b ELSE F[<<ju[t \ {Max(t)}], s[Max(t)]>>]
  <2>1. Max(t) = k + 1
    <3>1. k + 1 \in Nat /\ t \subseteq 1..(k + 1) /\ t # {}
      BY <1>6
    <3>2. Max(t) \in t /\ \A y \in t : y <= Max(t)
      BY <3>1, MaxOfSome
    <3>3. Max(t) \in 1..(k + 1) /\ k + 1 <= Max(t)
      BY <1>6, <3>2
    <3> QED BY <3>3
  <2>2. ju[t \ {k + 1}] = it[t \ {k + 1}] /\ ju[t] = F[<<it[t \ {k + 1}], s[k + 1]>>]
    BY <1>2, <1>6
  <2> HIDE DEF ju
  <2> QED BY <1>6, <2>1, <2>2
<1>7. ASSUME NEW t \in SUBSET (1..(k + 1)), k + 1 \notin t
      PROVE  ju[t] = IF t = {} THEN b ELSE F[<<ju[t \ {Max(t)}], s[Max(t)]>>]
  <2>1. ju[t] = it[t] /\ t \in SUBSET (1..k)
    BY <1>3, <1>7
  <2>2. t \ {Max(t)} \in SUBSET (1..k) /\ ju[t \ {Max(t)}] = it[t \ {Max(t)}]
    <3> DEFINE u == t \ {Max(t)}
    <3>1. u \in SUBSET (1..k)
      BY <2>1
    <3> HIDE DEF u
    <3>2. u \in SUBSET (1..(k + 1)) /\ k + 1 \notin u
      BY <3>1
    <3>3. ju[u] = it[u]
      BY <3>2
    <3> QED BY <3>1, <3>3 DEF u
  <2> HIDE DEF ju
  <2> QED BY <1>1, <2>1, <2>2 DEF IsTable
<1> HIDE DEF ju
<1>8. IsTable(ju, k + 1, F, b, s)
  BY <1>6, <1>7 DEF IsTable
<1> QED BY <1>5, <1>8 DEF HasTable

\* Every fold has a table of its steps.
LEMMA TableExists ==
  ASSUME NEW V, NEW X, NEW F \in [V \X X -> V], NEW b \in V, NEW s \in Seq(X)
  PROVE  HasTable(Len(s), V, F, b, s)
<1> DEFINE P == {k \in Nat : k <= Len(s) => HasTable(k, V, F, b, s)}
<1>0. Len(s) \in Nat
  OBVIOUS
<1>1. 0 \in P
  <2> DEFINE it == [t \in SUBSET (1..0) |-> b]
  <2>1. it \in [SUBSET (1..0) -> V] /\ IsTable(it, 0, F, b, s)
    BY DEF IsTable
  <2> HIDE DEF it
  <2>2. HasTable(0, V, F, b, s)
    BY <2>1 DEF HasTable
  <2> QED BY <2>2
<1>2. ASSUME NEW k \in Nat, k \in P PROVE k + 1 \in P
  <2> SUFFICES ASSUME k + 1 <= Len(s) PROVE HasTable(k + 1, V, F, b, s)
    OBVIOUS
  <2>1. HasTable(k, V, F, b, s)
    BY <1>0, <1>2
  <2> QED BY <2>1, TableGrows
<1>3. \A k \in Nat : k \in P => k + 1 \in P
  BY <1>2
<1> HIDE DEF P
<1>4. \A k \in Nat : k \in P
  BY <1>1, <1>3, Induct
<1> QED BY <1>0, <1>4 DEF P
(* The prefixes of a sequence, as sets of positions.                        *)
LEMMA PrefixSets ==
  ASSUME NEW n \in Nat, NEW k \in 1..n
  PROVE  /\ 1..k \in SUBSET (1..n) /\ 1..k # {} /\ 1..(k - 1) \in SUBSET (1..n)
         /\ Max(1..k) = k /\ (1..k) \ {k} = 1..(k - 1)
<1>1. Max(1..k) \in 1..k /\ \A y \in 1..k : y <= Max(1..k)
  BY MaxOfSome
<1>2. Max(1..k) = k
  BY <1>1
<1> QED BY <1>2

(* What FoldLeft(ReleaseTo, ..), in PastTapless, computes: each entry is      *)

-----------------------------------------------------------------------------
(* The hash of a collection. *)

Lane == 0..(Modulus - 1)

\* One lane: the sum and the difference wrap into the lane and undo one another.
LEMMA WrapFacts ==
    ASSUME NEW x \in Lane, NEW a \in Lane
    PROVE  /\ Wrap(x + a) \in Lane
           /\ Wrap(x - a) \in Lane
           /\ Wrap(Wrap(x + a) - a) = x
           /\ Wrap(Wrap(x - a) + a) = x
<1>1. Modulus \in Nat \ {0}
  BY LtHashAssumption
<1> QED BY <1>1 DEF Wrap, Lane

\* Two sums or differences of one lane, in either order.
LEMMA WrapCommutes ==
    ASSUME NEW x \in Lane, NEW a \in Lane, NEW b \in Lane
    PROVE  /\ Wrap(Wrap(x + a) + b) = Wrap(Wrap(x + b) + a)
           /\ Wrap(Wrap(x - a) - b) = Wrap(Wrap(x - b) - a)
           /\ Wrap(Wrap(x + a) - b) = Wrap(Wrap(x - b) + a)
<1>1. Modulus \in Nat \ {0}
  BY LtHashAssumption
<1> QED BY <1>1 DEF Wrap, Lane

\* A hash stays a row of lanes.
LEMMA HashesClosed ==
    ASSUME NEW h \in Hashes, NEW m \in Macs
    PROVE  AddMac(h, m) \in Hashes /\ SubtractMac(h, m) \in Hashes
<1>1. Expand(m) \in Hashes
  BY LtHashAssumption DEF Hashes
<1>2. \A l \in Lanes : Wrap(h[l] + Expand(m)[l]) \in Lane /\ Wrap(h[l] - Expand(m)[l]) \in Lane
  BY <1>1, WrapFacts DEF Hashes, Lane
<1> QED BY <1>2 DEF AddMac, SubtractMac, AddLanes, SubtractLanes, Hashes, Lane

(* A value that a patch removes or overwrites leaves nothing behind in the  *)
(* hash, and one that is put back makes it what it was, whether or not the  *)
(* lanes wrapped in between.                                                *)
THEOREM MacsUndo ==
    ASSUME NEW h \in Hashes, NEW m \in Macs
    PROVE  SubtractMac(AddMac(h, m), m) = h /\ AddMac(SubtractMac(h, m), m) = h
<1> DEFINE e == Expand(m)
<1>1. e \in Hashes
  BY LtHashAssumption DEF Hashes
<1>2. /\ AddMac(h, m) = [l \in Lanes |-> Wrap(h[l] + e[l])]
      /\ SubtractMac(h, m) = [l \in Lanes |-> Wrap(h[l] - e[l])]
      /\ SubtractMac(AddMac(h, m), m) = [l \in Lanes |-> Wrap(AddMac(h, m)[l] - e[l])]
      /\ AddMac(SubtractMac(h, m), m) = [l \in Lanes |-> Wrap(SubtractMac(h, m)[l] + e[l])]
  BY DEF AddMac, SubtractMac, AddLanes, SubtractLanes
<1> HIDE DEF e
<1>3. \A l \in Lanes : Wrap(Wrap(h[l] + e[l]) - e[l]) = h[l] /\ Wrap(Wrap(h[l] - e[l]) + e[l]) = h[l]
  BY <1>1, WrapFacts DEF Hashes, Lane
<1>4. SubtractMac(AddMac(h, m), m) = [l \in Lanes |-> h[l]]
  BY <1>2, <1>3
<1>5. AddMac(SubtractMac(h, m), m) = [l \in Lanes |-> h[l]]
  BY <1>2, <1>3
<1> QED BY <1>4, <1>5 DEF Hashes

(* Patches reach a device in pages, and a client's own patch subtracts      *)
(* before it adds: two values may come or go in either order.               *)
THEOREM MacsCommute ==
    ASSUME NEW h \in Hashes, NEW m \in Macs, NEW n \in Macs
    PROVE  /\ AddMac(AddMac(h, m), n) = AddMac(AddMac(h, n), m)
           /\ SubtractMac(SubtractMac(h, m), n) = SubtractMac(SubtractMac(h, n), m)
           /\ SubtractMac(AddMac(h, m), n) = AddMac(SubtractMac(h, n), m)
<1> DEFINE e == Expand(m)
           f == Expand(n)
<1>1. e \in Hashes /\ f \in Hashes
  BY LtHashAssumption DEF Hashes
<1>2. \A g : /\ AddMac(g, m) = [l \in Lanes |-> Wrap(g[l] + e[l])]
             /\ AddMac(g, n) = [l \in Lanes |-> Wrap(g[l] + f[l])]
             /\ SubtractMac(g, m) = [l \in Lanes |-> Wrap(g[l] - e[l])]
             /\ SubtractMac(g, n) = [l \in Lanes |-> Wrap(g[l] - f[l])]
  BY DEF AddMac, SubtractMac, AddLanes, SubtractLanes
<1> HIDE DEF e, f
<1>3. \A l \in Lanes :
         /\ Wrap(Wrap(h[l] + e[l]) + f[l]) = Wrap(Wrap(h[l] + f[l]) + e[l])
         /\ Wrap(Wrap(h[l] - e[l]) - f[l]) = Wrap(Wrap(h[l] - f[l]) - e[l])
         /\ Wrap(Wrap(h[l] + e[l]) - f[l]) = Wrap(Wrap(h[l] - f[l]) + e[l])
  <2> TAKE l \in Lanes
  <2> DEFINE x == h[l]
             a == e[l]
             b == f[l]
  <2>1. x \in Lane /\ a \in Lane /\ b \in Lane
    BY <1>1 DEF Hashes, Lane
  <2> HIDE DEF x, a, b
  <2>2. /\ Wrap(Wrap(x + a) + b) = Wrap(Wrap(x + b) + a)
        /\ Wrap(Wrap(x - a) - b) = Wrap(Wrap(x - b) - a)
        /\ Wrap(Wrap(x + a) - b) = Wrap(Wrap(x - b) + a)
    BY <2>1, WrapCommutes
  <2> QED BY <2>2 DEF x, a, b
<1>4. AddMac(AddMac(h, m), n) = AddMac(AddMac(h, n), m)
  BY <1>2, <1>3
<1>5. SubtractMac(SubtractMac(h, m), n) = SubtractMac(SubtractMac(h, n), m)
  BY <1>2, <1>3
<1>6. SubtractMac(AddMac(h, m), n) = AddMac(SubtractMac(h, n), m)
  BY <1>2, <1>3
<1> QED BY <1>4, <1>5, <1>6

-----------------------------------------------------------------------------
(* The folds of the model, taken in turn. *)

(* subtract_then_add/3: values are added one after the other.                  *)
LEMMA AddsInTurn ==
  ASSUME NEW b \in Hashes, NEW s \in Seq(Macs),
         \A a \in Hashes, x \in Macs : AddMac(a, x) \in Hashes
  PROVE  \E g : /\ g[0] = b
                /\ \A k \in 1..Len(s) : g[k] = AddMac(g[k - 1], s[k])
                /\ FoldLeft(AddMac, b, s) = g[Len(s)]
<1> DEFINE F == [p \in Hashes \X Macs |-> AddMac(p[1], p[2])]
           D == DOMAIN s
           Eq(it) == it = [t \in SUBSET D |-> IF t = {} THEN b ELSE AddMac(it[t \ {Max(t)}], s[Max(t)])]
           j == CHOOSE it : Eq(it)
           R == FoldLeft(AddMac, b, s)
<1>1. /\ F \in [Hashes \X Macs -> Hashes]
      /\ \A a \in Hashes, x \in Macs : F[<<a, x>>] = AddMac(a, x)
  OBVIOUS
<1> HIDE DEF F
<1>2. PICK it \in [SUBSET (1..Len(s)) -> Hashes] : IsTable(it, Len(s), F, b, s)
  BY <1>1, TableExists DEF HasTable
<1>3. Len(s) \in Nat /\ D = 1..Len(s)
  OBVIOUS
<1>4. ASSUME NEW t \in SUBSET D
      PROVE  it[t] = IF t = {} THEN b ELSE AddMac(it[t \ {Max(t)}], s[Max(t)])
  <2>1. CASE t # {}
    <3>1. Max(t) \in D /\ t \ {Max(t)} \in SUBSET (1..Len(s))
      BY <1>3, <2>1, MaxOfSome
    <3>2. it[t \ {Max(t)}] \in Hashes /\ s[Max(t)] \in Macs
      BY <1>2, <3>1
    <3> QED BY <1>1, <1>2, <1>3, <2>1, <3>2 DEF IsTable
  <2> QED BY <1>2, <1>3, <2>1 DEF IsTable
<1>5. Eq(it)
  BY <1>2, <1>3, <1>4
<1>6. Eq(j)
  BY <1>5
<1>7. R = j[D]
  BY DEF FoldLeft, MapThenFoldSet
<1> HIDE DEF j, D, R
<1> DEFINE g == [k \in 0..Len(s) |-> j[1..k]]
<1>8. g[0] = b
  BY <1>3, <1>6
<1>9. ASSUME NEW k \in 1..Len(s) PROVE g[k] = AddMac(g[k - 1], s[k])
  <2>1. 1..k \in SUBSET D /\ 1..k # {} /\ Max(1..k) = k /\ (1..k) \ {k} = 1..(k - 1)
    BY <1>3, PrefixSets
  <2>2. j[1..k] = AddMac(j[1..(k - 1)], s[k])
    BY <1>6, <2>1
  <2> QED BY <1>3, <2>2
<1>10. R = g[Len(s)]
  BY <1>3, <1>7
<1> HIDE DEF g
<1>11. \E f : f[0] = b /\ (\A k \in 1..Len(s) : f[k] = AddMac(f[k - 1], s[k])) /\ R = f[Len(s)]
  BY <1>8, <1>9, <1>10
<1> QED BY <1>11 DEF R

(* subtract_then_add/3: values are subtracted one after the other.             *)
LEMMA SubtractsInTurn ==
  ASSUME NEW b \in Hashes, NEW s \in Seq(Macs),
         \A a \in Hashes, x \in Macs : SubtractMac(a, x) \in Hashes
  PROVE  \E g : /\ g[0] = b
                /\ \A k \in 1..Len(s) : g[k] = SubtractMac(g[k - 1], s[k])
                /\ FoldLeft(SubtractMac, b, s) = g[Len(s)]
<1> DEFINE F == [p \in Hashes \X Macs |-> SubtractMac(p[1], p[2])]
           D == DOMAIN s
           Eq(it) == it = [t \in SUBSET D |-> IF t = {} THEN b ELSE SubtractMac(it[t \ {Max(t)}], s[Max(t)])]
           j == CHOOSE it : Eq(it)
           R == FoldLeft(SubtractMac, b, s)
<1>1. /\ F \in [Hashes \X Macs -> Hashes]
      /\ \A a \in Hashes, x \in Macs : F[<<a, x>>] = SubtractMac(a, x)
  OBVIOUS
<1> HIDE DEF F
<1>2. PICK it \in [SUBSET (1..Len(s)) -> Hashes] : IsTable(it, Len(s), F, b, s)
  BY <1>1, TableExists DEF HasTable
<1>3. Len(s) \in Nat /\ D = 1..Len(s)
  OBVIOUS
<1>4. ASSUME NEW t \in SUBSET D
      PROVE  it[t] = IF t = {} THEN b ELSE SubtractMac(it[t \ {Max(t)}], s[Max(t)])
  <2>1. CASE t # {}
    <3>1. Max(t) \in D /\ t \ {Max(t)} \in SUBSET (1..Len(s))
      BY <1>3, <2>1, MaxOfSome
    <3>2. it[t \ {Max(t)}] \in Hashes /\ s[Max(t)] \in Macs
      BY <1>2, <3>1
    <3> QED BY <1>1, <1>2, <1>3, <2>1, <3>2 DEF IsTable
  <2> QED BY <1>2, <1>3, <2>1 DEF IsTable
<1>5. Eq(it)
  BY <1>2, <1>3, <1>4
<1>6. Eq(j)
  BY <1>5
<1>7. R = j[D]
  BY DEF FoldLeft, MapThenFoldSet
<1> HIDE DEF j, D, R
<1> DEFINE g == [k \in 0..Len(s) |-> j[1..k]]
<1>8. g[0] = b
  BY <1>3, <1>6
<1>9. ASSUME NEW k \in 1..Len(s) PROVE g[k] = SubtractMac(g[k - 1], s[k])
  <2>1. 1..k \in SUBSET D /\ 1..k # {} /\ Max(1..k) = k /\ (1..k) \ {k} = 1..(k - 1)
    BY <1>3, PrefixSets
  <2>2. j[1..k] = SubtractMac(j[1..(k - 1)], s[k])
    BY <1>6, <2>1
  <2> QED BY <1>3, <2>2
<1>10. R = g[Len(s)]
  BY <1>3, <1>7
<1> HIDE DEF g
<1>11. \E f : f[0] = b /\ (\A k \in 1..Len(s) : f[k] = SubtractMac(f[k - 1], s[k])) /\ R = f[Len(s)]
  BY <1>8, <1>9, <1>10
<1> QED BY <1>11 DEF R

-----------------------------------------------------------------------------
(* The hash of a set of values, in whatever order they are added. *)

\* g gives every subset of r the hash of its values.
IsSum(g, r) ==
    /\ g \in [SUBSET r -> Hashes]
    /\ g[{}] = ZeroHash
    /\ \A t \in SUBSET r, m \in r : m \notin t => g[t \union {m}] = AddMac(g[t], m)

SetHash(r) == SubtractThenAdd(ZeroHash, <<>>, SetToSeq(r))

Upto(s, k) == {s[j] : j \in 1..k}

Apart(s) == \A j, k \in 1..Len(s) : s[j] = s[k] => j = k

\* The hash of nothing is a hash.
LEMMA ZeroIsHash == ZeroHash \in Hashes
<1>1. Modulus \in Nat \ {0}
  BY LtHashAssumption
<1> QED BY <1>1 DEF ZeroHash, Hashes

\* Sums of one value more: the value is added last.
LEMMA SumGrows ==
  ASSUME NEW r, r \subseteq Macs, NEW n \in Macs, n \notin r, NEW g, IsSum(g, r)
  PROVE  \E h : IsSum(h, r \union {n})
<1> DEFINE q == r \union {n}
           h == [t \in SUBSET q |-> IF n \in t THEN AddMac(g[t \ {n}], n) ELSE g[t]]
<1>1. \A t \in SUBSET q : n \in t => t \ {n} \in SUBSET r
  OBVIOUS
<1>2. \A t \in SUBSET q : n \notin t => t \in SUBSET r
  OBVIOUS
<1>3. h \in [SUBSET q -> Hashes]
  BY <1>1, <1>2, HashesClosed DEF IsSum
<1>4. h[{}] = ZeroHash
  BY DEF IsSum
<1>5. ASSUME NEW t \in SUBSET q, NEW m \in q, m \notin t
      PROVE  h[t \union {m}] = AddMac(h[t], m)
  <2>1. CASE m = n
    <3>1. (t \union {n}) \ {n} = t /\ n \in t \union {n} /\ t \union {n} \in SUBSET q
      BY <1>5, <2>1
    <3> QED BY <1>5, <2>1, <3>1
  <2>2. CASE m # n /\ n \notin t
    <3>1. t \union {m} \in SUBSET r /\ t \in SUBSET r /\ m \in r /\ t \union {m} \in SUBSET q
      BY <1>2, <2>2
    <3>2. h[t \union {m}] = g[t \union {m}] /\ h[t] = g[t]
      BY <2>2, <3>1
    <3>3. g[t \union {m}] = AddMac(g[t], m)
      BY <1>5, <3>1 DEF IsSum
    <3> QED BY <3>2, <3>3
  <2>3. CASE m # n /\ n \in t
    <3> DEFINE u == t \ {n}
    <3>1. /\ u \in SUBSET r /\ m \in r /\ m \notin u
          /\ (t \union {m}) \ {n} = u \union {m}
          /\ t \union {m} \in SUBSET q /\ n \in t \union {m}
      BY <1>5, <2>3
    <3>2. h[t \union {m}] = AddMac(g[u \union {m}], n) /\ h[t] = AddMac(g[u], n)
      BY <2>3, <3>1
    <3> HIDE DEF u, h
    <3>3. g[u \union {m}] = AddMac(g[u], m) /\ g[u] \in Hashes
      BY <3>1 DEF IsSum
    <3>4. AddMac(AddMac(g[u], m), n) = AddMac(AddMac(g[u], n), m)
      BY <3>1, <3>3, MacsCommute
    <3> QED BY <3>2, <3>3, <3>4
  <2> QED BY <2>1, <2>2, <2>3
<1> HIDE DEF h
<1>6. IsSum(h, q)
  BY <1>3, <1>4, <1>5 DEF IsSum
<1> QED BY <1>6

\* The values of a sequence have sums.
LEMMA SumExists ==
  ASSUME NEW s \in Seq(Macs), Apart(s)
  PROVE  \E g : IsSum(g, Upto(s, Len(s)))
<1> DEFINE P == {k \in Nat : k <= Len(s) => \E g : IsSum(g, Upto(s, k))}
<1>0. Len(s) \in Nat
  OBVIOUS
<1>1. 0 \in P
  <2> DEFINE g == [t \in SUBSET {} |-> ZeroHash]
  <2>1. IsSum(g, {})
    BY ZeroIsHash DEF IsSum
  <2>2. Upto(s, 0) = {}
    BY DEF Upto
  <2> HIDE DEF g
  <2> QED BY <2>1, <2>2
<1>2. ASSUME NEW k \in Nat, k \in P PROVE k + 1 \in P
  <2> SUFFICES ASSUME k + 1 <= Len(s) PROVE \E g : IsSum(g, Upto(s, k + 1))
    OBVIOUS
  <2>1. PICK g : IsSum(g, Upto(s, k))
    BY <1>0, <1>2
  <2>2. s[k + 1] \in Macs /\ Upto(s, k) \subseteq Macs
    BY <1>0 DEF Upto
  <2>3. s[k + 1] \notin Upto(s, k)
    BY <1>0 DEF Upto, Apart
  <2>4. Upto(s, k + 1) = Upto(s, k) \union {s[k + 1]}
    BY DEF Upto
  <2>5. \E h : IsSum(h, Upto(s, k) \union {s[k + 1]})
    BY <2>1, <2>2, <2>3, SumGrows
  <2> QED BY <2>4, <2>5
<1>3. \A k \in Nat : k \in P => k + 1 \in P
  BY <1>2
<1> HIDE DEF P
<1>4. \A k \in Nat : k \in P
  BY <1>1, <1>3, Induct
<1> QED BY <1>0, <1>4 DEF P

\* Adding the values of a sequence one after the other gives their sum.
LEMMA AddsToSum ==
  ASSUME NEW s \in Seq(Macs), Apart(s), NEW r, Upto(s, Len(s)) \subseteq r, NEW g, IsSum(g, r)
  PROVE  FoldLeft(AddMac, ZeroHash, s) = g[Upto(s, Len(s))]
<1>0. Len(s) \in Nat
  OBVIOUS
<1>1. PICK f : /\ f[0] = ZeroHash
               /\ \A k \in 1..Len(s) : f[k] = AddMac(f[k - 1], s[k])
               /\ FoldLeft(AddMac, ZeroHash, s) = f[Len(s)]
  <2>1. \A a \in Hashes, x \in Macs : AddMac(a, x) \in Hashes
    BY HashesClosed
  <2> QED BY <2>1, ZeroIsHash, AddsInTurn
<1> DEFINE P == {k \in Nat : k <= Len(s) => f[k] = g[Upto(s, k)]}
<1>2. 0 \in P
  <2>1. Upto(s, 0) = {}
    BY DEF Upto
  <2> QED BY <1>1, <2>1 DEF IsSum
<1>3. ASSUME NEW k \in Nat, k \in P PROVE k + 1 \in P
  <2> SUFFICES ASSUME k + 1 <= Len(s) PROVE f[k + 1] = g[Upto(s, k + 1)]
    OBVIOUS
  <2>1. f[k + 1] = AddMac(f[k], s[k + 1])
    BY <1>0, <1>1
  <2>2. f[k] = g[Upto(s, k)]
    BY <1>0, <1>3
  <2>3. s[k + 1] \in r /\ Upto(s, k) \in SUBSET r
    BY <1>0 DEF Upto
  <2>4. s[k + 1] \notin Upto(s, k)
    BY <1>0 DEF Upto, Apart
  <2>5. Upto(s, k + 1) = Upto(s, k) \union {s[k + 1]}
    BY DEF Upto
  <2> QED BY <2>1, <2>2, <2>3, <2>4, <2>5 DEF IsSum
<1>4. \A k \in Nat : k \in P => k + 1 \in P
  BY <1>3
<1> HIDE DEF P
<1>5. \A k \in Nat : k \in P
  BY <1>2, <1>4, Induct
<1> QED BY <1>0, <1>1, <1>5 DEF P

\* SetToSeq lists the values of a set, each once.
LEMMA Listed ==
  ASSUME NEW r, r \subseteq Macs, IsFiniteSet(r)
  PROVE  SetToSeq(r) \in Seq(Macs) /\ Apart(SetToSeq(r)) /\ Upto(SetToSeq(r), Len(SetToSeq(r))) = r
<1> DEFINE n == Cardinality(r)
           s == SetToSeq(r)
<1>1. n \in Nat /\ ExistsBijection(1..n, r)
  BY FS_CardinalityType
<1>2. PICK f : f \in Bijection(1..n, r)
  BY <1>1 DEF ExistsBijection
<1>3. f \in [1..n -> r] /\ IsInjective(f)
  BY <1>2 DEF Bijection, Injection, IsInjective
<1>4. s \in [1..n -> r] /\ IsInjective(s)
  BY <1>3 DEF SetToSeq
<1>5. s \in Surjection(1..n, r)
  <2>1. s \in Injection(1..n, r)
    BY <1>4 DEF Injection, IsInjective
  <2>2. IsFiniteSet(1..n) /\ Cardinality(1..n) = n
    BY <1>1, FS_Interval
  <2> QED BY <2>1, <2>2, FS_Injection
<1> HIDE DEF s, n
<1>6. s \in Seq(Macs) /\ Len(s) = n
  BY <1>1, <1>4
<1>7. Apart(s)
  BY <1>4, <1>6 DEF Apart, IsInjective
<1>8. Upto(s, Len(s)) = r
  BY <1>4, <1>5, <1>6 DEF Upto, Surjection
<1> QED BY <1>6, <1>7, <1>8 DEF s

\* Nothing is subtracted.
LEMMA SubtractsNothing ==
  ASSUME NEW h \in Hashes
  PROVE  FoldLeft(SubtractMac, h, <<>>) = h
<1> DEFINE s == <<>>
<1>1. \A a \in Hashes, x \in Macs : SubtractMac(a, x) \in Hashes
  BY HashesClosed
<1>2. s \in Seq(Macs) /\ Len(s) = 0
  OBVIOUS
<1> HIDE DEF s
<1>3. \E g : /\ g[0] = h
             /\ \A k \in 1..Len(s) : g[k] = SubtractMac(g[k - 1], s[k])
             /\ FoldLeft(SubtractMac, h, s) = g[Len(s)]
  BY <1>1, <1>2, SubtractsInTurn
<1>4. FoldLeft(SubtractMac, h, s) = h
  BY <1>2, <1>3
<1> QED BY <1>4 DEF s

\* The hash of a set is that of its values in any order.
LEMMA AnyOrder ==
  ASSUME NEW s \in Seq(Macs), Apart(s), IsFiniteSet(Upto(s, Len(s)))
  PROVE  SetHash(Upto(s, Len(s))) = FoldLeft(AddMac, ZeroHash, s)
<1> DEFINE r == Upto(s, Len(s))
<1>1. PICK g : IsSum(g, r)
  BY SumExists
<1>2. r \subseteq Macs
  BY DEF Upto
<1>3. FoldLeft(AddMac, ZeroHash, s) = g[r]
  BY <1>1, AddsToSum
<1> HIDE DEF r
<1>4. IsFiniteSet(r)
  BY DEF r
<1> DEFINE u == SetToSeq(r)
<1>5. u \in Seq(Macs) /\ Apart(u) /\ Upto(u, Len(u)) = r
  BY <1>2, <1>4, Listed
<1> HIDE DEF u
<1>6. FoldLeft(AddMac, ZeroHash, u) = g[r]
  <2>1. Upto(u, Len(u)) \subseteq r
    BY <1>5
  <2>2. FoldLeft(AddMac, ZeroHash, u) = g[Upto(u, Len(u))]
    BY <1>1, <1>5, <2>1, AddsToSum
  <2> QED BY <1>5, <2>2
<1>7. SetHash(r) = FoldLeft(AddMac, ZeroHash, u)
  BY ZeroIsHash, SubtractsNothing DEF SetHash, SubtractThenAdd, u
<1> QED BY <1>3, <1>6, <1>7 DEF r

(* A value more is a value added.                                           *)
LEMMA SetHashGrows ==
  ASSUME NEW r, r \subseteq Macs, IsFiniteSet(r), NEW m \in Macs, m \notin r
  PROVE  SetHash(r \union {m}) = AddMac(SetHash(r), m) /\ SetHash(r) \in Hashes
<1> DEFINE q == r \union {m}
           u == SetToSeq(r)
           w == SetToSeq(q)
<1>1. u \in Seq(Macs) /\ Apart(u) /\ Upto(u, Len(u)) = r
  BY Listed
<1>2. w \in Seq(Macs) /\ Apart(w) /\ Upto(w, Len(w)) = q
  <2>1. IsFiniteSet(q) /\ q \subseteq Macs
    BY FS_AddElement
  <2> HIDE DEF q
  <2> QED BY <2>1, Listed
<1> HIDE DEF u, w
<1>3. PICK g : IsSum(g, q)
  BY <1>2, SumExists
<1>4. FoldLeft(AddMac, ZeroHash, u) = g[r]
  <2>1. Upto(u, Len(u)) \subseteq q
    BY <1>1
  <2>2. FoldLeft(AddMac, ZeroHash, u) = g[Upto(u, Len(u))]
    BY <1>1, <1>3, <2>1, AddsToSum
  <2> QED BY <1>1, <2>2
<1>5. FoldLeft(AddMac, ZeroHash, w) = g[q]
  <2>1. Upto(w, Len(w)) \subseteq q
    BY <1>2
  <2>2. FoldLeft(AddMac, ZeroHash, w) = g[Upto(w, Len(w))]
    BY <1>2, <1>3, <2>1, AddsToSum
  <2> QED BY <1>2, <2>2
<1>6. SetHash(r) = g[r] /\ SetHash(q) = g[q]
  BY <1>4, <1>5, ZeroIsHash, SubtractsNothing DEF SetHash, SubtractThenAdd, u, w
<1>7. g[q] = AddMac(g[r], m) /\ g[r] \in Hashes
  BY <1>3 DEF IsSum
<1> QED BY <1>6, <1>7

(* A value less is a value subtracted.                                      *)
LEMMA SetHashShrinks ==
  ASSUME NEW r, r \subseteq Macs, IsFiniteSet(r), NEW m \in r
  PROVE  SetHash(r \ {m}) = SubtractMac(SetHash(r), m)
<1> DEFINE q == r \ {m}
<1>1. IsFiniteSet(q) /\ q \subseteq Macs /\ m \in Macs /\ m \notin q /\ q \union {m} = r
  BY FS_Subset
<1> HIDE DEF q
<1>2. SetHash(q \union {m}) = AddMac(SetHash(q), m) /\ SetHash(q) \in Hashes
  BY <1>1, SetHashGrows
<1>3. SubtractMac(AddMac(SetHash(q), m), m) = SetHash(q)
  BY <1>1, <1>2, MacsUndo
<1> QED BY <1>1, <1>2, <1>3 DEF q

-----------------------------------------------------------------------------
(* The map of a collection, and its hash. *)

Maps == UNION {[d -> Macs] : d \in SUBSET Indexes}

Values(map) == {map[i] : i \in DOMAIN map}

MapOK(map) ==
    /\ map \in Maps
    /\ IsFiniteSet(Values(map))
    /\ \A i, j \in DOMAIN map : map[i] = map[j] => i = j

\* The hash of a map is that of the set of its values.
LEMMA HashOfValues ==
  ASSUME NEW map
  PROVE  HashOf(map) = SetHash(Values(map))
  BY DEF HashOf, SetHash, Values

\* What a map holds are MACs.
LEMMA ValuesAreMacs ==
  ASSUME NEW map, MapOK(map)
  PROVE  /\ Values(map) \subseteq Macs /\ IsFiniteSet(Values(map))
         /\ DOMAIN map \subseteq Indexes
         /\ map = [i \in DOMAIN map |-> map[i]]
         /\ \A i \in DOMAIN map : map[i] \in Values(map) /\ map[i] \in Macs
<1>1. PICK d \in SUBSET Indexes : map \in [d -> Macs]
  BY DEF MapOK, Maps
<1> QED BY <1>1 DEF MapOK, Values

\* A value no other index has can be put.
LEMMA PutIsMap ==
  ASSUME NEW map, MapOK(map), NEW i \in Indexes, NEW m \in Macs,
         \A j \in DOMAIN map : j # i => map[j] # m
  PROVE  /\ MapOK(Put(map, i, m))
         /\ Values(Put(map, i, m)) = (IF i \in DOMAIN map THEN Values(map) \ {map[i]} ELSE Values(map))
                                        \union {m}
<1> DEFINE q == Put(map, i, m)
           r == IF i \in DOMAIN map THEN Values(map) \ {map[i]} ELSE Values(map)
<1>1. /\ DOMAIN q = DOMAIN map \union {i}
      /\ q[i] = m /\ \A j \in DOMAIN map : j # i => q[j] = map[j]
      /\ q = [j \in DOMAIN q |-> q[j]]
  BY DEF Put
<1>2. /\ Values(map) \subseteq Macs /\ IsFiniteSet(Values(map)) /\ DOMAIN map \subseteq Indexes
      /\ \A j \in DOMAIN map : map[j] \in Macs
  BY ValuesAreMacs
<1> HIDE DEF q
<1>3. Values(q) = r \union {m}
  BY <1>1 DEF Values, MapOK
<1>4. IsFiniteSet(r \union {m})
  <2>1. IsFiniteSet(r)
    <3>1. r \subseteq Values(map)
      OBVIOUS
    <3> HIDE DEF r
    <3> QED BY <1>2, <3>1, FS_Subset
  <2> HIDE DEF r
  <2> QED BY <2>1, FS_AddElement
<1>5. q \in [DOMAIN map \union {i} -> Macs] /\ DOMAIN map \union {i} \in SUBSET Indexes
  BY <1>1, <1>2
<1>6. q \in Maps
  BY <1>5 DEF Maps
<1>7. \A j, k \in DOMAIN q : q[j] = q[k] => j = k
  BY <1>1 DEF MapOK
<1> HIDE DEF r
<1>8. MapOK(q)
  BY <1>3, <1>4, <1>6, <1>7 DEF MapOK
<1> QED BY <1>3, <1>8 DEF q, r

\* An index can be taken out.
LEMMA WithoutIsMap ==
  ASSUME NEW map, MapOK(map), NEW i
  PROVE  /\ MapOK(Without(map, i))
         /\ i \in DOMAIN map => Values(Without(map, i)) = Values(map) \ {map[i]}
         /\ i \notin DOMAIN map => Without(map, i) = map
<1> DEFINE q == Without(map, i)
<1>1. /\ DOMAIN q = DOMAIN map \ {i}
      /\ \A j \in DOMAIN map : j # i => q[j] = map[j]
      /\ q = [j \in DOMAIN q |-> q[j]]
  BY DEF Without
<1>2. /\ IsFiniteSet(Values(map)) /\ DOMAIN map \subseteq Indexes
      /\ \A j \in DOMAIN map : map[j] \in Macs
      /\ map = [j \in DOMAIN map |-> map[j]]
  BY ValuesAreMacs
<1>3. i \notin DOMAIN map => q = map
  <2> SUFFICES ASSUME i \notin DOMAIN map PROVE q = map
    OBVIOUS
  <2>1. DOMAIN map \ {i} = DOMAIN map
    OBVIOUS
  <2> QED BY <1>2, <2>1 DEF Without
<1> HIDE DEF q
<1>4. i \in DOMAIN map => Values(q) = Values(map) \ {map[i]}
  BY <1>1 DEF Values, MapOK
<1>5. IsFiniteSet(Values(q))
  <2>1. Values(q) \subseteq Values(map)
    BY <1>1 DEF Values
  <2> QED BY <1>2, <2>1, FS_Subset
<1>6. q \in [DOMAIN map \ {i} -> Macs] /\ DOMAIN map \ {i} \in SUBSET Indexes
  BY <1>1, <1>2
<1>7. q \in Maps
  BY <1>6 DEF Maps
<1>8. \A j, k \in DOMAIN q : q[j] = q[k] => j = k
  BY <1>1 DEF MapOK
<1>9. MapOK(q)
  BY <1>5, <1>7, <1>8 DEF MapOK
<1> QED BY <1>3, <1>4, <1>9 DEF q

(* The hash of a map follows a value that is put or removed: what was at    *)
(* the index is subtracted, what comes there is added.                      *)
LEMMA HashFollowsPut ==
  ASSUME NEW map, MapOK(map), NEW i \in Indexes, NEW m \in Macs,
         \A j \in DOMAIN map : j # i => map[j] # m
  PROVE  HashOf(Put(map, i, m)) = IF i \in DOMAIN map THEN AddMac(SubtractMac(HashOf(map), map[i]), m)
                                  ELSE AddMac(HashOf(map), m)
<1> DEFINE q == Put(map, i, m)
           r == IF i \in DOMAIN map THEN Values(map) \ {map[i]} ELSE Values(map)
<1>1. Values(q) = r \union {m}
  BY PutIsMap
<1>2. Values(map) \subseteq Macs /\ IsFiniteSet(Values(map)) /\ \A j \in DOMAIN map : map[j] \in Values(map)
  BY ValuesAreMacs
<1>3. r \subseteq Values(map) /\ m \notin r
  BY DEF Values
<1>4. r \subseteq Macs /\ IsFiniteSet(r)
  <2> HIDE DEF r
  <2> QED BY <1>2, <1>3, FS_Subset
<1>5. SetHash(r) = IF i \in DOMAIN map THEN SubtractMac(HashOf(map), map[i]) ELSE HashOf(map)
  BY <1>2, SetHashShrinks, HashOfValues
<1> HIDE DEF r, q
<1>6. HashOf(q) = AddMac(SetHash(r), m)
  BY <1>1, <1>3, <1>4, SetHashGrows, HashOfValues
<1> QED BY <1>5, <1>6 DEF q

\* Taking an index out takes its value off the hash.
LEMMA HashFollowsWithout ==
  ASSUME NEW map, MapOK(map), NEW i \in DOMAIN map
  PROVE  HashOf(Without(map, i)) = SubtractMac(HashOf(map), map[i])
<1>1. Values(Without(map, i)) = Values(map) \ {map[i]}
  BY WithoutIsMap
<1>2. Values(map) \subseteq Macs /\ IsFiniteSet(Values(map)) /\ map[i] \in Values(map)
  BY ValuesAreMacs
<1> QED BY <1>1, <1>2, SetHashShrinks, HashOfValues

\* The hash of a map is a hash.
LEMMA HashOfMap ==
  ASSUME NEW map, MapOK(map)
  PROVE  HashOf(map) \in Hashes
<1>1. Values(map) \subseteq Macs /\ IsFiniteSet(Values(map))
  BY ValuesAreMacs
<1> DEFINE u == SetToSeq(Values(map))
<1>2. u \in Seq(Macs) /\ Apart(u) /\ Upto(u, Len(u)) = Values(map)
  BY <1>1, Listed
<1> HIDE DEF u
<1>3. PICK g : IsSum(g, Values(map))
  BY <1>2, SumExists
<1>4. FoldLeft(AddMac, ZeroHash, u) = g[Values(map)]
  <2>1. FoldLeft(AddMac, ZeroHash, u) = g[Upto(u, Len(u))]
    BY <1>2, <1>3, AddsToSum
  <2> QED BY <1>2, <2>1
<1>5. HashOf(map) = FoldLeft(AddMac, ZeroHash, u)
  BY ZeroIsHash, SubtractsNothing, HashOfValues DEF SetHash, SubtractThenAdd, u
<1> QED BY <1>3, <1>4, <1>5 DEF IsSum

\* A new state has the hash of its empty map.
LEMMA EmptyMap ==
  /\ MapOK(<<>>)
  /\ HashOf(<<>>) = ZeroHash
<1> DEFINE map == <<>>
           s == <<>>
<1>1. DOMAIN map = {}
  OBVIOUS
<1>2. map \in [{} -> Macs]
  OBVIOUS
<1>3. s \in Seq(Macs) /\ Len(s) = 0
  OBVIOUS
<1> HIDE DEF map, s
<1>4. map \in Maps
  BY <1>2 DEF Maps
<1>5. Values(map) = {}
  BY <1>1 DEF Values
<1>6. Apart(s) /\ Upto(s, Len(s)) = {}
  BY <1>3 DEF Apart, Upto
<1>7. IsFiniteSet({})
  BY FS_EmptySet
<1>8. SetHash({}) = FoldLeft(AddMac, ZeroHash, s)
  <2>1. SetHash(Upto(s, Len(s))) = FoldLeft(AddMac, ZeroHash, s)
    BY <1>3, <1>6, <1>7, AnyOrder
  <2> QED BY <1>6, <2>1
<1>9. FoldLeft(AddMac, ZeroHash, s) = ZeroHash
  <2>1. \A a \in Hashes, x \in Macs : AddMac(a, x) \in Hashes
    BY HashesClosed
  <2>2. \E g : /\ g[0] = ZeroHash
               /\ \A k \in 1..Len(s) : g[k] = AddMac(g[k - 1], s[k])
               /\ FoldLeft(AddMac, ZeroHash, s) = g[Len(s)]
    BY <1>3, <2>1, ZeroIsHash, AddsInTurn
  <2> QED BY <1>3, <2>2
<1>10. HashOf(map) = ZeroHash
  BY <1>5, <1>8, <1>9, HashOfValues
<1>11. MapOK(map)
  BY <1>1, <1>4, <1>5, <1>7 DEF MapOK
<1> QED BY <1>10, <1>11 DEF map

-----------------------------------------------------------------------------
(* One mutation is mixed. *)

\* Sequences of one element, and of none.
LEMMA AddsNothing ==
  ASSUME NEW h \in Hashes
  PROVE  FoldLeft(AddMac, h, <<>>) = h
<1>1. \A a \in Hashes, x \in Macs : AddMac(a, x) \in Hashes
  BY HashesClosed
<1> DEFINE s == <<>>
<1>2. s \in Seq(Macs) /\ Len(s) = 0
  OBVIOUS
<1> HIDE DEF s
<1>3. \E g : /\ g[0] = h
             /\ \A k \in 1..Len(s) : g[k] = AddMac(g[k - 1], s[k])
             /\ FoldLeft(AddMac, h, s) = g[Len(s)]
  BY <1>1, <1>2, AddsInTurn
<1>4. FoldLeft(AddMac, h, s) = h
  BY <1>2, <1>3
<1> QED BY <1>4 DEF s

\* Adding one value, or none.
LEMMA AddsShort ==
  ASSUME NEW h \in Hashes, NEW m \in Macs
  PROVE  FoldLeft(AddMac, h, <<>>) = h /\ FoldLeft(AddMac, h, <<m>>) = AddMac(h, m)
<1>1. \A a \in Hashes, x \in Macs : AddMac(a, x) \in Hashes
  BY HashesClosed
<1>2. ASSUME NEW s \in Seq(Macs)
      PROVE  \E g : /\ g[0] = h
                    /\ \A k \in 1..Len(s) : g[k] = AddMac(g[k - 1], s[k])
                    /\ FoldLeft(AddMac, h, s) = g[Len(s)]
  BY <1>1, AddsInTurn
<1>3. FoldLeft(AddMac, h, <<>>) = h
  BY AddsNothing
<1>4. FoldLeft(AddMac, h, <<m>>) = AddMac(h, m)
  <2> DEFINE s == <<m>>
  <2>1. s \in Seq(Macs) /\ Len(s) = 1 /\ s[1] = m
    OBVIOUS
  <2> HIDE DEF s
  <2>2. PICK g : /\ g[0] = h
                 /\ \A k \in 1..Len(s) : g[k] = AddMac(g[k - 1], s[k])
                 /\ FoldLeft(AddMac, h, s) = g[Len(s)]
    BY <1>2, <2>1
  <2>3. g[1] = AddMac(g[1 - 1], s[1]) /\ 1 - 1 = 0
    BY <2>1, <2>2
  <2> QED BY <2>1, <2>2, <2>3 DEF s
<1> QED BY <1>3, <1>4

\* Subtracting one value, or none.
LEMMA SubtractsShort ==
  ASSUME NEW h \in Hashes, NEW m \in Macs
  PROVE  FoldLeft(SubtractMac, h, <<>>) = h /\ FoldLeft(SubtractMac, h, <<m>>) = SubtractMac(h, m)
<1>1. \A a \in Hashes, x \in Macs : SubtractMac(a, x) \in Hashes
  BY HashesClosed
<1>2. FoldLeft(SubtractMac, h, <<m>>) = SubtractMac(h, m)
  <2> DEFINE s == <<m>>
  <2>1. s \in Seq(Macs) /\ Len(s) = 1 /\ s[1] = m
    OBVIOUS
  <2> HIDE DEF s
  <2>2. PICK g : /\ g[0] = h
                 /\ \A k \in 1..Len(s) : g[k] = SubtractMac(g[k - 1], s[k])
                 /\ FoldLeft(SubtractMac, h, s) = g[Len(s)]
    BY <1>1, <2>1, SubtractsInTurn
  <2>3. g[1] = SubtractMac(g[1 - 1], s[1]) /\ 1 - 1 = 0
    BY <2>1, <2>2
  <2> QED BY <2>1, <2>2, <2>3 DEF s
<1> QED BY <1>2, SubtractsNothing

States == [version : Nat, hash : Hashes, map : Maps]

\* A state after two updates.
LEMMA Updated ==
  ASSUME NEW st \in States, NEW x, NEW y
  PROVE  [[st EXCEPT !.hash = x] EXCEPT !.map = y] = [version |-> st.version, hash |-> x, map |-> y]
<1>1. [st EXCEPT !.hash = x] = [version |-> st.version, hash |-> x, map |-> st.map]
  BY DEF States
<1> DEFINE r == [version |-> st.version, hash |-> x, map |-> st.map]
<1>2. [r EXCEPT !.map = y] = [version |-> st.version, hash |-> x, map |-> y]
  OBVIOUS
<1> QED BY <1>1, <1>2

\* A state whose map can be hashed.
Sound(st) == st \in States /\ MapOK(st.map)

\* The hash of a state is that of its map.
Exact(st) == st.hash = HashOf(st.map)

IsMutation(m) == m.op \in {"set", "remove"} /\ m.index \in Indexes /\ m.mac \in Macs

\* No other index has the value of m.
Fits(map, m) == \A j \in DOMAIN map : j # m.index => map[j] # m.mac

Mixed(map, m) == IF m.op = "set" THEN Put(map, m.index, m.mac) ELSE Without(map, m.index)

\* What becomes of a state into which m is mixed.
MixedFrom(st, m, r) ==
    /\ Sound(r)
    /\ r.version = st.version
    /\ r.map = Mixed(st.map, m)
    /\ Exact(st) => Exact(r)

\* Mixing a mutation leaves a map.
LEMMA MixedIsMap ==
  ASSUME NEW map, MapOK(map), NEW m, IsMutation(m), Fits(map, m)
  PROVE  MapOK(Mixed(map, m))
  BY PutIsMap, WithoutIsMap DEF Mixed, IsMutation, Fits

(* mix_mutation/2 and finish_lt_hash_generator/1, for one mutation.         *)
LEMMA MixesOne ==
  ASSUME NEW st, Sound(st), NEW m, IsMutation(m), Fits(st.map, m)
  PROVE  MixedFrom(st, m, Finished(st, Mix(Generator(st), m)))
<1> DEFINE map == st.map
           old == map[m.index]
           gen == Mix(Generator(st), m)
           new == Mixed(map, m)
<1>1. st = [version |-> st.version, hash |-> st.hash, map |-> map] /\ st.version \in Nat /\ st.hash \in Hashes
  BY DEF Sound, States
<1>2. MapOK(map)
  BY DEF Sound
<1>3. /\ gen.hash = st.hash /\ gen.map = new
      /\ gen.add = IF m.op = "set" THEN <<m.mac>> ELSE <<>>
      /\ gen.sub = IF m.index \in DOMAIN map THEN <<old>> ELSE <<>>
  BY DEF Mix, Generator, Mixed
<1>4. Finished(st, gen) = [version |-> st.version,
                           hash |-> SubtractThenAdd(gen.hash, gen.sub, gen.add), map |-> gen.map]
  <2> DEFINE x == SubtractThenAdd(gen.hash, gen.sub, gen.add)
             y == gen.map
  <2>1. Finished(st, gen) = [[st EXCEPT !.hash = x] EXCEPT !.map = y]
    BY DEF Finished
  <2>2. st \in States
    BY DEF Sound
  <2> HIDE DEF x, y, gen
  <2>3. [[st EXCEPT !.hash = x] EXCEPT !.map = y] = [version |-> st.version, hash |-> x, map |-> y]
    BY <2>2, Updated
  <2> QED BY <2>1, <2>3 DEF x, y
<1> HIDE DEF gen, new, old
<1>5. m.index \in DOMAIN map => old \in Macs /\ SubtractMac(st.hash, old) \in Hashes
  BY <1>1, <1>2, ValuesAreMacs, HashesClosed DEF old
<1>6. FoldLeft(SubtractMac, gen.hash, gen.sub)
         = IF m.index \in DOMAIN map THEN SubtractMac(st.hash, old) ELSE st.hash
  BY <1>1, <1>3, <1>5, SubtractsShort, SubtractsNothing
<1> DEFINE h == IF m.index \in DOMAIN map THEN SubtractMac(st.hash, old) ELSE st.hash
<1>7. h \in Hashes
  BY <1>1, <1>5
<1>8. SubtractThenAdd(gen.hash, gen.sub, gen.add) = IF m.op = "set" THEN AddMac(h, m.mac) ELSE h
  <2>1. SubtractThenAdd(gen.hash, gen.sub, gen.add) = FoldLeft(AddMac, h, gen.add)
    BY <1>6 DEF SubtractThenAdd
  <2> HIDE DEF h
  <2> QED BY <1>3, <1>7, <2>1, AddsShort DEF IsMutation
<1>9. ASSUME Exact(st) PROVE HashOf(new) = IF m.op = "set" THEN AddMac(h, m.mac) ELSE h
  <2>0. st.hash = HashOf(map)
    BY <1>9 DEF Exact
  <2>1. CASE m.op = "set"
    <3>1. \A j \in DOMAIN map : j # m.index => map[j] # m.mac
      BY DEF Fits
    <3>2. HashOf(Put(map, m.index, m.mac))
             = IF m.index \in DOMAIN map THEN AddMac(SubtractMac(HashOf(map), map[m.index]), m.mac)
               ELSE AddMac(HashOf(map), m.mac)
      BY <1>2, <3>1, HashFollowsPut DEF IsMutation
    <3> QED BY <2>0, <2>1, <3>2 DEF new, old, Mixed
  <2>2. CASE m.op # "set" /\ m.index \in DOMAIN map
    BY <1>2, <2>0, <2>2, HashFollowsWithout DEF new, old, Mixed
  <2>3. CASE m.op # "set" /\ m.index \notin DOMAIN map
    <3>1. Without(map, m.index) = map
      BY <1>2, <2>3, WithoutIsMap
    <3> QED BY <2>0, <2>3, <3>1 DEF new, Mixed
  <2> QED BY <2>1, <2>2, <2>3
<1>10. SubtractThenAdd(gen.hash, gen.sub, gen.add) \in Hashes
  <2> HIDE DEF h
  <2> QED BY <1>7, <1>8, HashesClosed DEF IsMutation
<1>11. MapOK(new) /\ new \in Maps
  BY <1>2, MixedIsMap DEF new, MapOK
<1> DEFINE e == Finished(st, gen)
<1>12. e.version = st.version /\ e.hash = SubtractThenAdd(gen.hash, gen.sub, gen.add) /\ e.map = new
  BY <1>3, <1>4
<1>13. Sound(e)
  BY <1>1, <1>3, <1>4, <1>10, <1>11 DEF Sound, States
<1>14. Exact(st) => Exact(e)
  <2> HIDE DEF e, h
  <2> QED BY <1>8, <1>9, <1>12 DEF Exact
<1> HIDE DEF e
<1> QED BY <1>12, <1>13, <1>14 DEF gen, new, e, MixedFrom

-----------------------------------------------------------------------------
(* Patches in the order of the server. *)

Rising(e) == \A n, k \in 1..Len(e) : n < k => e[n].mac < e[k].mac

\* What e has are some of the elements after the a-th of s up to the b-th, in order.
Part(s, a, b, e) ==
    /\ \A n \in 1..Len(e) : \E k \in (a + 1)..b : e[n] = s[k]
    /\ Rising(e)

\* Nothing is part of everything.
LEMMA PartEmpty ==
  ASSUME NEW s, NEW a, NEW b
  PROVE  Part(s, a, b, <<>>)
<1> DEFINE e == <<>>
<1>1. Len(e) = 0
  OBVIOUS
<1> HIDE DEF e
<1>2. 1..Len(e) = {}
  BY <1>1
<1>3. Part(s, a, b, e)
  BY <1>2 DEF Part, Rising
<1> QED BY <1>3 DEF e

\* The next one is a part.
LEMMA PartOne ==
  ASSUME NEW s, NEW v \in Nat
  PROVE  Part(s, v, v + 1, <<s[v + 1]>>) /\ Rising(<<s[v + 1]>>)
<1> DEFINE e == <<s[v + 1]>>
<1>1. Len(e) = 1 /\ e[1] = s[v + 1]
  OBVIOUS
<1> HIDE DEF e
<1>2. \A n \in 1..Len(e) : n = 1
  BY <1>1
<1>3. Rising(e)
  BY <1>2 DEF Rising
<1>4. v + 1 \in (v + 1)..(v + 1)
  OBVIOUS
<1>5. Part(s, v, v + 1, e)
  BY <1>1, <1>2, <1>3, <1>4 DEF Part
<1> QED BY <1>3, <1>5 DEF e

\* A part of a part is a part.
LEMMA PartOfPart ==
  ASSUME NEW s, NEW a, NEW b, NEW r, Part(s, a, b, r), NEW e, Part(r, 0, Len(r), e)
  PROVE  Part(s, a, b, e)
<1>1. ASSUME NEW n \in 1..Len(e) PROVE \E k \in (a + 1)..b : e[n] = s[k]
  <2>1. PICK j \in (0 + 1)..Len(r) : e[n] = r[j]
    BY DEF Part
  <2>2. j \in 1..Len(r)
    OBVIOUS
  <2> QED BY <2>1, <2>2 DEF Part
<1> QED BY <1>1 DEF Part

\* A part grows by a part that follows.
LEMMA PartJoins ==
  ASSUME NEW S, NEW s, Rising(s), NEW a \in Nat, NEW b \in Nat, NEW d \in Nat,
         a <= b, b <= d, Len(s) \in Nat, d <= Len(s),
         NEW e \in Seq(S), NEW f \in Seq(S), Part(s, a, b, e), Part(s, b, d, f)
  PROVE  Part(s, a, d, e \o f)
<1> DEFINE g == e \o f
           l == Len(e)
           j == Len(f)
<1>1. /\ l \in Nat /\ j \in Nat /\ Len(g) = l + j
      /\ \A n \in 1..l : g[n] = e[n]
      /\ \A n \in (l + 1)..(l + j) : g[n] = f[n - l]
  OBVIOUS
<1>2. /\ \A n \in 1..l : \E k \in (a + 1)..b : e[n] = s[k]
      /\ \A n \in 1..j : \E k \in (b + 1)..d : f[n] = s[k]
      /\ \A n, k \in 1..l : n < k => e[n].mac < e[k].mac
      /\ \A n, k \in 1..j : n < k => f[n].mac < f[k].mac
  BY DEF Part, Rising
<1> HIDE DEF g, l, j
<1>3. ASSUME NEW n \in 1..Len(g)
      PROVE  \/ n \in 1..l
             \/ n \notin 1..l /\ n \in (l + 1)..(l + j) /\ n - l \in 1..j
  BY <1>1
<1>4. ASSUME NEW n \in 1..Len(g) PROVE \E k \in (a + 1)..d : g[n] = s[k]
  <2>1. CASE n \in 1..l
    <3>1. PICK k \in (a + 1)..b : e[n] = s[k]
      BY <1>2, <2>1
    <3>2. k \in (a + 1)..d
      OBVIOUS
    <3> QED BY <1>1, <2>1, <3>1, <3>2
  <2>2. CASE n \in (l + 1)..(l + j) /\ n - l \in 1..j
    <3>1. PICK k \in (b + 1)..d : f[n - l] = s[k]
      BY <1>2, <2>2
    <3>2. k \in (a + 1)..d
      OBVIOUS
    <3> QED BY <1>1, <2>2, <3>1, <3>2
  <2> QED BY <1>3, <2>1, <2>2
<1>5. ASSUME NEW n \in 1..Len(g), NEW k \in 1..Len(g), n < k PROVE g[n].mac < g[k].mac
  <2>1. CASE k \in 1..l
    <3>1. n \in 1..l
      BY <1>1, <1>5, <2>1
    <3> QED BY <1>1, <1>2, <1>5, <2>1, <3>1
  <2>2. CASE n \notin 1..l
    <3>1. /\ n \in (l + 1)..(l + j) /\ n - l \in 1..j
          /\ k \in (l + 1)..(l + j) /\ k - l \in 1..j
          /\ n - l < k - l
      BY <1>1, <1>5, <2>2
    <3>2. f[n - l].mac < f[k - l].mac
      BY <1>2, <3>1
    <3> QED BY <1>1, <3>1, <3>2
  <2>3. CASE n \in 1..l /\ k \notin 1..l
    <3>1. k \in (l + 1)..(l + j) /\ k - l \in 1..j
      BY <1>3, <2>3
    <3>2. PICK x \in (a + 1)..b : e[n] = s[x]
      BY <1>2, <2>3
    <3>3. PICK y \in (b + 1)..d : f[k - l] = s[y]
      BY <1>2, <3>1
    <3>4. x \in 1..Len(s) /\ y \in 1..Len(s) /\ x < y
      OBVIOUS
    <3>5. s[x].mac < s[y].mac
      BY <3>4 DEF Rising
    <3>6. g[n] = s[x] /\ g[k] = s[y]
      BY <1>1, <2>3, <3>1, <3>2, <3>3
    <3> QED BY <3>5, <3>6
  <2> QED BY <2>1, <2>2, <2>3
<1>6. Rising(g)
  BY <1>5 DEF Rising
<1>7. Part(s, a, d, g)
  BY <1>4, <1>6 DEF Part
<1> QED BY <1>7 DEF g

\* One more at the end, newer than the others.
LEMMA PartAppends ==
  ASSUME NEW S, NEW s, Rising(s), NEW a \in Nat, NEW k \in Nat, a <= k, Len(s) \in Nat, k + 1 <= Len(s),
         NEW e \in Seq(S), Part(s, a, k, e), s[k + 1] \in S
  PROVE  Part(s, a, k + 1, Append(e, s[k + 1]))
<1> DEFINE m == s[k + 1]
<1>1. Part(s, k, k + 1, <<s[k + 1]>>)
  BY PartOne
<1>2. <<m>> \in Seq(S)
  OBVIOUS
<1>3. Append(e, m) = e \o <<m>>
  OBVIOUS
<1>4. k <= k + 1 /\ k + 1 \in Nat
  OBVIOUS
<1>5. Part(s, a, k + 1, e \o <<s[k + 1]>>)
  BY <1>1, <1>2, <1>4, PartJoins
<1> QED BY <1>3, <1>5

\* A part of what is shorter is a part of what is longer.
LEMMA PartWidens ==
  ASSUME NEW s, NEW a \in Nat, NEW b \in Nat, NEW d \in Nat, b <= d, NEW e, Part(s, a, b, e)
  PROVE  Part(s, a, d, e)
<1>1. ASSUME NEW n \in 1..Len(e) PROVE \E k \in (a + 1)..d : e[n] = s[k]
  <2>1. PICK k \in (a + 1)..b : e[n] = s[k]
    BY DEF Part
  <2>2. k \in (a + 1)..d
    OBVIOUS
  <2> QED BY <2>1, <2>2
<1> QED BY <1>1 DEF Part

-----------------------------------------------------------------------------
(* The server: what a collection amounts to at a version. *)

\* Every mutation has a MAC of its own, later than those before it.
ServerOK ==
    /\ server \in [Collections -> Seq(PatchType)]
    /\ IsFiniteSet(Accepted)
    /\ \A c \in Collections : \A n \in DOMAIN server[c] :
          server[c][n].mac \in 1..Cardinality(Accepted)
    /\ \A c, d \in Collections : \A n \in DOMAIN server[c], k \in DOMAIN server[d] :
          server[c][n].mac = server[d][k].mac => c = d /\ n = k
    /\ \A c \in Collections : Rising(server[c])

\* The patches of one collection.
LEMMA ServerTypes ==
  ASSUME ServerOK, NEW c \in Collections
  PROVE  /\ server[c] \in Seq(PatchType) /\ Len(server[c]) \in Nat
         /\ DOMAIN server[c] = 1..Len(server[c])
         /\ \A n \in 1..Len(server[c]) : server[c][n] \in PatchType
<1>1. server[c] \in Seq(PatchType)
  BY DEF ServerOK
<1> QED BY <1>1

\* LastAt is the last patch of an index.
LEMMA LastIs ==
  ASSUME NEW c, NEW i, NEW v \in Nat
  PROVE  /\ LastAt(c, i, v) \in 0..v
         /\ LastAt(c, i, v) > 0 => server[c][LastAt(c, i, v)].index = i
         /\ \A n \in 1..v : server[c][n].index = i => n <= LastAt(c, i, v) /\ LastAt(c, i, v) > 0
<1> DEFINE at == {n \in 1..v : server[c][n].index = i}
<1>1. CASE at = {}
  BY <1>1 DEF LastAt
<1>2. CASE at # {}
  <2>1. Max(at) \in at /\ \A y \in at : y <= Max(at)
    BY <1>2, MaxOfSome
  <2>2. LastAt(c, i, v) \in at /\ \A y \in at : y <= LastAt(c, i, v)
    BY <1>2, <2>1 DEF LastAt
  <2> QED BY <2>2
<1> QED BY <1>1, <1>2

\* No patch but the last is the last.
LEMMA LastIsOnly ==
  ASSUME NEW c, NEW i, NEW v \in Nat, NEW w \in 1..v, server[c][w].index = i,
         \A n \in 1..v : server[c][n].index = i => n <= w
  PROVE  LastAt(c, i, v) = w
  BY LastIs

\* One patch more changes the last of its own index only.
LEMMA LastNext ==
  ASSUME NEW c, NEW i, NEW v \in Nat
  PROVE  LastAt(c, i, v + 1) = IF server[c][v + 1].index = i THEN v + 1 ELSE LastAt(c, i, v)
<1>1. CASE server[c][v + 1].index = i
  BY <1>1, LastIsOnly
<1>2. CASE server[c][v + 1].index # i /\ LastAt(c, i, v) > 0
  BY <1>2, LastIs, LastIsOnly
<1>3. CASE server[c][v + 1].index # i /\ ~(LastAt(c, i, v) > 0)
  <2>1. LastAt(c, i, v + 1) \in 0..(v + 1) /\ LastAt(c, i, v) \in 0..v
    BY LastIs
  <2>2. \A n \in 1..v : server[c][n].index # i
    BY <1>3, LastIs
  <2>3. LastAt(c, i, v + 1) > 0 => server[c][LastAt(c, i, v + 1)].index = i
    BY LastIs
  <2> QED BY <1>3, <2>1, <2>2, <2>3
<1> QED BY <1>1, <1>2, <1>3

\* What a patch set last.
IsSet(c, i, v) == LastAt(c, i, v) > 0 /\ server[c][LastAt(c, i, v)].op = "set"

\* A mutation that this device skips, or its own removal, which it keeps.
Unlike(p) == p.broken # "no" \/ (p.own /\ p.op = "remove")

Astray(c, i, v) == LastAt(c, i, v) > 0 /\ Unlike(server[c][LastAt(c, i, v)])

\* What the patches amount to, index by index.
LEMMA TrueMapIs ==
  ASSUME NEW c, NEW v
  PROVE  /\ DOMAIN TrueMap(c, v) = {i \in Indexes : IsSet(c, i, v)}
         /\ \A i \in Indexes : IsSet(c, i, v) => TrueMap(c, v)[i] = server[c][LastAt(c, i, v)].mac
  BY DEF TrueMap, IsSet

\* A map whose values are those of mutations of c.
Known(c, map) ==
    \A i \in DOMAIN map : \E n \in DOMAIN server[c] :
        server[c][n].index = i /\ server[c][n].mac = map[i]

\* A map that has what the patches up to v amount to.
Agrees(c, map, v) ==
    \A i \in Indexes :
        \/ Astray(c, i, v)
        \/ /\ IsSet(c, i, v) <=> i \in DOMAIN map
           /\ IsSet(c, i, v) => map[i] = server[c][LastAt(c, i, v)].mac

\* A state of c as it should be: its hash is the map's until an own removal.
Held(c, st) ==
    /\ Sound(st)
    /\ Removed(c, st.version) \/ Exact(st)
    /\ st.version \in 0..Len(server[c])
    /\ Known(c, st.map)
    /\ Agrees(c, st.map, st.version)

\* A new state holds what no patches amount to.
LEMMA NewIsHeld ==
  ASSUME ServerOK, NEW c \in Collections
  PROVE  Held(c, NewState)
<1>1. NewState.version = 0 /\ NewState.hash = ZeroHash /\ NewState.map = <<>>
  BY DEF NewState
<1>2. MapOK(NewState.map) /\ NewState.hash = HashOf(NewState.map)
  BY <1>1, EmptyMap
<1>3. Sound(NewState)
  BY <1>2, ZeroIsHash DEF Sound, States, NewState, MapOK
<1>4. DOMAIN NewState.map = {}
  BY <1>1
<1>5. \A i : ~ (LastAt(c, i, 0) > 0)
  BY LastIs
<1> QED BY <1>1, <1>2, <1>3, <1>4, <1>5, ServerTypes DEF Held, Exact, Known, Agrees, IsSet

\* The next mutation of the server has a value no other index has.
LEMMA KnownFits ==
  ASSUME ServerOK, NEW c \in Collections, NEW map, Known(c, map), NEW n \in DOMAIN server[c]
  PROVE  Fits(map, server[c][n])
  BY DEF ServerOK, Known, Fits

\* A patch is a mutation.
LEMMA PatchIsMutation ==
  ASSUME NEW m \in PatchType
  PROVE  IsMutation(m)
  BY DEF PatchType, IsMutation

\* An own removal stays one.
LEMMA RemovedLasts ==
  ASSUME NEW c, NEW v \in Nat, Removed(c, v)
  PROVE  Removed(c, v + 1)
  BY DEF Removed

\* A map after the mutation, which may be skipped, or put back.
FollowsOne(map, m, new) ==
    \/ new = Mixed(map, m)
    \/ Unlike(m) /\ new \in {map, Put(Mixed(map, m), m.index, m.mac)}

\* After a mutation.
LEMMA AdvancesOne ==
  ASSUME ServerOK, NEW c \in Collections, NEW st, Held(c, st), st.version + 1 <= Len(server[c]),
         NEW r, r.version = st.version + 1, Sound(r),
         Exact(st) => Removed(c, r.version) \/ Exact(r),
         FollowsOne(st.map, server[c][st.version + 1], r.map)
  PROVE  Held(c, r)
<1> DEFINE v == st.version
           m == server[c][v + 1]
           map == st.map
           new == r.map
<1>1. v \in Nat /\ v + 1 \in 1..Len(server[c])
  BY ServerTypes DEF Held
<1>2. m \in PatchType /\ v + 1 \in DOMAIN server[c]
  BY <1>1, ServerTypes
<1>3. m.op \in {"set", "remove"} /\ m.index \in Indexes /\ m.mac \in Macs
  BY <1>2 DEF PatchType
<1>4. Known(c, map) /\ Agrees(c, map, v)
  BY DEF Held
<1> HIDE DEF map
<1>5. /\ Unlike(m) \/ (m.op = "set" <=> m.index \in DOMAIN new)
      /\ m.index \in DOMAIN new => \/ new[m.index] = m.mac
                                  \/ /\ Unlike(m) /\ m.index \in DOMAIN map
                                     /\ new[m.index] = map[m.index]
      /\ \A j : j # m.index => (j \in DOMAIN new <=> j \in DOMAIN map)
      /\ \A j \in DOMAIN map : j # m.index => new[j] = map[j]
  BY DEF FollowsOne, Mixed, Put, Without, map
<1> HIDE DEF new
<1>6. Known(c, new)
  BY <1>2, <1>4, <1>5 DEF Known
<1>7. ASSUME NEW i \in Indexes
      PROVE  \/ Astray(c, i, v + 1)
             \/ /\ IsSet(c, i, v + 1) <=> i \in DOMAIN new
                /\ IsSet(c, i, v + 1) => new[i] = server[c][LastAt(c, i, v + 1)].mac
  <2>1. LastAt(c, i, v + 1) = IF m.index = i THEN v + 1 ELSE LastAt(c, i, v)
    BY <1>1, LastNext
  <2>2. CASE m.index = i
    BY <1>1, <1>3, <1>5, <2>1, <2>2 DEF IsSet, Astray
  <2>3. CASE m.index # i
    BY <1>4, <1>5, <2>1, <2>3 DEF IsSet, Astray, Agrees
  <2> QED BY <2>2, <2>3
<1>8. Agrees(c, new, v + 1)
  BY <1>7 DEF Agrees
<1>9. Removed(c, r.version) \/ Exact(r)
  <2>1. Removed(c, v) => Removed(c, v + 1)
    BY <1>1, RemovedLasts
  <2> QED BY <2>1 DEF Held
<1> QED BY <1>1, <1>6, <1>8, <1>9 DEF Held, new, map

\* After a mutation that is skipped.
LEMMA AdvancesSkipped ==
  ASSUME ServerOK, NEW c \in Collections, NEW st, Held(c, st), st.version + 1 <= Len(server[c]),
         server[c][st.version + 1].broken # "no",
         NEW r, r.version = st.version + 1, Sound(r), r.map = st.map, r.hash = st.hash
  PROVE  Held(c, r)
<1>1. FollowsOne(st.map, server[c][st.version + 1], r.map)
  BY DEF FollowsOne, Unlike
<1>2. Exact(st) => Exact(r)
  BY DEF Exact
<1> QED BY <1>1, <1>2, AdvancesOne

-----------------------------------------------------------------------------
(* Mutations are decoded. *)

Gens == [hash : Hashes, map : Maps, sub : Seq(Macs), add : Seq(Macs)]

\* What decoding mutations of S goes through.
Accs(S) == [status : {"ok", "missing", "broken"}, key : Keys \union {None}, gen : Gens, events : Seq(S)]

Decoded(b, s, held) == FoldLeft(LAMBDA acc, m : DecodeMutation(acc, m, held), b, s)

\* Put has its type.
LEMMA PutType ==
  ASSUME NEW map \in Maps, NEW i \in Indexes, NEW m \in Macs
  PROVE  Put(map, i, m) \in Maps
<1>1. PICK d \in SUBSET Indexes : map \in [d -> Macs]
  BY DEF Maps
<1>2. Put(map, i, m) \in [d \union {i} -> Macs] /\ d \union {i} \in SUBSET Indexes
  BY <1>1 DEF Put
<1> QED BY <1>2 DEF Maps

\* Without has its type.
LEMMA WithoutType ==
  ASSUME NEW map \in Maps, NEW i
  PROVE  Without(map, i) \in Maps
<1>1. PICK d \in SUBSET Indexes : map \in [d -> Macs]
  BY DEF Maps
<1>2. Without(map, i) \in [d \ {i} -> Macs] /\ d \ {i} \in SUBSET Indexes
  BY <1>1 DEF Without
<1> QED BY <1>2 DEF Maps

\* What a map has of an index is a MAC.
LEMMA MapType ==
  ASSUME NEW map \in Maps, NEW i \in DOMAIN map
  PROVE  map[i] \in Macs
<1>1. PICK d \in SUBSET Indexes : map \in [d -> Macs]
  BY DEF Maps
<1> QED BY <1>1

\* A generator stays one.
LEMMA MixType ==
  ASSUME NEW gen \in Gens, NEW m \in PatchType
  PROVE  Mix(gen, m) \in Gens
<1>1. m.op \in {"set", "remove"} /\ m.index \in Indexes /\ m.mac \in Macs
  BY DEF PatchType
<1>2. gen.map \in Maps /\ gen.sub \in Seq(Macs) /\ gen.add \in Seq(Macs)
  BY DEF Gens
<1> DEFINE x == IF m.op = "set" THEN Put(gen.map, m.index, m.mac) ELSE Without(gen.map, m.index)
           y == IF m.op = "set" THEN Append(gen.add, m.mac) ELSE gen.add
           z == IF m.index \in DOMAIN gen.map THEN Append(gen.sub, gen.map[m.index]) ELSE gen.sub
<1>3. x \in Maps
  BY <1>1, <1>2, PutType, WithoutType
<1>4. y \in Seq(Macs)
  BY <1>1, <1>2
<1>5. z \in Seq(Macs)
  BY <1>2, MapType
<1>6. Mix(gen, m) = [gen EXCEPT !.map = x, !.add = y, !.sub = z]
  BY DEF Mix
<1> HIDE DEF x, y, z
<1> QED BY <1>3, <1>4, <1>5, <1>6 DEF Gens

\* decode_single_mutation/5 has its type.
LEMMA DecodeType ==
  ASSUME NEW held, NEW S, S \subseteq PatchType, NEW a \in Accs(S), NEW m \in S
  PROVE  DecodeMutation(a, m, held) \in Accs(S)
<1>1. m \in PatchType /\ m.key \in Keys /\ m.broken \in {"no", "record", "index"}
  BY DEF PatchType
<1>2. a.gen \in Gens /\ a.events \in Seq(S)
  BY DEF Accs
<1>3. Mix(a.gen, m) \in Gens
  BY <1>1, <1>2, MixType
<1>4. Append(a.events, m) \in Seq(S)
  BY <1>2
<1> DEFINE x == Mix(a.gen, m)
           y == Append(a.events, m)
<1>5. \/ DecodeMutation(a, m, held) = a
      \/ DecodeMutation(a, m, held) = [a EXCEPT !.status = "missing", !.key = m.key]
      \/ DecodeMutation(a, m, held) = [a EXCEPT !.status = "broken"]
      \/ DecodeMutation(a, m, held) = [a EXCEPT !.gen = x, !.events = y]
  BY <1>1 DEF DecodeMutation
<1> HIDE DEF x, y
<1>6. x \in Gens /\ y \in Seq(S)
  BY <1>3, <1>4 DEF x, y
<1> QED BY <1>1, <1>5, <1>6 DEF Accs

MutationsInTurn(held, b, s) ==
    \E g : /\ g[0] = b
           /\ \A k \in 1..Len(s) : g[k] = DecodeMutation(g[k - 1], s[k], held)
           /\ Decoded(b, s, held) = g[Len(s)]

(* Mutations are decoded one after the other.                                   *)
LEMMA DecodesInTurn ==
  ASSUME NEW held, NEW S, NEW b \in Accs(S), NEW s \in Seq(S),
         \A a \in Accs(S), x \in S : DecodeMutation(a, x, held) \in Accs(S)
  PROVE  MutationsInTurn(held, b, s)
<1> DEFINE F == [p \in Accs(S) \X S |-> DecodeMutation(p[1], p[2], held)]
           D == DOMAIN s
           Eq(it) == it = [t \in SUBSET D |-> IF t = {} THEN b ELSE DecodeMutation(it[t \ {Max(t)}], s[Max(t)], held)]
           j == CHOOSE it : Eq(it)
           R == Decoded(b, s, held)
<1>1. /\ F \in [Accs(S) \X S -> Accs(S)]
      /\ \A a \in Accs(S), x \in S : F[<<a, x>>] = DecodeMutation(a, x, held)
  OBVIOUS
<1> HIDE DEF F
<1>2. PICK it \in [SUBSET (1..Len(s)) -> Accs(S)] : IsTable(it, Len(s), F, b, s)
  BY <1>1, TableExists DEF HasTable
<1>3. Len(s) \in Nat /\ D = 1..Len(s)
  OBVIOUS
<1>4. ASSUME NEW t \in SUBSET D
      PROVE  it[t] = IF t = {} THEN b ELSE DecodeMutation(it[t \ {Max(t)}], s[Max(t)], held)
  <2>1. CASE t # {}
    <3>1. Max(t) \in D /\ t \ {Max(t)} \in SUBSET (1..Len(s))
      BY <1>3, <2>1, MaxOfSome
    <3>2. it[t \ {Max(t)}] \in Accs(S) /\ s[Max(t)] \in S
      BY <1>2, <3>1
    <3> QED BY <1>1, <1>2, <1>3, <2>1, <3>2 DEF IsTable
  <2> QED BY <1>2, <1>3, <2>1 DEF IsTable
<1>5. Eq(it)
  BY <1>2, <1>3, <1>4
<1>6. Eq(j)
  BY <1>5
<1>7. R = j[D]
  BY DEF Decoded, FoldLeft, MapThenFoldSet
<1> HIDE DEF j, D, R
<1> DEFINE g == [k \in 0..Len(s) |-> j[1..k]]
<1>8. g[0] = b
  BY <1>3, <1>6
<1>9. ASSUME NEW k \in 1..Len(s) PROVE g[k] = DecodeMutation(g[k - 1], s[k], held)
  <2>1. 1..k \in SUBSET D /\ 1..k # {} /\ Max(1..k) = k /\ (1..k) \ {k} = 1..(k - 1)
    BY <1>3, PrefixSets
  <2>2. j[1..k] = DecodeMutation(j[1..(k - 1)], s[k], held)
    BY <1>6, <2>1
  <2> QED BY <1>3, <2>2
<1>10. R = g[Len(s)]
  BY <1>3, <1>7
<1> HIDE DEF g
<1>11. \E f : f[0] = b /\ (\A k \in 1..Len(s) : f[k] = DecodeMutation(f[k - 1], s[k], held)) /\ R = f[Len(s)]
  BY <1>8, <1>9, <1>10
<1> QED BY <1>11 DEF R, MutationsInTurn

-----------------------------------------------------------------------------
(* What is decoded has its type. *)

\* Adding values gives a hash.
LEMMA AddsType ==
  ASSUME NEW h \in Hashes, NEW s \in Seq(Macs)
  PROVE  FoldLeft(AddMac, h, s) \in Hashes
<1>0. Len(s) \in Nat /\ \A k \in 1..Len(s) : s[k] \in Macs
  OBVIOUS
<1>1. \A a \in Hashes, x \in Macs : AddMac(a, x) \in Hashes
  BY HashesClosed
<1>2. PICK g : /\ g[0] = h
               /\ \A k \in 1..Len(s) : g[k] = AddMac(g[k - 1], s[k])
               /\ FoldLeft(AddMac, h, s) = g[Len(s)]
  BY <1>1, AddsInTurn
<1> DEFINE P == {k \in Nat : k <= Len(s) => g[k] \in Hashes}
<1>3. 0 \in P
  BY <1>2
<1>4. ASSUME NEW k \in Nat, k \in P PROVE k + 1 \in P
  <2> SUFFICES ASSUME k + 1 <= Len(s) PROVE g[k + 1] \in Hashes
    OBVIOUS
  <2>1. g[k] \in Hashes /\ k + 1 \in 1..Len(s)
    BY <1>0, <1>4
  <2>2. g[k + 1] = AddMac(g[k], s[k + 1])
    BY <1>2, <2>1
  <2> QED BY <1>0, <1>1, <2>1, <2>2
<1>5. \A k \in Nat : k \in P => k + 1 \in P
  BY <1>4
<1> HIDE DEF P
<1>6. \A k \in Nat : k \in P
  BY <1>3, <1>5, Induct
<1> QED BY <1>0, <1>2, <1>6 DEF P

\* Subtracting values gives a hash.
LEMMA SubtractsType ==
  ASSUME NEW h \in Hashes, NEW s \in Seq(Macs)
  PROVE  FoldLeft(SubtractMac, h, s) \in Hashes
<1>0. Len(s) \in Nat /\ \A k \in 1..Len(s) : s[k] \in Macs
  OBVIOUS
<1>1. \A a \in Hashes, x \in Macs : SubtractMac(a, x) \in Hashes
  BY HashesClosed
<1>2. PICK g : /\ g[0] = h
               /\ \A k \in 1..Len(s) : g[k] = SubtractMac(g[k - 1], s[k])
               /\ FoldLeft(SubtractMac, h, s) = g[Len(s)]
  BY <1>1, SubtractsInTurn
<1> DEFINE P == {k \in Nat : k <= Len(s) => g[k] \in Hashes}
<1>3. 0 \in P
  BY <1>2
<1>4. ASSUME NEW k \in Nat, k \in P PROVE k + 1 \in P
  <2> SUFFICES ASSUME k + 1 <= Len(s) PROVE g[k + 1] \in Hashes
    OBVIOUS
  <2>1. g[k] \in Hashes /\ k + 1 \in 1..Len(s)
    BY <1>0, <1>4
  <2>2. g[k + 1] = SubtractMac(g[k], s[k + 1])
    BY <1>2, <2>1
  <2> QED BY <1>0, <1>1, <2>1, <2>2
<1>5. \A k \in Nat : k \in P => k + 1 \in P
  BY <1>4
<1> HIDE DEF P
<1>6. \A k \in Nat : k \in P
  BY <1>3, <1>5, Induct
<1> QED BY <1>0, <1>2, <1>6 DEF P

\* decode_syncd_mutations_reduce/6, in turn, has its type.
LEMMA DecodedType ==
  ASSUME NEW held, NEW S, S \subseteq PatchType, NEW b \in Accs(S), NEW s \in Seq(S)
  PROVE  Decoded(b, s, held) \in Accs(S)
<1>0. Len(s) \in Nat /\ \A k \in 1..Len(s) : s[k] \in S
  OBVIOUS
<1>1. \A a \in Accs(S), x \in S : DecodeMutation(a, x, held) \in Accs(S)
  BY DecodeType
<1>2. PICK g : /\ g[0] = b
               /\ \A k \in 1..Len(s) : g[k] = DecodeMutation(g[k - 1], s[k], held)
               /\ Decoded(b, s, held) = g[Len(s)]
  BY <1>1, DecodesInTurn DEF MutationsInTurn
<1> DEFINE P == {k \in Nat : k <= Len(s) => g[k] \in Accs(S)}
<1>3. 0 \in P
  BY <1>2
<1>4. ASSUME NEW k \in Nat, k \in P PROVE k + 1 \in P
  <2> SUFFICES ASSUME k + 1 <= Len(s) PROVE g[k + 1] \in Accs(S)
    OBVIOUS
  <2>1. g[k] \in Accs(S) /\ k + 1 \in 1..Len(s)
    BY <1>0, <1>4
  <2>2. g[k + 1] = DecodeMutation(g[k], s[k + 1], held)
    BY <1>2, <2>1
  <2> QED BY <1>0, <1>1, <2>1, <2>2
<1>5. \A k \in Nat : k \in P => k + 1 \in P
  BY <1>4
<1> HIDE DEF P
<1>6. \A k \in Nat : k \in P
  BY <1>3, <1>5, Induct
<1> QED BY <1>0, <1>2, <1>6 DEF P

\* finish_lt_hash_generator/1 gives a state.
LEMMA FinishedType ==
  ASSUME NEW st \in States, NEW gen \in Gens
  PROVE  /\ Finished(st, gen) \in States
         /\ Finished(st, gen) = [version |-> st.version,
                                 hash |-> SubtractThenAdd(gen.hash, gen.sub, gen.add),
                                 map |-> gen.map]
<1> DEFINE x == SubtractThenAdd(gen.hash, gen.sub, gen.add)
           y == gen.map
<1>1. Finished(st, gen) = [[st EXCEPT !.hash = x] EXCEPT !.map = y]
  BY DEF Finished
<1>2. x \in Hashes /\ y \in Maps
  BY AddsType, SubtractsType DEF SubtractThenAdd, Gens
<1> HIDE DEF x, y
<1>3. [[st EXCEPT !.hash = x] EXCEPT !.map = y] = [version |-> st.version, hash |-> x, map |-> y]
  BY Updated
<1>4. st.version \in Nat
  BY DEF States
<1> QED BY <1>1, <1>2, <1>3, <1>4 DEF States, x, y

\* Where decode_syncd_mutations_reduce/6 begins.
Begun(st) == [status |-> "ok", key |-> None, gen |-> Generator(st), events |-> <<>>]

\* What the reduction begins with.
LEMMA BegunType ==
  ASSUME NEW S, NEW st \in States
  PROVE  /\ Begun(st) \in Accs(S)
         /\ Begun(st).status = "ok" /\ Begun(st).key = None /\ Begun(st).events = <<>>
         /\ Begun(st).gen = Generator(st)
         /\ Generator(st) = [hash |-> st.hash, map |-> st.map, sub |-> <<>>, add |-> <<>>]
<1>1. st.hash \in Hashes /\ st.map \in Maps
  BY DEF States
<1> QED BY <1>1 DEF Begun, Accs, Gens, Generator

\* The fold is the one taken in turn.
LEMMA DecodeMutationsIs ==
  ASSUME NEW s, NEW st, NEW held
  PROVE  DecodeMutations(s, st, held)
           = [status |-> Decoded(Begun(st), s, held).status, key |-> Decoded(Begun(st), s, held).key,
              events |-> IF Decoded(Begun(st), s, held).status = "ok"
                         THEN Decoded(Begun(st), s, held).events ELSE <<>>,
              state  |-> IF Decoded(Begun(st), s, held).status = "ok"
                         THEN Finished(st, Decoded(Begun(st), s, held).gen) ELSE st]
  BY DEF DecodeMutations, Decoded, Begun

\* What reading gives: of mutations of S.
Results(S) == [status : {"ok", "missing", "broken", "stop"}, key : Keys \union {None},
               state : States, events : Seq(S)]

\* What decoding mutations gives.
LEMMA DecodeMutationsType ==
  ASSUME NEW held, NEW S, S \subseteq PatchType, NEW st \in States, NEW s \in Seq(S)
  PROVE  /\ DecodeMutations(s, st, held) \in Results(S)
         /\ DecodeMutations(s, st, held).status # "stop"
         /\ DecodeMutations(s, st, held).state.version = st.version
<1> DEFINE a == Decoded(Begun(st), s, held)
<1>1. a \in Accs(S)
  BY BegunType, DecodedType
<1>2. DecodeMutations(s, st, held)
        = [status |-> a.status, key |-> a.key, events |-> IF a.status = "ok" THEN a.events ELSE <<>>,
           state |-> IF a.status = "ok" THEN Finished(st, a.gen) ELSE st]
  BY DecodeMutationsIs
<1> HIDE DEF a
<1>3. a.gen \in Gens /\ a.events \in Seq(S) /\ a.key \in Keys \union {None} /\ a.status \in {"ok", "missing", "broken"}
  BY <1>1 DEF Accs
<1>4. <<>> \in Seq(S)
  OBVIOUS
<1> DEFINE e == IF a.status = "ok" THEN a.events ELSE <<>>
           f == IF a.status = "ok" THEN Finished(st, a.gen) ELSE st
<1>5. e \in Seq(S) /\ f \in States /\ f.version = st.version
  BY <1>3, <1>4, FinishedType
<1> HIDE DEF e, f
<1>6. DecodeMutations(s, st, held) = [status |-> a.status, key |-> a.key, events |-> e, state |-> f]
  BY <1>2 DEF e, f
<1> QED BY <1>3, <1>5, <1>6 DEF Results

\* The mutations that are emitted come in the order they are read in.
LEMMA DecodesPart ==
  ASSUME NEW held, NEW s \in Seq(PatchType), Rising(s), NEW st \in States
  PROVE  Part(s, 0, Len(s), DecodeMutations(s, st, held).events)
<1> DEFINE b == Begun(st)
           S == PatchType
           R == Decoded(b, s, held)
<1>0. Len(s) \in Nat /\ \A k \in 1..Len(s) : s[k] \in S
  OBVIOUS
<1>1. b \in Accs(S) /\ b.events = <<>>
  BY BegunType
<1>2. \A a \in Accs(S), x \in S : DecodeMutation(a, x, held) \in Accs(S)
  BY DecodeType
<1>3. DecodeMutations(s, st, held).events = IF R.status = "ok" THEN R.events ELSE <<>>
  BY DecodeMutationsIs
<1> HIDE DEF b, R
<1>4. PICK g : /\ g[0] = b
               /\ \A k \in 1..Len(s) : g[k] = DecodeMutation(g[k - 1], s[k], held)
               /\ Decoded(b, s, held) = g[Len(s)]
  <2> HIDE DEF S
  <2>1. s \in Seq(S)
    BY DEF S
  <2>2. MutationsInTurn(held, b, s)
    BY <1>1, <1>2, <2>1, DecodesInTurn
  <2> QED BY <2>2 DEF MutationsInTurn
<1> DEFINE P == {k \in Nat : k <= Len(s) => g[k] \in Accs(S) /\ Part(s, 0, k, g[k].events)}
<1>5. 0 \in P
  <2>1. Part(s, 0, 0, <<>>)
    BY PartEmpty
  <2> QED BY <1>1, <1>4, <2>1
<1>6. ASSUME NEW k \in Nat, k \in P PROVE k + 1 \in P
  <2> SUFFICES ASSUME k + 1 <= Len(s)
               PROVE  g[k + 1] \in Accs(S) /\ Part(s, 0, k + 1, g[k + 1].events)
    OBVIOUS
  <2> DEFINE a == g[k]
             r == g[k + 1]
             m == s[k + 1]
  <2>1. a \in Accs(S) /\ Part(s, 0, k, a.events) /\ k + 1 \in 1..Len(s) /\ m \in S
    BY <1>0, <1>6
  <2>2. r = DecodeMutation(a, m, held)
    <3>1. g[k + 1] = DecodeMutation(g[k + 1 - 1], s[k + 1], held) /\ k + 1 - 1 = k
      BY <1>4, <2>1
    <3> QED BY <3>1
  <2>3. r \in Accs(S)
    BY <1>2, <2>1, <2>2
  <2> HIDE DEF a, r, P
  <2>4. a.status \in {"ok", "missing", "broken"} /\ m.broken \in {"no", "record", "index"} /\ a.events \in Seq(S)
    BY <2>1 DEF Accs, PatchType
  <2> HIDE DEF m, S
  <2>5. r.events = a.events \/ r.events = Append(a.events, m)
    BY <2>1, <2>2, <2>4 DEF DecodeMutation, Accs
  <2>6. Part(s, 0, k + 1, a.events)
    <3>1. 0 \in Nat /\ k + 1 \in Nat /\ k <= k + 1
      OBVIOUS
    <3> QED BY <2>1, <3>1, PartWidens
  <2>7. Part(s, 0, k + 1, Append(a.events, m))
    <3> DEFINE e == a.events
    <3>1. e \in Seq(S) /\ Part(s, 0, k, e) /\ s[k + 1] \in S /\ 0 \in Nat /\ 0 <= k /\ Len(s) \in Nat
      BY <1>0, <2>1, <2>4 DEF m
    <3> HIDE DEF e
    <3>2. Part(s, 0, k + 1, Append(e, s[k + 1]))
      BY <3>1, PartAppends
    <3> QED BY <3>2 DEF e, m
  <2> QED BY <2>3, <2>5, <2>6, <2>7 DEF r, S
<1>7. \A k \in Nat : k \in P => k + 1 \in P
  BY <1>6
<1> HIDE DEF P
<1>8. \A k \in Nat : k \in P
  BY <1>5, <1>7, Induct
<1>9. Part(s, 0, Len(s), g[Len(s)].events)
  BY <1>0, <1>8 DEF P
<1>10. Part(s, 0, Len(s), <<>>)
  BY PartEmpty
<1> QED BY <1>3, <1>4, <1>9, <1>10 DEF R

-----------------------------------------------------------------------------
(* One patch is decoded. *)

\* The version is not part of the hash.
LEMMA SoundAt ==
  ASSUME NEW st, Sound(st), NEW v \in Nat
  PROVE  /\ Sound([st EXCEPT !.version = v])
         /\ [st EXCEPT !.version = v].version = v
         /\ [st EXCEPT !.version = v].map = st.map
         /\ [st EXCEPT !.version = v].hash = st.hash
  BY DEF Sound, States

\* At another version a state is a state.
LEMMA TypeAt ==
  ASSUME NEW st \in States, NEW v \in Nat
  PROVE  [st EXCEPT !.version = v] \in States /\ [st EXCEPT !.version = v].version = v
  BY DEF States

\* A generator without a mutation changes nothing.
LEMMA NothingMixed ==
  ASSUME NEW st, Sound(st)
  PROVE  Finished(st, Generator(st)) = st
<1>1. st \in States /\ st.hash \in Hashes
  BY DEF Sound, States
<1>2. Generator(st) \in Gens
  BY <1>1, BegunType DEF Accs
<1>3. Generator(st).hash = st.hash /\ Generator(st).sub = <<>> /\ Generator(st).add = <<>> /\ Generator(st).map = st.map
  BY DEF Generator
<1>4. FoldLeft(SubtractMac, st.hash, <<>>) = st.hash
  BY <1>1, SubtractsNothing
<1>5. FoldLeft(AddMac, st.hash, <<>>) = st.hash
  BY <1>1, AddsNothing
<1>6. Finished(st, Generator(st)) = [version |-> st.version, hash |-> st.hash, map |-> st.map]
  BY <1>1, <1>2, <1>3, <1>4, <1>5, FinishedType DEF SubtractThenAdd
<1> QED BY <1>1, <1>6 DEF States

\* The reading of a single mutation.
LEMMA DecodedOne ==
  ASSUME NEW held, NEW st, Sound(st), NEW m \in PatchType, Fits(st.map, m),
         NEW d, d = DecodeMutations(<<m>>, st, held)
  PROVE  /\ m.key \notin held => d.status = "missing"
         /\ m.key \in held /\ m.broken = "index" => d.status = "broken"
         /\ m.key \in held /\ m.broken = "record" => d.status = "ok" /\ d.state = st
         /\ m.key \in held /\ m.broken = "no" =>
               d.status = "ok" /\ MixedFrom(st, m, d.state)
         /\ d.status \in {"ok", "missing", "broken"}
<1> DEFINE s == <<m>>
           b == Begun(st)
           M == {m}
<1>1. s \in Seq(M) /\ Len(s) = 1 /\ s[1] = m
  OBVIOUS
<1>2. st \in States /\ M \subseteq PatchType
  BY DEF Sound
<1>3. b \in Accs(M) /\ b.status = "ok" /\ b.gen = Generator(st)
  BY <1>2, BegunType
<1>4. d = [status |-> Decoded(b, s, held).status, key |-> Decoded(b, s, held).key,
           events |-> IF Decoded(b, s, held).status = "ok" THEN Decoded(b, s, held).events ELSE <<>>,
           state  |-> IF Decoded(b, s, held).status = "ok" THEN Finished(st, Decoded(b, s, held).gen) ELSE st]
  BY DecodeMutationsIs
<1>0. m \in M
  OBVIOUS
<1> HIDE DEF s, b, M
<1>5. \A a \in Accs(M), x \in M : DecodeMutation(a, x, held) \in Accs(M)
  BY <1>2, DecodeType
<1>6. PICK g : /\ g[0] = b
               /\ \A k \in 1..Len(s) : g[k] = DecodeMutation(g[k - 1], s[k], held)
               /\ Decoded(b, s, held) = g[Len(s)]
  BY <1>1, <1>3, <1>5, DecodesInTurn DEF MutationsInTurn
<1>7. Decoded(b, s, held) = DecodeMutation(b, m, held)
  <2>1. g[1] = DecodeMutation(g[1 - 1], s[1], held) /\ 1 - 1 = 0
    BY <1>1, <1>6
  <2> QED BY <1>1, <1>6, <2>1
<1>8. m.broken \in {"no", "record", "index"}
  BY DEF PatchType
<1> DEFINE a == DecodeMutation(b, m, held)
<1>9. a \in Accs(M)
  BY <1>0, <1>3, <1>5
<1>10. /\ m.key \notin held => a.status = "missing"
       /\ m.key \in held /\ m.broken = "index" => a.status = "broken"
       /\ m.key \in held /\ m.broken = "record" => a = b
       /\ m.key \in held /\ m.broken = "no" => a.status = "ok" /\ a.gen = Mix(b.gen, m)
  BY <1>3, <1>8 DEF DecodeMutation, Accs
<1> HIDE DEF a
<1>11. d.status = a.status /\ (a.status = "ok" => d.state = Finished(st, a.gen))
  BY <1>4, <1>7 DEF a
<1>12. Finished(st, Generator(st)) = st
  BY NothingMixed
<1>13. MixedFrom(st, m, Finished(st, Mix(Generator(st), m)))
  BY PatchIsMutation, MixesOne
<1>14. a.status \in {"ok", "missing", "broken"}
  BY <1>9 DEF Accs
<1> QED BY <1>3, <1>10, <1>11, <1>12, <1>13, <1>14

\* A page of patches, of mutations of S.
Pages(S) == [version : Nat, claim : Hashes, mutations : Seq(S)]

\* Leaving the events out leaves the state.
LEMMA EventsType ==
  ASSUME NEW S, NEW r \in Results(S), NEW wanted \in BOOLEAN
  PROVE  /\ WithEvents(r, wanted) \in Results(S)
         /\ WithEvents(r, wanted).status = r.status
         /\ WithEvents(r, wanted).state = r.state
         /\ WithEvents(r, wanted).key = r.key
<1>1. <<>> \in Seq(S)
  OBVIOUS
<1> QED BY <1>1 DEF WithEvents, Results

\* The step of decode_patches/7.
PatchStep(was, patch, minimum, held, validate) ==
    IF was.status = "ok" THEN DecodePatch(was, patch, minimum, held, validate) ELSE was

\* The state at the version of a patch, and its mutations read there.
PatchState(was, patch) == [was.state EXCEPT !.version = patch.version]

PatchRead(was, patch, held) == DecodeMutations(patch.mutations, PatchState(was, patch), held)

\* The reading has gone on with e, or without.
Emits(was, r, e) == r.events \in {was.events, was.events \o e}

\* Where a patch leaves the reading.
LEMMA DecodePatchIs ==
  ASSUME NEW S, S \subseteq PatchType, NEW was \in Results(S), NEW patch \in Pages(S),
         NEW minimum, NEW held, NEW validate,
         NEW r, r = DecodePatch(was, patch, minimum, held, validate)
  PROVE  /\ r \in Results(S)
         /\ PatchRead(was, patch, held).status \in {"ok", "missing", "broken"}
         /\ PatchRead(was, patch, held).status = "missing" => r.status = "missing"
         /\ PatchRead(was, patch, held).status = "broken" =>
               r.status = was.status /\ r.state = PatchState(was, patch) /\ r.events = was.events
         /\ PatchRead(was, patch, held).status = "ok" =>
               /\ r.status \in {"ok", "stop"} /\ r.state = PatchRead(was, patch, held).state
               /\ Emits(was, r, PatchRead(was, patch, held).events)
         /\ PatchRead(was, patch, held).state.version = patch.version
         /\ PatchState(was, patch).version = patch.version
<1> DEFINE st == PatchState(was, patch)
           d == PatchRead(was, patch, held)
<1>1. /\ was.state \in States /\ patch.version \in Nat /\ was.events \in Seq(S)
      /\ patch.mutations \in Seq(S)
  BY DEF Results, Pages
<1>2. st \in States /\ st.version = patch.version
  BY <1>1, TypeAt DEF PatchState
<1> HIDE DEF st
<1>3. /\ d \in Results(S) /\ d.status # "stop" /\ d.state.version = st.version
  <2> DEFINE s == patch.mutations
  <2>1. s \in Seq(S)
    BY <1>1
  <2> HIDE DEF s
  <2>2. /\ DecodeMutations(s, st, held) \in Results(S)
        /\ DecodeMutations(s, st, held).status # "stop"
        /\ DecodeMutations(s, st, held).state.version = st.version
    <3>1. st \in States
      BY <1>2
    <3> QED BY <2>1, <3>1, DecodeMutationsType
  <2> QED BY <2>2 DEF s, st, PatchRead
<1> HIDE DEF d
<1> DEFINE e == WithEvents(d, Newer(patch.version, minimum))
           x == was.events \o e.events
           y == IF validate /\ patch.claim # e.state.hash THEN "stop" ELSE "ok"
<1>4. e \in Results(S) /\ e.status = d.status /\ e.state = d.state
  <2>1. CASE Newer(patch.version, minimum)
    BY <1>3, <2>1 DEF WithEvents
  <2>2. CASE ~Newer(patch.version, minimum)
    <3>1. <<>> \in Seq(S)
      OBVIOUS
    <3> QED BY <1>3, <2>2, <3>1 DEF WithEvents, Results
  <2> QED BY <2>1, <2>2
<1>5. /\ e.status = "missing" => r = [e EXCEPT !.events = was.events]
      /\ e.status = "broken" => r = [was EXCEPT !.state = st]
      /\ e.status = "ok" => r = [e EXCEPT !.events = x, !.status = y]
  BY DEF DecodePatch, PatchRead, PatchState, d, st
<1>6. x \in Seq(S)
  <2>1. e.events \in Seq(S)
    BY <1>4 DEF Results
  <2> HIDE DEF e
  <2> QED BY <1>1, <2>1
<1>12. x \in {was.events, was.events \o d.events}
  <2>1. e.events = d.events \/ e.events = <<>>
    BY <1>3 DEF WithEvents, Results
  <2>2. was.events \o <<>> = was.events
    BY <1>1
  <2> HIDE DEF e
  <2> QED BY <2>1, <2>2
<1>7. y \in {"ok", "stop"}
  OBVIOUS
<1>8. e.status \in {"ok", "missing", "broken"}
  BY <1>3, <1>4 DEF Results
<1> HIDE DEF e, x, y
<1>9. e.status = "missing" => r \in Results(S) /\ r.status = "missing"
  BY <1>1, <1>4, <1>5 DEF Results
<1>10. e.status = "broken" => r \in Results(S) /\ r.status = was.status /\ r.state = st /\ r.events = was.events
  BY <1>2, <1>5 DEF Results
<1>11. e.status = "ok" => r \in Results(S) /\ r.status = y /\ r.state = e.state /\ r.events = x
  BY <1>4, <1>5, <1>6, <1>7 DEF Results
<1> QED BY <1>2, <1>3, <1>4, <1>7, <1>8, <1>9, <1>10, <1>11, <1>12 DEF d, st, Emits

DecodedPatches(b, s, minimum, held, validate) ==
    FoldLeft(LAMBDA was, patch :
                 IF was.status = "ok" THEN DecodePatch(was, patch, minimum, held, validate)
                 ELSE was, b, s)

(* Patches are decoded one after the other.                                     *)
LEMMA PatchesInTurn ==
  ASSUME NEW minimum, NEW held, NEW validate, NEW S, NEW b \in Results(S), NEW s \in Seq(Pages(S)),
         \A a \in Results(S), x \in Pages(S) : PatchStep(a, x, minimum, held, validate) \in Results(S)
  PROVE  \E g : /\ g[0] = b
                /\ \A k \in 1..Len(s) : g[k] = PatchStep(g[k - 1], s[k], minimum, held, validate)
                /\ DecodedPatches(b, s, minimum, held, validate) = g[Len(s)]
<1> DEFINE F == [p \in Results(S) \X Pages(S) |-> PatchStep(p[1], p[2], minimum, held, validate)]
           D == DOMAIN s
           Eq(it) == it = [t \in SUBSET D |-> IF t = {} THEN b ELSE PatchStep(it[t \ {Max(t)}], s[Max(t)], minimum, held, validate)]
           j == CHOOSE it : Eq(it)
           R == DecodedPatches(b, s, minimum, held, validate)
<1>1. /\ F \in [Results(S) \X Pages(S) -> Results(S)]
      /\ \A a \in Results(S), x \in Pages(S) : F[<<a, x>>] = PatchStep(a, x, minimum, held, validate)
  OBVIOUS
<1> HIDE DEF F
<1>2. PICK it \in [SUBSET (1..Len(s)) -> Results(S)] : IsTable(it, Len(s), F, b, s)
  BY <1>1, TableExists DEF HasTable
<1>3. Len(s) \in Nat /\ D = 1..Len(s)
  OBVIOUS
<1>4. ASSUME NEW t \in SUBSET D
      PROVE  it[t] = IF t = {} THEN b ELSE PatchStep(it[t \ {Max(t)}], s[Max(t)], minimum, held, validate)
  <2>1. CASE t # {}
    <3>1. Max(t) \in D /\ t \ {Max(t)} \in SUBSET (1..Len(s))
      BY <1>3, <2>1, MaxOfSome
    <3>2. it[t \ {Max(t)}] \in Results(S) /\ s[Max(t)] \in Pages(S)
      BY <1>2, <3>1
    <3> QED BY <1>1, <1>2, <1>3, <2>1, <3>2 DEF IsTable
  <2> QED BY <1>2, <1>3, <2>1 DEF IsTable
<1>5. Eq(it)
  BY <1>2, <1>3, <1>4
<1>6. Eq(j)
  BY <1>5
<1>7. R = j[D]
  BY DEF DecodedPatches, PatchStep, FoldLeft, MapThenFoldSet
<1> HIDE DEF j, D, R
<1> DEFINE g == [k \in 0..Len(s) |-> j[1..k]]
<1>8. g[0] = b
  BY <1>3, <1>6
<1>9. ASSUME NEW k \in 1..Len(s) PROVE g[k] = PatchStep(g[k - 1], s[k], minimum, held, validate)
  <2>1. 1..k \in SUBSET D /\ 1..k # {} /\ Max(1..k) = k /\ (1..k) \ {k} = 1..(k - 1)
    BY <1>3, PrefixSets
  <2>2. j[1..k] = PatchStep(j[1..(k - 1)], s[k], minimum, held, validate)
    BY <1>6, <2>1
  <2> QED BY <1>3, <2>2
<1>10. R = g[Len(s)]
  BY <1>3, <1>7
<1> HIDE DEF g
<1>11. \E f : f[0] = b /\ (\A k \in 1..Len(s) : f[k] = PatchStep(f[k - 1], s[k], minimum, held, validate)) /\ R = f[Len(s)]
  BY <1>8, <1>9, <1>10
<1> QED BY <1>11 DEF R

-----------------------------------------------------------------------------
(* A page of patches is decoded. *)

\* What is emitted is of the patch after the v-th of c.
EmitsNext(c, S, v, was, r) ==
    \E e \in Seq(S) : Part(server[c], v, v + 1, e) /\ r.events \in {was.events, was.events \o e}

(* The patch after what is held: whether its mutation is mixed, skipped or   *)
(* ends the page, the state is what the server's patches amount to.          *)
LEMMA PatchHolds ==
  ASSUME ServerOK, NEW c \in Collections, NEW S, S \subseteq PatchType, NEW was \in Results(S),
         Held(c, was.state), was.state.version + 1 <= Len(server[c]),
         NEW patch \in Pages(S), patch.version = was.state.version + 1,
         patch.mutations = <<server[c][was.state.version + 1]>>,
         NEW minimum, NEW held, NEW validate,
         NEW r, r = DecodePatch(was, patch, minimum, held, validate)
  PROVE  /\ r \in Results(S)
         /\ \/ r.status = "missing"
            \/ /\ r.status \in {was.status, "ok", "stop"}
               /\ Held(c, r.state)
               /\ r.state.version = was.state.version + 1
               /\ EmitsNext(c, S, was.state.version, was, r)
<1> DEFINE v == was.state.version
           m == server[c][v + 1]
           st == PatchState(was, patch)
           d == PatchRead(was, patch, held)
<1>1. v \in Nat /\ v + 1 \in Nat /\ v + 1 \in DOMAIN server[c] /\ m \in PatchType
  BY ServerTypes DEF Held
<1>2. /\ r \in Results(S)
      /\ d.status \in {"ok", "missing", "broken"}
      /\ d.status = "missing" => r.status = "missing"
      /\ d.status = "broken" => r.status = was.status /\ r.state = st /\ r.events = was.events
      /\ d.status = "ok" => /\ r.status \in {"ok", "stop"} /\ r.state = d.state
                            /\ Emits(was, r, d.events)
      /\ d.state.version = patch.version
      /\ st.version = patch.version
  BY DecodePatchIs
<1>3. Sound(was.state) /\ Known(c, was.state.map)
  BY DEF Held
<1>4. Sound(st) /\ st.map = was.state.map /\ st.hash = was.state.hash /\ st.version = v + 1
  BY <1>1, <1>3, SoundAt DEF PatchState
<1>5. Fits(st.map, m)
  BY <1>1, <1>3, <1>4, KnownFits
<1>6. d = DecodeMutations(<<m>>, st, held)
  BY DEF PatchRead
<1>11. d.events \in Seq(S)
  <2>1. <<m>> \in Seq(S)
    BY DEF Pages
  <2>2. st \in States
    BY <1>4 DEF Sound
  <2> HIDE DEF m, st, d
  <2>3. d \in Results(S)
    BY <1>6, <2>1, <2>2, DecodeMutationsType
  <2> QED BY <2>3 DEF Results
<1>12. Part(server[c], v, v + 1, d.events)
  <2> DEFINE q == <<m>>
  <2>1. Part(server[c], v, v + 1, q) /\ Rising(q)
    BY <1>1, PartOne
  <2>2. q \in Seq(PatchType) /\ st \in States
    BY <1>1, <1>4 DEF Sound
  <2>3. d.events = DecodeMutations(q, st, held).events
    BY <1>6
  <2> HIDE DEF q, st, d, v
  <2>4. Part(q, 0, Len(q), d.events)
    BY <2>1, <2>2, <2>3, DecodesPart
  <2> QED BY <2>1, <2>4, PartOfPart
<1>13. Part(server[c], v, v + 1, <<>>) /\ <<>> \in Seq(S)
  <2>1. <<>> \in Seq(S)
    OBVIOUS
  <2> QED BY <2>1, PartEmpty
<1> HIDE DEF st, d, m
<1>7. /\ m.key \notin held => d.status = "missing"
      /\ m.key \in held /\ m.broken = "index" => d.status = "broken"
      /\ m.key \in held /\ m.broken = "record" => d.status = "ok" /\ d.state = st
      /\ m.key \in held /\ m.broken = "no" =>
            d.status = "ok" /\ MixedFrom(st, m, d.state)
  BY <1>1, <1>4, <1>5, <1>6, DecodedOne
<1>8. m.broken \in {"no", "record", "index"} /\ IsMutation(m)
  BY <1>1, PatchIsMutation DEF PatchType
<1>9. m.broken # "no" => Held(c, st)
  BY <1>4, AdvancesSkipped DEF m
<1>10. MixedFrom(st, m, d.state) => Held(c, d.state) /\ d.state.version = v + 1
  <2> DEFINE w == d.state
  <2> SUFFICES ASSUME MixedFrom(st, m, w) PROVE Held(c, w) /\ w.version = v + 1
    OBVIOUS
  <2> HIDE DEF w
  <2>1. Sound(w) /\ w.version = v + 1 /\ FollowsOne(was.state.map, m, w.map)
    BY <1>4 DEF MixedFrom, FollowsOne
  <2>2. Exact(was.state) => Exact(w)
    BY <1>4 DEF MixedFrom, Exact
  <2>3. Held(c, w)
    BY <2>1, <2>2, AdvancesOne DEF m
  <2> QED BY <2>1, <2>3
<1>14. r.status = "missing" \/ d.status \in {"ok", "broken"}
  BY <1>2
<1>15. d.status \in {"ok", "broken"} =>
          EmitsNext(c, S, v, was, r)
  BY <1>2, <1>11, <1>12, <1>13 DEF EmitsNext, Emits
<1> HIDE DEF v
<1>16. \/ r.status = "missing"
       \/ r.status \in {was.status, "ok", "stop"} /\ Held(c, r.state) /\ r.state.version = v + 1
  BY <1>2, <1>4, <1>7, <1>8, <1>9, <1>10
<1> QED BY <1>2, <1>14, <1>15, <1>16 DEF v

\* The patches of a page follow version v of the server's.
Follows(c, v, patches) ==
    /\ v + Len(patches) <= Len(server[c])
    /\ \A n \in 1..Len(patches) : /\ patches[n].version = v + n
                                  /\ patches[n].mutations = <<server[c][v + n]>>

StepTyped(S, minimum, held, validate) ==
    \A a \in Results(S), x \in Pages(S) : PatchStep(a, x, minimum, held, validate) \in Results(S)

\* decode_patches/7, step by step, has its type.
LEMMA PatchStepType ==
  ASSUME NEW S, S \subseteq PatchType, NEW minimum, NEW held, NEW validate
  PROVE  StepTyped(S, minimum, held, validate)
<1> SUFFICES ASSUME NEW a \in Results(S), NEW x \in Pages(S)
             PROVE  PatchStep(a, x, minimum, held, validate) \in Results(S)
  BY DEF StepTyped
<1>1. DecodePatch(a, x, minimum, held, validate) \in Results(S)
  BY DecodePatchIs
<1> QED BY <1>1 DEF PatchStep

\* How far the reading of a page has come.
Reached(c, v, k, r) ==
    \/ r.status = "missing"
    \/ r.status = "ok" /\ Held(c, r.state) /\ r.state.version = v + k /\ Part(server[c], v, v + k, r.events)
    \/ /\ r.status = "stop" /\ Held(c, r.state) /\ r.state.version \in (v + 1)..(v + k)
       /\ Part(server[c], v, r.state.version, r.events)

(* decode_patches/7: a page leaves what the server's patches amount to, as   *)
(* far as it was read.                                                       *)
LEMMA PageHolds ==
  ASSUME ServerOK, NEW c \in Collections, NEW S, S \subseteq PatchType,
         NEW st, Held(c, st), NEW s \in Seq(Pages(S)), Follows(c, st.version, s),
         NEW minimum, NEW held, NEW validate
  PROVE  /\ DecodePatches(s, st, minimum, held, validate) \in Results(S)
         /\ Reached(c, st.version, Len(s), DecodePatches(s, st, minimum, held, validate))
<1> DEFINE v == st.version
           b == [status |-> "ok", key |-> None, state |-> st, events |-> <<>>]
<1>0. v \in Nat /\ Len(s) \in Nat /\ (\A k \in 1..Len(s) : s[k] \in Pages(S)) /\ Len(server[c]) \in Nat
  BY ServerTypes DEF Held, Sound, States
<1>1. b \in Results(S)
  <2>1. <<>> \in Seq(S)
    OBVIOUS
  <2>2. st \in States
    BY DEF Held, Sound
  <2> QED BY <2>1, <2>2 DEF Results
<1>10. Part(server[c], v, v + 0, b.events)
  BY PartEmpty
<1>2. DecodePatches(s, st, minimum, held, validate) = DecodedPatches(b, s, minimum, held, validate)
  BY DEF DecodePatches, DecodedPatches
<1>3. b.status = "ok" /\ b.state = st
  OBVIOUS
<1> HIDE DEF b, v
<1>4. \A a \in Results(S), x \in Pages(S) : PatchStep(a, x, minimum, held, validate) \in Results(S)
  BY PatchStepType DEF StepTyped
<1>5. PICK g : /\ g[0] = b
               /\ \A k \in 1..Len(s) : g[k] = PatchStep(g[k - 1], s[k], minimum, held, validate)
               /\ DecodedPatches(b, s, minimum, held, validate) = g[Len(s)]
  BY <1>1, <1>4, PatchesInTurn
<1> DEFINE P == {k \in Nat : k <= Len(s) => g[k] \in Results(S) /\ Reached(c, v, k, g[k])}
<1>6. 0 \in P
  BY <1>0, <1>1, <1>3, <1>5, <1>10 DEF Reached, v
<1>7. ASSUME NEW k \in Nat, k \in P PROVE k + 1 \in P
  <2> SUFFICES ASSUME k + 1 <= Len(s)
               PROVE  g[k + 1] \in Results(S) /\ Reached(c, v, k + 1, g[k + 1])
    OBVIOUS
  <2> DEFINE a == g[k]
             r == g[k + 1]
             patch == s[k + 1]
  <2>1. a \in Results(S) /\ Reached(c, v, k, a) /\ k + 1 \in 1..Len(s) /\ patch \in Pages(S)
    BY <1>0, <1>7
  <2>2. r = PatchStep(a, patch, minimum, held, validate)
    BY <1>5, <2>1
  <2>3. /\ patch.version = v + (k + 1) /\ patch.mutations = <<server[c][v + (k + 1)]>>
        /\ v + (k + 1) <= Len(server[c])
    BY <1>0, <2>1 DEF Follows, v
  <2> HIDE DEF a, r, patch, P
  <2>4. ASSUME a.status # "ok" PROVE r \in Results(S) /\ Reached(c, v, k + 1, r)
    BY <1>0, <2>1, <2>2, <2>4 DEF PatchStep, Reached
  <2>5. ASSUME a.status = "ok" PROVE r \in Results(S) /\ Reached(c, v, k + 1, r)
    <3>1. Held(c, a.state) /\ a.state.version = v + k
      BY <2>1, <2>5 DEF Reached
    <3>2. r = DecodePatch(a, patch, minimum, held, validate)
      BY <2>2, <2>5 DEF PatchStep
    <3>3. v + (k + 1) = a.state.version + 1
      BY <1>0, <3>1
    <3>4. /\ r \in Results(S)
          /\ \/ r.status = "missing"
             \/ /\ r.status \in {a.status, "ok", "stop"}
                /\ Held(c, r.state)
                /\ r.state.version = a.state.version + 1
                /\ EmitsNext(c, S, a.state.version, a, r)
      <4>1. /\ a.state.version + 1 <= Len(server[c])
            /\ patch.version = a.state.version + 1
            /\ patch.mutations = <<server[c][a.state.version + 1]>>
        BY <2>3, <3>3
      <4> QED BY <2>1, <3>1, <3>2, <4>1, PatchHolds
    <3>5. ASSUME NEW e \in Seq(S), r.events \in {a.events, a.events \o e}, Part(server[c], v + k, v + (k + 1), e)
          PROVE  Part(server[c], v, v + (k + 1), r.events)
      <4> DEFINE q == server[c]
                 x == v + k
                 y == v + (k + 1)
                 o == a.events
      <4>1. Part(q, v, x, o) /\ Part(q, x, y, e)
        BY <2>1, <2>5, <3>5 DEF Reached
      <4>2. Rising(q) /\ Len(q) \in Nat /\ y <= Len(q)
        BY <1>0, <2>3 DEF ServerOK
      <4>3. x \in Nat /\ y \in Nat /\ v <= x /\ x <= y
        BY <1>0
      <4>4. o \in Seq(S)
        BY <2>1 DEF Results
      <4> HIDE DEF q, x, y, o
      <4>5. Part(q, v, y, o \o e)
        BY <1>0, <4>1, <4>2, <4>3, <4>4, PartJoins
      <4>6. Part(q, v, y, o)
        BY <1>0, <4>1, <4>3, PartWidens
      <4> QED BY <3>5, <4>5, <4>6 DEF q, y, o
    <3>6. ASSUME r.status # "missing" PROVE Part(server[c], v, v + (k + 1), r.events)
      <4>1. a.state.version = v + k /\ a.state.version + 1 = v + (k + 1)
        BY <3>1, <3>3
      <4>2. PICK e \in Seq(S) : /\ Part(server[c], v + k, v + (k + 1), e)
                                /\ r.events \in {a.events, a.events \o e}
        BY <3>4, <3>6, <4>1 DEF EmitsNext
      <4> QED BY <3>5, <4>2
    <3>7. r.status # "missing" => r.state.version = v + (k + 1) /\ v + (k + 1) \in (v + 1)..(v + (k + 1))
      BY <1>0, <3>3, <3>4
    <3> QED BY <2>5, <3>4, <3>6, <3>7 DEF Reached
  <2> QED BY <2>4, <2>5 DEF a, r
<1>8. \A k \in Nat : k \in P => k + 1 \in P
  BY <1>7
<1> HIDE DEF P
<1>9. \A k \in Nat : k \in P
  BY <1>6, <1>8, Induct
<1> QED BY <1>0, <1>2, <1>5, <1>9 DEF P, v

-----------------------------------------------------------------------------
(* The records of a snapshot. *)

\* The n-th patch of c is what a snapshot of version v keeps of its index.
IsKept(c, v, n) == server[c][n].op = "set" /\ LastAt(c, server[c][n].index, v) = n

Keep(c, v, records, n) ==
    IF IsKept(c, v, n) THEN Append(records, server[c][n]) ELSE records

Gathered(b, s, c, v) ==
    FoldLeft(LAMBDA records, n :
                 IF server[c][n].op = "set" /\ LastAt(c, server[c][n].index, v) = n
                 THEN Append(records, server[c][n]) ELSE records, b, s)

InTurn(b, s, c, v) ==
    \E g : /\ g[0] = b
           /\ \A k \in 1..Len(s) : g[k] = Keep(c, v, g[k - 1], s[k])
           /\ Gathered(b, s, c, v) = g[Len(s)]

(* What a snapshot keeps is gathered in the order of the patches.               *)
LEMMA RecordsInTurn ==
  ASSUME NEW c, NEW v, NEW V, NEW X, NEW b \in V, NEW s \in Seq(X),
         \A a \in V, x \in X : Keep(c, v, a, x) \in V
  PROVE  InTurn(b, s, c, v)
<1> DEFINE F == [p \in V \X X |-> Keep(c, v, p[1], p[2])]
           D == DOMAIN s
           Eq(it) == it = [t \in SUBSET D |-> IF t = {} THEN b ELSE Keep(c, v, it[t \ {Max(t)}], s[Max(t)])]
           j == CHOOSE it : Eq(it)
           R == Gathered(b, s, c, v)
<1>1. /\ F \in [V \X X -> V]
      /\ \A a \in V, x \in X : F[<<a, x>>] = Keep(c, v, a, x)
  OBVIOUS
<1> HIDE DEF F
<1>2. PICK it \in [SUBSET (1..Len(s)) -> V] : IsTable(it, Len(s), F, b, s)
  BY <1>1, TableExists DEF HasTable
<1>3. Len(s) \in Nat /\ D = 1..Len(s)
  OBVIOUS
<1>4. ASSUME NEW t \in SUBSET D
      PROVE  it[t] = IF t = {} THEN b ELSE Keep(c, v, it[t \ {Max(t)}], s[Max(t)])
  <2>1. CASE t # {}
    <3>1. Max(t) \in D /\ t \ {Max(t)} \in SUBSET (1..Len(s))
      BY <1>3, <2>1, MaxOfSome
    <3>2. it[t \ {Max(t)}] \in V /\ s[Max(t)] \in X
      BY <1>2, <3>1
    <3> QED BY <1>1, <1>2, <1>3, <2>1, <3>2 DEF IsTable
  <2> QED BY <1>2, <1>3, <2>1 DEF IsTable
<1>5. Eq(it)
  BY <1>2, <1>3, <1>4
<1>6. Eq(j)
  BY <1>5
<1>7. R = j[D]
  BY DEF Gathered, Keep, IsKept, FoldLeft, MapThenFoldSet
<1> HIDE DEF j, D, R
<1> DEFINE g == [k \in 0..Len(s) |-> j[1..k]]
<1>8. g[0] = b
  BY <1>3, <1>6
<1>9. ASSUME NEW k \in 1..Len(s) PROVE g[k] = Keep(c, v, g[k - 1], s[k])
  <2>1. 1..k \in SUBSET D /\ 1..k # {} /\ Max(1..k) = k /\ (1..k) \ {k} = 1..(k - 1)
    BY <1>3, PrefixSets
  <2>2. j[1..k] = Keep(c, v, j[1..(k - 1)], s[k])
    BY <1>6, <2>1
  <2> QED BY <1>3, <2>2
<1>10. R = g[Len(s)]
  BY <1>3, <1>7
<1> HIDE DEF g
<1>11. \E f : f[0] = b /\ (\A k \in 1..Len(s) : f[k] = Keep(c, v, f[k - 1], s[k])) /\ R = f[Len(s)]
  BY <1>8, <1>9, <1>10
<1> QED BY <1>11 DEF R, InTurn

\* What is gathered of the first k patches.
RecordsOK(c, v, k, records) ==
    /\ \A j \in 1..Len(records) : \E n \in 1..k : records[j] = server[c][n] /\ IsKept(c, v, n)
    /\ \A j, l \in 1..Len(records) : records[j].index = records[l].index => j = l
    /\ \A n \in 1..k : IsKept(c, v, n) => \E j \in 1..Len(records) : records[j] = server[c][n]
    /\ Part(server[c], 0, k, records)

\* A record is kept or left out.
LEMMA KeepHolds ==
  ASSUME NEW c, NEW v, NEW k \in Nat, NEW records \in Seq(PatchType), RecordsOK(c, v, k, records),
         server[c][k + 1] \in PatchType,
         Rising(server[c]), Len(server[c]) \in Nat, k + 1 <= Len(server[c])
  PROVE  RecordsOK(c, v, k + 1, Keep(c, v, records, k + 1))
<1> DEFINE m == server[c][k + 1]
           new == Keep(c, v, records, k + 1)
           l == Len(records)
<1>1. l \in Nat /\ m \in PatchType
  OBVIOUS
<1>0. 0 \in Nat /\ 0 <= k /\ k + 1 \in Nat /\ k <= k + 1 /\ Part(server[c], 0, k, records)
  BY DEF RecordsOK
<1>2. CASE ~ IsKept(c, v, k + 1)
  <2>1. new = records
    BY <1>2 DEF Keep
  <2> HIDE DEF new
  <2>3. Part(server[c], 0, k + 1, records)
    BY <1>0, PartWidens
  <2>2. RecordsOK(c, v, k + 1, records)
    BY <1>2, <2>3 DEF RecordsOK
  <2> QED BY <2>1, <2>2 DEF new
<1>3. CASE IsKept(c, v, k + 1)
  <2>1. new = Append(records, m)
    BY <1>3 DEF Keep
  <2> HIDE DEF new, m
  <2>2. Len(new) = l + 1 /\ new[l + 1] = m /\ \A j \in 1..l : new[j] = records[j]
    BY <1>1, <2>1
  <2> HIDE DEF l
  <2>3. \A j \in 1..Len(new) : \E n \in 1..(k + 1) : new[j] = server[c][n] /\ IsKept(c, v, n)
    <3> TAKE j \in 1..Len(new)
    <3>1. CASE j = l + 1
      BY <1>3, <2>2, <3>1 DEF m
    <3>2. CASE j # l + 1
      <4>1. j \in 1..l
        BY <1>1, <2>2, <3>2
      <4>2. \E n \in 1..k : records[j] = server[c][n] /\ IsKept(c, v, n)
        BY <4>1 DEF RecordsOK, l
      <4> QED BY <2>2, <4>1, <4>2
    <3> QED BY <3>1, <3>2
  <2>4. \A j \in 1..l : records[j].index # m.index
    <3> TAKE j \in 1..l
    <3>1. PICK n \in 1..k : records[j] = server[c][n] /\ IsKept(c, v, n)
      BY DEF RecordsOK, l
    <3> QED BY <1>3, <3>1 DEF IsKept, m
  <2>5. \A j, i \in 1..Len(new) : new[j].index = new[i].index => j = i
    <3>1. \A j, i \in 1..l : records[j].index = records[i].index => j = i
      BY DEF RecordsOK, l
    <3> QED BY <1>1, <2>2, <2>4, <3>1
  <2>6. \A n \in 1..(k + 1) : IsKept(c, v, n) => \E j \in 1..Len(new) : new[j] = server[c][n]
    <3> TAKE n \in 1..(k + 1)
    <3> HAVE IsKept(c, v, n)
    <3>1. CASE n = k + 1
      BY <1>1, <2>2, <3>1 DEF m
    <3>2. CASE n # k + 1
      <4>1. PICK j \in 1..l : records[j] = server[c][n]
        BY <3>2 DEF RecordsOK, l
      <4> QED BY <1>1, <2>2, <4>1
    <3> QED BY <3>1, <3>2
  <2>7. Part(server[c], 0, k + 1, new)
    <3> DEFINE q == server[c]
               S == PatchType
    <3>1. Rising(q) /\ Part(q, 0, k, records) /\ Len(q) \in Nat /\ k + 1 <= Len(q) /\ q[k + 1] \in S
          /\ records \in Seq(S) /\ m = q[k + 1]
      BY <1>0 DEF m
    <3> HIDE DEF q, S
    <3>2. Part(q, 0, k + 1, Append(records, q[k + 1]))
      BY <1>0, <3>1, PartAppends
    <3> QED BY <2>1, <3>1, <3>2 DEF q
  <2> QED BY <2>3, <2>5, <2>6, <2>7 DEF RecordsOK, new
<1> QED BY <1>2, <1>3

(* A snapshot has one record for each index that is set, and no other.       *)
LEMMA RecordsAre ==
  ASSUME ServerOK, NEW c \in Collections, NEW v \in 0..Len(server[c])
  PROVE  Records(c, v) \in Seq(PatchType) /\ RecordsOK(c, v, v, Records(c, v))
<1> DEFINE s == [n \in 1..v |-> n]
           b == <<>>
<1>0. /\ v \in Nat /\ v <= Len(server[c]) /\ \A n \in 1..v : server[c][n] \in PatchType
      /\ Rising(server[c]) /\ Len(server[c]) \in Nat
  BY ServerTypes DEF ServerOK
<1>1. s \in Seq(1..v) /\ Len(s) = v /\ \A n \in 1..v : s[n] = n
  BY <1>0
<1>2. b \in Seq(PatchType) /\ Len(b) = 0
  OBVIOUS
<1>3. Records(c, v) = Gathered(b, s, c, v)
  BY DEF Records, Gathered
<1> HIDE DEF b, s
<1> DEFINE V == Seq(PatchType)
           X == 1..v
<1>4. \A a \in V, x \in X : Keep(c, v, a, x) \in V
  <2> TAKE a \in Seq(PatchType), x \in 1..v
  <2> DEFINE m == server[c][x]
  <2>1. m \in PatchType
    BY <1>0
  <2>2. Keep(c, v, a, x) = a \/ Keep(c, v, a, x) = Append(a, m)
    BY DEF Keep
  <2> HIDE DEF m
  <2> QED BY <2>1, <2>2
<1>5. PICK g : /\ g[0] = b
               /\ \A k \in 1..Len(s) : g[k] = Keep(c, v, g[k - 1], s[k])
               /\ Gathered(b, s, c, v) = g[Len(s)]
  <2>1. b \in V /\ s \in Seq(X)
    BY <1>1, <1>2
  <2> HIDE DEF V, X
  <2>2. InTurn(b, s, c, v)
    BY <1>4, <2>1, RecordsInTurn
  <2> QED BY <2>2 DEF InTurn
<1> DEFINE P == {k \in Nat : k <= v => g[k] \in Seq(PatchType) /\ RecordsOK(c, v, k, g[k])}
<1>6. 0 \in P
  <2>0. Part(server[c], 0, 0, b)
    BY PartEmpty DEF b
  <2>1. RecordsOK(c, v, 0, b)
    BY <1>2, <2>0 DEF RecordsOK
  <2> QED BY <1>2, <1>5, <2>1
<1>7. ASSUME NEW k \in Nat, k \in P PROVE k + 1 \in P
  <2> SUFFICES ASSUME k + 1 <= v
               PROVE  g[k + 1] \in Seq(PatchType) /\ RecordsOK(c, v, k + 1, g[k + 1])
    OBVIOUS
  <2>1. g[k] \in Seq(PatchType) /\ RecordsOK(c, v, k, g[k]) /\ k + 1 \in 1..v
    BY <1>0, <1>7
  <2>2. g[k + 1] = Keep(c, v, g[k], k + 1)
    <3>1. g[k + 1] = Keep(c, v, g[k + 1 - 1], s[k + 1]) /\ k + 1 - 1 = k
      BY <1>1, <1>5, <2>1
    <3> QED BY <1>1, <2>1, <3>1
  <2>3. RecordsOK(c, v, k + 1, Keep(c, v, g[k], k + 1))
    <3>1. k + 1 <= Len(server[c])
      BY <1>0
    <3> QED BY <1>0, <2>1, <3>1, KeepHolds
  <2> QED BY <1>4, <2>1, <2>2, <2>3
<1>8. \A k \in Nat : k \in P => k + 1 \in P
  BY <1>7
<1> HIDE DEF P
<1>9. \A k \in Nat : k \in P
  BY <1>6, <1>8, Induct
<1> QED BY <1>0, <1>1, <1>3, <1>5, <1>9 DEF P

-----------------------------------------------------------------------------
(* A snapshot is decoded. *)

\* What the generator holds after the first k records of s.
Listing(s, k, gen) ==
    /\ gen.hash = ZeroHash /\ gen.sub = <<>>
    /\ \A j \in 1..k : s[j].broken = "no" =>
          s[j].index \in DOMAIN gen.map /\ gen.map[s[j].index] = s[j].mac
    /\ \A i \in DOMAIN gen.map : \E j \in 1..k : s[j].index = i /\ gen.map[i] = s[j].mac
    /\ Apart(gen.add)
    /\ Upto(gen.add, Len(gen.add)) = Values(gen.map)

\* Records that set different indexes to different values.
Distinct(s) ==
    /\ \A j \in 1..Len(s) : s[j].op = "set"
    /\ \A j, l \in 1..Len(s) : s[j].index = s[l].index => j = l
    /\ \A j, l \in 1..Len(s) : s[j].mac = s[l].mac => j = l

\* Different values and one that is new.
LEMMA ApartGrows ==
  ASSUME NEW s \in Seq(Macs), Apart(s), NEW m \in Macs, m \notin Upto(s, Len(s))
  PROVE  /\ Append(s, m) \in Seq(Macs)
         /\ Apart(Append(s, m))
         /\ Upto(Append(s, m), Len(Append(s, m))) = Upto(s, Len(s)) \union {m}
<1> DEFINE l == Len(s)
           new == Append(s, m)
<1>1. l \in Nat /\ new \in Seq(Macs) /\ Len(new) = l + 1 /\ new[l + 1] = m /\ \A j \in 1..l : new[j] = s[j]
  OBVIOUS
<1>2. \A j \in 1..l : s[j] # m
  BY DEF Upto
<1>3. \A j, k \in 1..l : s[j] = s[k] => j = k
  BY DEF Apart
<1> HIDE DEF new, l
<1>4. \A j, k \in 1..Len(new) : new[j] = new[k] => j = k
  BY <1>1, <1>2, <1>3
<1>5. {new[j] : j \in 1..Len(new)} = {s[j] : j \in 1..l} \union {m}
  BY <1>1
<1> QED BY <1>1, <1>4, <1>5 DEF Apart, Upto, new, l

\* One record more in the list.
LEMMA ListingGrows ==
  ASSUME NEW s \in Seq(PatchType), Distinct(s), NEW k \in Nat, k + 1 \in 1..Len(s),
         NEW gen \in Gens, Listing(s, k, gen)
  PROVE  Listing(s, k + 1, Mix(gen, s[k + 1]))
<1> DEFINE m == s[k + 1]
           map == gen.map
           new == Put(map, m.index, m.mac)
           l == Append(gen.add, m.mac)
           g == Mix(gen, m)
<1>0. Len(s) \in Nat /\ s[k + 1] \in PatchType
  OBVIOUS
<1>1. m \in PatchType /\ m.op = "set" /\ m.mac \in Macs /\ gen.add \in Seq(Macs)
  <2>1. m.op = "set"
    BY DEF Distinct
  <2>2. gen.add \in Seq(Macs)
    BY DEF Gens
  <2>3. m.mac \in Macs
    BY <1>0 DEF PatchType
  <2> QED BY <1>0, <2>1, <2>2, <2>3
<1>3. \A j \in 1..k : s[j].index # m.index /\ s[j].mac # m.mac
  <2> TAKE j \in 1..k
  <2>1. j \in 1..Len(s) /\ j # k + 1
    BY <1>0
  <2> QED BY <2>1 DEF Distinct
<1>4. m.index \notin DOMAIN map /\ m.mac \notin Values(map)
  BY <1>3 DEF Listing, Values
<1>5. g.hash = gen.hash /\ g.sub = gen.sub /\ g.map = new /\ g.add = l
  BY <1>1, <1>4 DEF Mix, Gens
<1>6. /\ DOMAIN new = DOMAIN map \union {m.index} /\ new[m.index] = m.mac
      /\ \A i \in DOMAIN map : new[i] = map[i]
  BY <1>4 DEF Put
<1>7. Values(new) = Values(map) \union {m.mac}
  <2> HIDE DEF new, map
  <2> QED BY <1>4, <1>6 DEF Values
<1>8. Apart(l) /\ Upto(l, Len(l)) = Values(new)
  BY <1>1, <1>4, <1>7, ApartGrows DEF Listing
<1> HIDE DEF new, l, g
<1>9. \A j \in 1..(k + 1) : s[j].broken = "no" =>
          s[j].index \in DOMAIN new /\ new[s[j].index] = s[j].mac
  <2> TAKE j \in 1..(k + 1)
  <2>1. CASE j = k + 1
    BY <1>6, <2>1
  <2>2. CASE j # k + 1
    BY <1>6, <2>2 DEF Listing
  <2> QED BY <2>1, <2>2
<1>10. \A i \in DOMAIN new : \E j \in 1..(k + 1) : s[j].index = i /\ new[i] = s[j].mac
  <2> TAKE i \in DOMAIN new
  <2>1. CASE i = m.index
    BY <1>6, <2>1
  <2>2. CASE i # m.index
    <3>1. i \in DOMAIN map /\ new[i] = map[i]
      BY <1>6, <2>2
    <3>2. PICK j \in 1..k : s[j].index = i /\ map[i] = s[j].mac
      BY <3>1 DEF Listing
    <3> QED BY <3>1, <3>2
  <2> QED BY <2>1, <2>2
<1>11. gen.hash = ZeroHash /\ gen.sub = <<>>
  BY DEF Listing
<1> QED BY <1>5, <1>8, <1>9, <1>10, <1>11 DEF Listing, g

\* A record that is left out.
LEMMA ListingKept ==
  ASSUME NEW s, NEW k \in Nat, s[k + 1].broken # "no", NEW gen, Listing(s, k, gen)
  PROVE  Listing(s, k + 1, gen)
<1>1. \A j \in 1..(k + 1) : s[j].broken = "no" =>
          s[j].index \in DOMAIN gen.map /\ gen.map[s[j].index] = s[j].mac
  <2> TAKE j \in 1..(k + 1)
  <2> QED BY DEF Listing
<1>2. \A i \in DOMAIN gen.map : \E j \in 1..(k + 1) : s[j].index = i /\ gen.map[i] = s[j].mac
  BY DEF Listing
<1> QED BY <1>1, <1>2 DEF Listing

(* The records of a snapshot, all those that can be read, are listed.        *)
LEMMA RecordsListed ==
  ASSUME NEW held, NEW s \in Seq(PatchType), Distinct(s), NEW st \in States,
         st.hash = ZeroHash, st.map = <<>>,
         Decoded(Begun(st), s, held).status = "ok"
  PROVE  Decoded(Begun(st), s, held).gen \in Gens /\ Listing(s, Len(s), Decoded(Begun(st), s, held).gen)
<1> DEFINE b == Begun(st)
           S == PatchType
           A == Accs(S)
<1>0. Len(s) \in Nat /\ \A k \in 1..Len(s) : s[k] \in PatchType
  OBVIOUS
<1>1. b \in A /\ b.status = "ok" /\ b.gen = Generator(st)
  BY BegunType
<1>2. \A a \in A, x \in S : DecodeMutation(a, x, held) \in A
  BY DecodeType
<1>3. Listing(s, 0, Generator(st))
  <2> DEFINE e == <<>>
  <2>1. e \in Seq(Macs) /\ Len(e) = 0 /\ DOMAIN e = {}
    OBVIOUS
  <2>2. /\ Generator(st).hash = ZeroHash /\ Generator(st).sub = <<>>
        /\ Generator(st).map = e /\ Generator(st).add = e
    BY DEF Generator
  <2> HIDE DEF e
  <2>3. Apart(e) /\ Upto(e, Len(e)) = {} /\ Values(e) = {}
    BY <2>1 DEF Apart, Upto, Values
  <2> QED BY <2>1, <2>2, <2>3 DEF Listing
<1> HIDE DEF b
<1>4. PICK g : /\ g[0] = b
               /\ \A k \in 1..Len(s) : g[k] = DecodeMutation(g[k - 1], s[k], held)
               /\ Decoded(b, s, held) = g[Len(s)]
  <2> HIDE DEF A
  <2>1. b \in Accs(S) /\ s \in Seq(S) /\ \A a \in Accs(S), x \in S : DecodeMutation(a, x, held) \in Accs(S)
    BY <1>1, <1>2 DEF A
  <2> HIDE DEF S
  <2>2. MutationsInTurn(held, b, s)
    BY <2>1, DecodesInTurn
  <2> QED BY <2>2 DEF MutationsInTurn
<1> DEFINE P == {k \in Nat : k <= Len(s) =>
                    g[k] \in A /\ (g[k].status = "ok" => Listing(s, k, g[k].gen))}
<1> HIDE DEF A
<1>5. 0 \in P
  BY <1>1, <1>3, <1>4
<1>6. ASSUME NEW k \in Nat, k \in P PROVE k + 1 \in P
  <2> SUFFICES ASSUME k + 1 <= Len(s)
               PROVE  g[k + 1] \in A /\ (g[k + 1].status = "ok" => Listing(s, k + 1, g[k + 1].gen))
    OBVIOUS
  <2> DEFINE a == g[k]
             r == g[k + 1]
             m == s[k + 1]
  <2>1. a \in A /\ (a.status = "ok" => Listing(s, k, a.gen)) /\ k + 1 \in 1..Len(s) /\ m \in PatchType
    BY <1>0, <1>6
  <2>2. r = DecodeMutation(a, m, held)
    <3>1. g[k + 1] = DecodeMutation(g[k + 1 - 1], s[k + 1], held) /\ k + 1 - 1 = k
      BY <1>4, <2>1
    <3> QED BY <3>1
  <2>3. r \in A
    BY <1>2, <2>1, <2>2
  <2> HIDE DEF a, r, P
  <2>4. ASSUME r.status = "ok" PROVE Listing(s, k + 1, r.gen)
    <3>1. a.gen \in Gens /\ a.status \in {"ok", "missing", "broken"}
      BY <2>1 DEF A, Accs
    <3>2. m.broken \in {"no", "record", "index"}
      BY <2>1 DEF PatchType
    <3> HIDE DEF m
    <3>3. /\ a.status = "ok" /\ m.broken \in {"no", "record"}
          /\ m.broken = "record" => r = a
          /\ m.broken = "no" => r = [a EXCEPT !.gen = Mix(@, m), !.events = Append(@, m)]
      BY <2>1, <2>2, <2>4, <3>1, <3>2 DEF DecodeMutation, A, Accs
    <3>4. CASE m.broken = "record"
      <4>1. s[k + 1].broken # "no" /\ Listing(s, k, a.gen)
        BY <2>1, <3>3, <3>4 DEF m
      <4>2. Listing(s, k + 1, a.gen)
        BY <4>1, ListingKept
      <4> QED BY <3>3, <3>4, <4>2
    <3>5. CASE m.broken = "no"
      <4>1. r.gen = Mix(a.gen, m)
        BY <2>1, <3>3, <3>5 DEF A, Accs
      <4>2. Listing(s, k + 1, Mix(a.gen, s[k + 1]))
        BY <2>1, <3>1, <3>3, ListingGrows
      <4> QED BY <4>1, <4>2 DEF m
    <3> QED BY <3>3, <3>4, <3>5
  <2> QED BY <2>3, <2>4 DEF r
<1>7. \A k \in Nat : k \in P => k + 1 \in P
  BY <1>6
<1> HIDE DEF P
<1>8. \A k \in Nat : k \in P
  BY <1>5, <1>7, Induct
<1>9. g[Len(s)] \in A /\ (g[Len(s)].status = "ok" => Listing(s, Len(s), g[Len(s)].gen))
  BY <1>0, <1>8 DEF P
<1> QED BY <1>4, <1>9 DEF A, Accs, b

-----------------------------------------------------------------------------
(* A snapshot holds what the server's patches amount to. *)

\* The patches of c.
Mine(c) == {server[c][n] : n \in DOMAIN server[c]}

\* The patches of c are patches that were accepted.
LEMMA MineTypes ==
  ASSUME ServerOK, NEW c \in Collections
  PROVE  Mine(c) \subseteq PatchType /\ Mine(c) \subseteq Accepted
<1>1. Mine(c) \subseteq PatchType
  BY ServerTypes DEF Mine
<1>2. Mine(c) \subseteq Accepted
  BY DEF Mine, Accepted
<1> QED BY <1>1, <1>2

\* The records of a snapshot are of different indexes.
LEMMA RecordsDistinct ==
  ASSUME ServerOK, NEW c \in Collections, NEW v \in 0..Len(server[c]),
         NEW s \in Seq(PatchType), RecordsOK(c, v, v, s)
  PROVE  /\ Distinct(s)
         /\ s \in Seq(Mine(c))
         /\ \A j \in 1..Len(s) : \E n \in DOMAIN server[c] : n \in 1..v /\ s[j] = server[c][n] /\ IsKept(c, v, n)
<1>0. v \in Nat /\ Len(s) \in Nat /\ 1..v \subseteq DOMAIN server[c]
  BY ServerTypes
<1>1. \A j \in 1..Len(s) : \E n \in DOMAIN server[c] : n \in 1..v /\ s[j] = server[c][n] /\ IsKept(c, v, n)
  BY <1>0 DEF RecordsOK
<1>2. \A j \in 1..Len(s) : s[j].op = "set"
  BY <1>1 DEF IsKept
<1>3. \A j, l \in 1..Len(s) : s[j].index = s[l].index => j = l
  BY DEF RecordsOK
<1>4. ASSUME NEW j \in 1..Len(s), NEW l \in 1..Len(s), s[j].mac = s[l].mac
      PROVE  j = l
  <2>1. PICK n \in DOMAIN server[c] : s[j] = server[c][n]
    BY <1>1
  <2>2. PICK k \in DOMAIN server[c] : s[l] = server[c][k]
    BY <1>1
  <2>3. n = k
    BY <1>4, <2>1, <2>2 DEF ServerOK
  <2> QED BY <1>3, <2>1, <2>2, <2>3
<1>5. \A j \in 1..Len(s) : s[j] \in Mine(c)
  BY <1>1 DEF Mine
<1> DEFINE M == Mine(c)
<1>6. s \in Seq(M)
  <2> HIDE DEF M
  <2>1. \A j \in 1..Len(s) : s[j] \in M
    BY <1>5 DEF M
  <2> QED BY <2>1
<1> QED BY <1>1, <1>2, <1>3, <1>4, <1>6 DEF Distinct

\* The map that a snapshot gives.
LEMMA ListedMap ==
  ASSUME ServerOK, NEW c \in Collections, NEW v \in 0..Len(server[c]),
         NEW s \in Seq(PatchType), RecordsOK(c, v, v, s),
         NEW gen \in Gens, Listing(s, Len(s), gen)
  PROVE  /\ MapOK(gen.map) /\ Known(c, gen.map) /\ Agrees(c, gen.map, v)
         /\ SubtractThenAdd(gen.hash, gen.sub, gen.add) = HashOf(gen.map)
<1> DEFINE map == gen.map
           l == Len(s)
<1>0. v \in Nat /\ l \in Nat /\ map \in Maps /\ gen.add \in Seq(Macs) /\ Len(server[c]) \in Nat
  BY ServerTypes DEF Gens
<1>1. /\ Distinct(s)
      /\ \A j \in 1..l : \E n \in DOMAIN server[c] : n \in 1..v /\ s[j] = server[c][n] /\ IsKept(c, v, n)
  BY RecordsDistinct
<1>2. /\ \A j \in 1..l : s[j].broken = "no" => s[j].index \in DOMAIN map /\ map[s[j].index] = s[j].mac
      /\ \A i \in DOMAIN map : \E j \in 1..l : s[j].index = i /\ map[i] = s[j].mac
      /\ gen.hash = ZeroHash /\ gen.sub = <<>>
      /\ Apart(gen.add) /\ Upto(gen.add, Len(gen.add)) = Values(map)
  BY DEF Listing
<1> HIDE DEF map, l
<1>3. Known(c, map)
  <2> SUFFICES ASSUME NEW i \in DOMAIN map
               PROVE  \E n \in DOMAIN server[c] : server[c][n].index = i /\ server[c][n].mac = map[i]
    BY DEF Known
  <2>1. PICK j \in 1..l : s[j].index = i /\ map[i] = s[j].mac
    BY <1>2
  <2>2. PICK n \in DOMAIN server[c] : s[j] = server[c][n]
    BY <1>1
  <2> QED BY <2>1, <2>2
<1>4. IsFiniteSet(Values(map))
  <2>1. \A i \in DOMAIN map : map[i] \in 1..Cardinality(Accepted)
    BY <1>3 DEF Known, ServerOK
  <2>2. Values(map) \subseteq 1..Cardinality(Accepted)
    BY <2>1 DEF Values
  <2>3. IsFiniteSet(1..Cardinality(Accepted))
    <3>1. Cardinality(Accepted) \in Nat
      BY FS_CardinalityType DEF ServerOK
    <3> QED BY <3>1, FS_Interval
  <2> QED BY <2>2, <2>3, FS_Subset
<1>5. \A i, k \in DOMAIN map : map[i] = map[k] => i = k
  <2> TAKE i, k \in DOMAIN map
  <2> HAVE map[i] = map[k]
  <2>1. PICK j \in 1..l : s[j].index = i /\ map[i] = s[j].mac
    BY <1>2
  <2>2. PICK n \in 1..l : s[n].index = k /\ map[k] = s[n].mac
    BY <1>2
  <2>3. j = n
    BY <1>1, <2>1, <2>2 DEF Distinct, l
  <2> QED BY <2>1, <2>2, <2>3
<1>6. MapOK(map)
  BY <1>0, <1>4, <1>5 DEF MapOK
<1>7. Agrees(c, map, v)
  <2> SUFFICES ASSUME NEW i \in Indexes
               PROVE  \/ Astray(c, i, v)
                      \/ /\ IsSet(c, i, v) <=> i \in DOMAIN map
                         /\ IsSet(c, i, v) => map[i] = server[c][LastAt(c, i, v)].mac
    BY DEF Agrees
  <2> DEFINE n == LastAt(c, i, v)
  <2>0. n \in 0..v /\ (n > 0 => server[c][n].index = i)
    BY <1>0, LastIs
  <2>1. ASSUME IsSet(c, i, v), ~ Astray(c, i, v)
        PROVE  i \in DOMAIN map /\ map[i] = server[c][n].mac
    <3>1. n \in 1..v /\ server[c][n].index = i /\ server[c][n].broken = "no" /\ server[c][n].op = "set"
      BY <2>0, <2>1 DEF IsSet, Astray, Unlike
    <3>2. IsKept(c, v, n)
      BY <3>1 DEF IsKept
    <3>3. PICK j \in 1..l : s[j] = server[c][n]
      BY <3>1, <3>2 DEF RecordsOK, l
    <3> QED BY <1>2, <3>1, <3>3
  <2>2. ASSUME i \in DOMAIN map PROVE IsSet(c, i, v)
    <3>1. PICK j \in 1..l : s[j].index = i
      BY <1>2, <2>2
    <3>2. PICK k \in 1..v : s[j] = server[c][k] /\ IsKept(c, v, k)
      BY <1>1
    <3>3. LastAt(c, i, v) = k /\ server[c][k].op = "set" /\ k > 0
      BY <3>1, <3>2 DEF IsKept
    <3> QED BY <3>3 DEF IsSet
  <2> QED BY <2>1, <2>2
<1>8. SubtractThenAdd(gen.hash, gen.sub, gen.add) = HashOf(map)
  <2>1. FoldLeft(SubtractMac, ZeroHash, <<>>) = ZeroHash
    BY ZeroIsHash, SubtractsNothing
  <2>2. SubtractThenAdd(gen.hash, gen.sub, gen.add) = FoldLeft(AddMac, ZeroHash, gen.add)
    BY <1>2, <2>1 DEF SubtractThenAdd
  <2>3. SetHash(Upto(gen.add, Len(gen.add))) = FoldLeft(AddMac, ZeroHash, gen.add)
    BY <1>0, <1>2, <1>4, AnyOrder
  <2> QED BY <1>2, <2>2, <2>3, HashOfValues
<1> QED BY <1>3, <1>6, <1>7, <1>8 DEF map

(* decode_syncd_snapshot/5: a snapshot of version v that can be read holds   *)
(* what the first v patches amount to.                                       *)
LEMMA SnapshotHolds ==
  ASSUME ServerOK, NEW c \in Collections, NEW v \in 0..Len(server[c]), NEW minimum, NEW held,
         NEW d, d = DecodeSnapshot([version |-> v, records |-> Records(c, v)], minimum, held)
  PROVE  /\ d \in Results(Mine(c))
         /\ d.status # "stop"
         /\ d.status = "ok" => Held(c, d.state) /\ d.state.version = v
         /\ Part(server[c], 0, v, d.events)
<1> DEFINE s == Records(c, v)
           st == [NewState EXCEPT !.version = v]
           e == DecodeMutations(s, st, held)
           S == Mine(c)
<1>0. v \in Nat
  BY ServerTypes
<1>1. s \in Seq(PatchType) /\ RecordsOK(c, v, v, s)
  BY RecordsAre
<1>10. Part(server[c], 0, v, s) /\ Rising(s)
  BY <1>1 DEF RecordsOK, Part
<1>2. s \in Seq(S) /\ Distinct(s)
  BY <1>1, RecordsDistinct
<1>3. st \in States /\ st.hash = ZeroHash /\ st.map = <<>> /\ st.version = v
  <2>1. Sound(NewState) /\ NewState.hash = ZeroHash /\ NewState.map = <<>>
    BY NewIsHeld DEF Held, NewState
  <2> QED BY <1>0, <2>1, SoundAt DEF Sound
<1>4. d = WithEvents(e, Newer(v, minimum))
  BY DEF DecodeSnapshot
<1> HIDE DEF s, st, S
<1>5. S \subseteq PatchType
  BY MineTypes DEF S
<1>6. e \in Results(S) /\ e.status # "stop" /\ e.state.version = v
  BY <1>2, <1>3, <1>5, DecodeMutationsType
<1>7. ASSUME e.status = "ok" PROVE Held(c, e.state)
  <2> DEFINE a == Decoded(Begun(st), s, held)
             gen == a.gen
  <2>1. e.status = a.status /\ (a.status = "ok" => e.state = Finished(st, gen))
    BY DecodeMutationsIs
  <2>2. gen \in Gens /\ Listing(s, Len(s), gen)
    BY <1>1, <1>2, <1>3, <1>7, <2>1, RecordsListed
  <2> HIDE DEF a, e
  <2>3. e.state = [version |-> v, hash |-> SubtractThenAdd(gen.hash, gen.sub, gen.add), map |-> gen.map]
    BY <1>3, <1>7, <2>1, <2>2, FinishedType
  <2> HIDE DEF gen
  <2>4. /\ MapOK(gen.map) /\ Known(c, gen.map) /\ Agrees(c, gen.map, v)
        /\ SubtractThenAdd(gen.hash, gen.sub, gen.add) = HashOf(gen.map)
    BY <1>1, <2>2, ListedMap
  <2>5. e.state.version = v /\ e.state.map = gen.map /\ e.state.hash = HashOf(gen.map)
    BY <2>3, <2>4
  <2>6. Sound(e.state) /\ Exact(e.state)
    <3>1. HashOf(gen.map) \in Hashes /\ gen.map \in Maps
      BY <2>4, HashOfMap DEF MapOK
    <3> QED BY <1>0, <2>3, <2>4, <2>5, <3>1 DEF Sound, Exact, States
  <2> QED BY <2>4, <2>5, <2>6 DEF Held
<1>11. Part(server[c], 0, v, e.events)
  <2>1. Part(s, 0, Len(s), e.events)
    BY <1>1, <1>3, <1>10, DecodesPart
  <2> HIDE DEF e
  <2> QED BY <1>10, <2>1, PartOfPart
<1> HIDE DEF e
<1>12. Part(server[c], 0, v, d.events)
  <2>1. d.events = e.events \/ d.events = <<>>
    BY <1>4, <1>6 DEF WithEvents, Results
  <2>2. Part(server[c], 0, v, <<>>)
    BY PartEmpty
  <2> QED BY <1>11, <2>1, <2>2
<1>8. d \in Results(S) /\ d.status = e.status /\ d.state = e.state
  <2>1. d = WithEvents(e, TRUE) \/ d = WithEvents(e, FALSE)
    BY <1>4 DEF WithEvents
  <2>2. /\ WithEvents(e, TRUE) \in Results(S)
        /\ WithEvents(e, TRUE).status = e.status /\ WithEvents(e, TRUE).state = e.state
    BY <1>6, EventsType
  <2>3. /\ WithEvents(e, FALSE) \in Results(S)
        /\ WithEvents(e, FALSE).status = e.status /\ WithEvents(e, FALSE).state = e.state
    BY <1>6, EventsType
  <2> QED BY <2>1, <2>2, <2>3
<1> QED BY <1>6, <1>7, <1>8, <1>12 DEF S

-----------------------------------------------------------------------------
(* The server grows. *)

\* Collection d has got patch p.
Grows(d, p) == server' = [server EXCEPT ![d] = Append(@, p)]

\* What the server had it keeps.
Keeps ==
    \A c \in Collections : /\ Len(server[c]) <= Len(server'[c])
                           /\ \A n \in 1..Len(server[c]) : server'[c][n] = server[c][n]

\* Whoever patches takes the next MAC.
Fresh(p) == p \in PatchType /\ p.mac = NextMac

\* Where the new patch is, and what is as before.
LEMMA GrowsTo ==
  ASSUME ServerOK, NEW d \in Collections, NEW p, Fresh(p), Grows(d, p)
  PROVE  /\ server' \in [Collections -> Seq(PatchType)]
         /\ Len(server'[d]) = Len(server[d]) + 1
         /\ server'[d][Len(server[d]) + 1] = p
         /\ \A n \in 1..Len(server[d]) : server'[d][n] = server[d][n]
         /\ \A c \in Collections : c # d => server'[c] = server[c]
<1>1. server \in [Collections -> Seq(PatchType)] /\ p \in PatchType
  BY DEF ServerOK, Fresh
<1> DEFINE q == server[d]
           r == Append(q, p)
<1>2. server' = [server EXCEPT ![d] = r]
  BY DEF Grows
<1>3. q \in Seq(PatchType)
  BY <1>1
<1> HIDE DEF q
<1>4. /\ r \in Seq(PatchType) /\ Len(r) = Len(q) + 1 /\ r[Len(q) + 1] = p
      /\ \A n \in 1..Len(q) : r[n] = q[n]
  BY <1>1, <1>3
<1> HIDE DEF r
<1>5. /\ server' \in [Collections -> Seq(PatchType)] /\ server'[d] = r
      /\ \A c \in Collections : c # d => server'[c] = server[c]
  BY <1>1, <1>2, <1>4
<1> QED BY <1>4, <1>5 DEF q

\* Nothing of what the server had is lost.
LEMMA KeepsAll ==
  ASSUME ServerOK, NEW d \in Collections, NEW p, Fresh(p), Grows(d, p)
  PROVE  Keeps
<1>1. ASSUME NEW c \in Collections
      PROVE  /\ Len(server[c]) <= Len(server'[c])
             /\ \A n \in 1..Len(server[c]) : server'[c][n] = server[c][n]
  <2>1. Len(server[c]) \in Nat /\ Len(server[d]) \in Nat
    BY ServerTypes
  <2>2. CASE c = d
    BY <2>1, <2>2, GrowsTo
  <2>3. CASE c # d
    BY <2>1, <2>3, GrowsTo
  <2> QED BY <2>2, <2>3
<1> QED BY <1>1 DEF Keeps

\* Nor when nothing happens.
LEMMA KeepsSame ==
  ASSUME ServerOK, server' = server
  PROVE  Keeps
<1>1. \A c \in Collections : Len(server[c]) \in Nat
  BY ServerTypes
<1> QED BY <1>1 DEF Keeps

\* One patch more is accepted.
LEMMA AcceptedGrows ==
  ASSUME ServerOK, NEW d \in Collections, NEW p, Fresh(p), Grows(d, p)
  PROVE  Accepted' = Accepted \union {p}
<1> DEFINE l == Len(server[d])
<1>1. /\ \A c \in Collections : Len(server[c]) \in Nat /\ DOMAIN server[c] = 1..Len(server[c])
  BY ServerTypes
<1>2. /\ server' \in [Collections -> Seq(PatchType)]
      /\ Len(server'[d]) = l + 1
      /\ server'[d][l + 1] = p
      /\ \A n \in 1..l : server'[d][n] = server[d][n]
      /\ \A c \in Collections : c # d => server'[c] = server[c]
  BY GrowsTo
<1>3. DOMAIN server'[d] = 1..(l + 1)
  BY <1>2
<1>4. ASSUME NEW m \in Accepted' PROVE m \in Accepted \union {p}
  <2>0. PICK c \in Collections : \E n \in DOMAIN server'[c] : m = server'[c][n]
    BY DEF Accepted
  <2>1. PICK n \in DOMAIN server'[c] : m = server'[c][n]
    BY <2>0
  <2>2. CASE c # d
    BY <1>2, <2>1, <2>2 DEF Accepted
  <2>3. CASE c = d /\ n = l + 1
    BY <1>2, <2>1, <2>3
  <2>4. CASE c = d /\ n # l + 1
    <3>1. n \in 1..l /\ n \in DOMAIN server[d]
      BY <1>1, <1>3, <2>1, <2>4
    <3> QED BY <1>2, <2>1, <2>4, <3>1 DEF Accepted
  <2> QED BY <2>2, <2>3, <2>4
<1>5. ASSUME NEW m \in Accepted PROVE m \in Accepted'
  <2>0. PICK c \in Collections : \E n \in DOMAIN server[c] : m = server[c][n]
    BY DEF Accepted
  <2>1. PICK n \in DOMAIN server[c] : m = server[c][n]
    BY <2>0
  <2>2. CASE c # d
    BY <1>2, <2>1, <2>2 DEF Accepted
  <2>3. CASE c = d
    <3>1. n \in 1..l /\ n \in DOMAIN server'[d]
      BY <1>1, <1>3, <2>1, <2>3
    <3> QED BY <1>2, <2>1, <2>3, <3>1 DEF Accepted
  <2> QED BY <2>2, <2>3
<1>6. p \in Accepted'
  <2>1. l + 1 \in DOMAIN server'[d]
    BY <1>1, <1>3
  <2> QED BY <1>2, <2>1 DEF Accepted
<1> QED BY <1>4, <1>5, <1>6

(* Every patch keeps a MAC of its own.                                       *)
LEMMA ServerOKGrows ==
  ASSUME ServerOK, NEW d \in Collections, NEW p, Fresh(p), Grows(d, p)
  PROVE  ServerOK'
<1> DEFINE l == Len(server[d])
           N == Cardinality(Accepted)
<1>1. \A c \in Collections : Len(server[c]) \in Nat /\ DOMAIN server[c] = 1..Len(server[c])
  BY ServerTypes
<1>2. /\ server' \in [Collections -> Seq(PatchType)]
      /\ Len(server'[d]) = l + 1
      /\ server'[d][l + 1] = p
      /\ \A n \in 1..l : server'[d][n] = server[d][n]
      /\ \A c \in Collections : c # d => server'[c] = server[c]
  BY GrowsTo
<1>3. DOMAIN server'[d] = 1..(l + 1)
  BY <1>2
<1>4. IsFiniteSet(Accepted) /\ N \in Nat /\ p.mac = N + 1
  BY FS_CardinalityType DEF ServerOK, Fresh, NextMac
<1>5. \A m \in Accepted : m.mac \in 1..N
  <2> TAKE m \in Accepted
  <2>1. PICK c \in Collections : \E n \in DOMAIN server[c] : m = server[c][n]
    BY DEF Accepted
  <2> QED BY <2>1 DEF ServerOK
<1>6. p \notin Accepted
  BY <1>4, <1>5
<1>7. IsFiniteSet(Accepted') /\ Cardinality(Accepted') = N + 1
  <2>1. IsFiniteSet(Accepted \union {p}) /\ Cardinality(Accepted \union {p}) = N + 1
    BY <1>4, <1>6, FS_AddElement
  <2> QED BY <2>1, AcceptedGrows
<1> HIDE DEF N, l
<1>8. \A c \in Collections : \A n \in DOMAIN server'[c] : (c = d /\ n = l + 1) \/ (n \in DOMAIN server[c] /\ server'[c][n] = server[c][n])
  <2> TAKE c \in Collections
  <2> TAKE n \in DOMAIN server'[c]
  <2>1. CASE c = d
    BY <1>1, <1>2, <1>3, <2>1 DEF l
  <2>2. CASE c # d
    BY <1>2, <2>2
  <2> QED BY <2>1, <2>2
<1>9. \A c \in Collections : \A n \in DOMAIN server[c] : server[c][n].mac \in 1..N
  BY DEF ServerOK, N
<1>10. \A c \in Collections : \A n \in DOMAIN server'[c] : server'[c][n].mac \in 1..(N + 1)
  BY <1>2, <1>4, <1>8, <1>9
<1>11. \A c, e \in Collections : \A n \in DOMAIN server'[c], k \in DOMAIN server'[e] :
          server'[c][n].mac = server'[e][k].mac => c = e /\ n = k
  <2> TAKE c, e \in Collections
  <2> TAKE n \in DOMAIN server'[c], k \in DOMAIN server'[e]
  <2> HAVE server'[c][n].mac = server'[e][k].mac
  <2>1. CASE n \in DOMAIN server[c] /\ server'[c][n] = server[c][n] /\ k \in DOMAIN server[e] /\ server'[e][k] = server[e][k]
    BY <2>1 DEF ServerOK
  <2>2. CASE c = d /\ n = l + 1 /\ e = d /\ k = l + 1
    BY <2>2
  <2>3. CASE c = d /\ n = l + 1 /\ k \in DOMAIN server[e] /\ server'[e][k] = server[e][k]
    BY <1>2, <1>4, <1>9, <2>3
  <2>4. CASE e = d /\ k = l + 1 /\ n \in DOMAIN server[c] /\ server'[c][n] = server[c][n]
    BY <1>2, <1>4, <1>9, <2>4
  <2> QED BY <1>8, <2>1, <2>2, <2>3, <2>4
<1>12. \A c \in Collections : Rising(server'[c])
  <2> SUFFICES ASSUME NEW c \in Collections, NEW n \in 1..Len(server'[c]), NEW k \in 1..Len(server'[c]), n < k
               PROVE  server'[c][n].mac < server'[c][k].mac
    BY DEF Rising
  <2>1. DOMAIN server'[c] = 1..Len(server'[c])
    BY <1>2
  <2>2. n \in DOMAIN server'[c] /\ k \in DOMAIN server'[c] /\ l \in Nat
    BY <1>1, <2>1 DEF l
  <2>3. ~ (c = d /\ n = l + 1)
    BY <1>2, <2>2
  <2>4. n \in DOMAIN server[c] /\ server'[c][n] = server[c][n] /\ server[c][n].mac \in 1..N
    BY <1>8, <1>9, <2>2, <2>3
  <2>5. CASE c = d /\ k = l + 1
    BY <1>2, <1>4, <2>4, <2>5
  <2>6. CASE ~ (c = d /\ k = l + 1)
    <3>1. k \in DOMAIN server[c] /\ server'[c][k] = server[c][k]
      BY <1>8, <2>2, <2>6
    <3>2. n \in 1..Len(server[c]) /\ k \in 1..Len(server[c])
      BY <1>1, <2>4, <3>1
    <3>3. server[c][n].mac < server[c][k].mac
      BY <3>2 DEF ServerOK, Rising
    <3> QED BY <2>4, <3>1, <3>3
  <2> QED BY <2>5, <2>6
<1> QED BY <1>2, <1>7, <1>10, <1>11, <1>12 DEF ServerOK

\* The last patch of an index up to v stays the last.
LEMMA LastKept ==
  ASSUME ServerOK, Keeps, NEW c \in Collections, NEW v \in 0..Len(server[c]), NEW i
  PROVE  /\ LastAt(c, i, v)' = LastAt(c, i, v)
         /\ LastAt(c, i, v) > 0 => server'[c][LastAt(c, i, v)] = server[c][LastAt(c, i, v)]
<1>1. v \in Nat /\ Len(server[c]) \in Nat
  BY ServerTypes
<1>2. \A n \in 1..v : server'[c][n] = server[c][n]
  BY <1>1 DEF Keeps
<1>3. {n \in 1..v : server'[c][n].index = i} = {n \in 1..v : server[c][n].index = i}
  BY <1>2
<1>4. LastAt(c, i, v)' = LastAt(c, i, v)
  <2> DEFINE Greatest(s) == IF s = {} THEN 0 ELSE CHOOSE n \in s : \A k \in s : k <= n
             at == {n \in 1..v : server[c][n].index = i}
             then == {n \in 1..v : server'[c][n].index = i}
  <2>1. LastAt(c, i, v) = Greatest(at)
    BY DEF LastAt
  <2>2. LastAt(c, i, v)' = Greatest(then)
    BY DEF LastAt
  <2> HIDE DEF Greatest
  <2> QED BY <1>3, <2>1, <2>2
<1>5. LastAt(c, i, v) \in 0..v
  BY <1>1, LastIs
<1> QED BY <1>1, <1>2, <1>4, <1>5

\* A state that holds a version goes on holding it.
LEMMA HeldKept ==
  ASSUME ServerOK, Keeps, server' \in [Collections -> Seq(PatchType)],
         NEW c \in Collections, NEW st, Held(c, st)
  PROVE  Held(c, st)'
<1> DEFINE v == st.version
           map == st.map
<1>1. /\ Sound(st) /\ v \in 0..Len(server[c]) /\ Known(c, map) /\ Agrees(c, map, v)
      /\ Removed(c, v) \/ Exact(st)
  BY DEF Held
<1>2. /\ Len(server[c]) \in Nat /\ Len(server'[c]) \in Nat /\ Len(server[c]) <= Len(server'[c])
      /\ DOMAIN server[c] = 1..Len(server[c]) /\ DOMAIN server'[c] = 1..Len(server'[c])
      /\ \A n \in 1..Len(server[c]) : server'[c][n] = server[c][n]
  <2>1. server'[c] \in Seq(PatchType)
    OBVIOUS
  <2>2. Len(server'[c]) \in Nat /\ DOMAIN server'[c] = 1..Len(server'[c])
    BY <2>1
  <2> QED BY <2>2, ServerTypes DEF Keeps
<1> HIDE DEF v, map
<1>3. v \in 0..Len(server'[c])
  BY <1>1, <1>2
<1>4. Known(c, map)'
  BY <1>1, <1>2 DEF Known
<1>5. ASSUME NEW i \in Indexes
      PROVE  \/ Astray(c, i, v)'
             \/ /\ IsSet(c, i, v)' <=> i \in DOMAIN map
                /\ IsSet(c, i, v)' => map[i] = server'[c][LastAt(c, i, v)'].mac
  <2>1. /\ LastAt(c, i, v)' = LastAt(c, i, v)
        /\ LastAt(c, i, v) > 0 => server'[c][LastAt(c, i, v)] = server[c][LastAt(c, i, v)]
    BY <1>1, LastKept
  <2>2. \/ Astray(c, i, v)
        \/ /\ IsSet(c, i, v) <=> i \in DOMAIN map
           /\ IsSet(c, i, v) => map[i] = server[c][LastAt(c, i, v)].mac
    BY <1>1 DEF Agrees
  <2> QED BY <2>1, <2>2 DEF IsSet, Astray
<1>6. Agrees(c, map, v)'
  BY <1>5 DEF Agrees
<1>7. Removed(c, v) => Removed(c, v)'
  BY <1>1, <1>2 DEF Removed
<1> QED BY <1>1, <1>3, <1>4, <1>6, <1>7 DEF Held, v, map

\* The patches of c stay its patches.
LEMMA MineKept ==
  ASSUME ServerOK, Keeps, server' \in [Collections -> Seq(PatchType)], NEW c \in Collections
  PROVE  Mine(c) \subseteq Mine(c)'
<1>1. server'[c] \in Seq(PatchType)
  OBVIOUS
<1>2. Len(server'[c]) \in Nat /\ DOMAIN server'[c] = 1..Len(server'[c])
  BY <1>1
<1>3. DOMAIN server[c] \subseteq DOMAIN server'[c] /\ \A n \in DOMAIN server[c] : server'[c][n] = server[c][n]
  BY <1>2, ServerTypes DEF Keeps
<1> QED BY <1>3 DEF Mine

\* What the patches amount to stays.
LEMMA TrueMapKept ==
  ASSUME ServerOK, Keeps, NEW c \in Collections, NEW v \in 0..Len(server[c])
  PROVE  TrueMap(c, v)' = TrueMap(c, v)
<1>1. \A i : /\ LastAt(c, i, v)' = LastAt(c, i, v)
             /\ LastAt(c, i, v) > 0 => server'[c][LastAt(c, i, v)] = server[c][LastAt(c, i, v)]
  BY LastKept
<1> DEFINE D == {i \in Indexes : IsSet(c, i, v)}
           f == [i \in D |-> server[c][LastAt(c, i, v)].mac]
<1>2. TrueMap(c, v) = f
  BY DEF TrueMap, IsSet
<1>3. D' = D
  BY <1>1 DEF IsSet
<1>4. TrueMap(c, v)' = [i \in D' |-> server'[c][LastAt(c, i, v)'].mac]
  BY DEF TrueMap, IsSet
<1>5. \A i \in D : server'[c][LastAt(c, i, v)'].mac = server[c][LastAt(c, i, v)].mac
  BY <1>1 DEF IsSet
<1> QED BY <1>2, <1>3, <1>4, <1>5

-----------------------------------------------------------------------------
(* What the patches amount to, and what a patch of another device claims. *)

\* What patches amount to is a map of known values.
LEMMA TrueMapOK ==
  ASSUME ServerOK, NEW c \in Collections, NEW v \in 0..Len(server[c])
  PROVE  MapOK(TrueMap(c, v)) /\ Known(c, TrueMap(c, v))
<1> DEFINE map == TrueMap(c, v)
           D == {i \in Indexes : IsSet(c, i, v)}
<1>0. v \in Nat /\ Len(server[c]) \in Nat /\ 1..v \subseteq DOMAIN server[c]
  BY ServerTypes
<1>1. map = [i \in D |-> server[c][LastAt(c, i, v)].mac]
  BY DEF TrueMap, IsSet
<1>2. \A i \in D : LastAt(c, i, v) \in DOMAIN server[c] /\ server[c][LastAt(c, i, v)].index = i
  <2> TAKE i \in D
  <2>1. LastAt(c, i, v) \in 0..v /\ LastAt(c, i, v) > 0 /\ server[c][LastAt(c, i, v)].index = i
    BY <1>0, LastIs DEF IsSet
  <2> QED BY <1>0, <2>1
<1>3. \A i \in D : server[c][LastAt(c, i, v)].mac \in Macs \intersect (1..Cardinality(Accepted))
  <2> TAKE i \in D
  <2>1. server[c][LastAt(c, i, v)] \in PatchType
    BY <1>2, ServerTypes
  <2> QED BY <1>2, <2>1 DEF ServerOK, PatchType
<1> HIDE DEF map
<1>4. DOMAIN map = D /\ \A i \in D : map[i] = server[c][LastAt(c, i, v)].mac
  BY <1>1
<1>5. map \in [D -> Macs] /\ D \in SUBSET Indexes
  BY <1>1, <1>3
<1>6. map \in Maps
  BY <1>5 DEF Maps
<1>7. Known(c, map)
  BY <1>2, <1>4 DEF Known
<1>8. IsFiniteSet(Values(map))
  <2>1. Values(map) \subseteq 1..Cardinality(Accepted)
    BY <1>3, <1>4 DEF Values
  <2>2. IsFiniteSet(1..Cardinality(Accepted))
    <3>1. Cardinality(Accepted) \in Nat
      BY FS_CardinalityType DEF ServerOK
    <3> QED BY <3>1, FS_Interval
  <2> QED BY <2>1, <2>2, FS_Subset
<1>9. \A i, k \in DOMAIN map : map[i] = map[k] => i = k
  <2> TAKE i, k \in DOMAIN map
  <2> HAVE map[i] = map[k]
  <2>1. LastAt(c, i, v) = LastAt(c, k, v)
    BY <1>2, <1>4 DEF ServerOK
  <2> QED BY <1>2, <1>4, <2>1
<1> QED BY <1>6, <1>7, <1>8, <1>9 DEF MapOK, map

\* Where nothing is skipped and nothing put back, a map is what the patches
\* amount to.
LEMMA HeldIsTrue ==
  ASSUME ServerOK, NEW c \in Collections, NEW st, Held(c, st), ~ Removed(c, st.version),
         \A k \in 1..st.version : server[c][k].broken = "no"
  PROVE  st.map = TrueMap(c, st.version)
<1> DEFINE v == st.version
           map == st.map
           true == TrueMap(c, v)
<1>1. /\ v \in Nat /\ MapOK(map) /\ Agrees(c, map, v)
  BY ServerTypes DEF Held, Sound
<1>2. DOMAIN map \subseteq Indexes /\ map = [i \in DOMAIN map |-> map[i]]
  BY <1>1, ValuesAreMacs
<1>3. /\ DOMAIN true = {i \in Indexes : IsSet(c, i, v)}
      /\ \A i \in Indexes : IsSet(c, i, v) => true[i] = server[c][LastAt(c, i, v)].mac
      /\ true = [i \in DOMAIN true |-> true[i]]
  BY DEF TrueMap, IsSet
<1>4. \A i \in Indexes : ~ Astray(c, i, v)
  <2> TAKE i \in Indexes
  <2>1. LastAt(c, i, v) \in 0..v
    BY <1>1, LastIs
  <2>2. LastAt(c, i, v) > 0 => LastAt(c, i, v) \in 1..v
    BY <1>1, <2>1
  <2> QED BY <2>2 DEF Astray, Unlike, Removed
<1> HIDE DEF map, true, v
<1>5. DOMAIN map = DOMAIN true /\ \A i \in DOMAIN map : map[i] = true[i]
  BY <1>1, <1>2, <1>3, <1>4 DEF Agrees
<1>6. map = true
  BY <1>2, <1>3, <1>5
<1> QED BY <1>6 DEF map, true, v

\* One more patch is mixed into what the patches amount to.
LEMMA TrueMapNext ==
  ASSUME ServerOK, NEW c \in Collections, NEW v \in Nat, v + 1 <= Len(server[c])
  PROVE  TrueMap(c, v + 1) = Mixed(TrueMap(c, v), server[c][v + 1])
<1> DEFINE m == server[c][v + 1]
           old == TrueMap(c, v)
           new == TrueMap(c, v + 1)
           r == Mixed(old, m)
<1>1. Len(server[c]) \in Nat /\ m \in PatchType /\ v + 1 \in 1..Len(server[c])
  BY ServerTypes
<1>2. m.index \in Indexes /\ m.op \in {"set", "remove"}
  BY <1>1 DEF PatchType
<1>3. \A i : LastAt(c, i, v + 1) = IF m.index = i THEN v + 1 ELSE LastAt(c, i, v)
  BY <1>1, LastNext
<1>4. /\ DOMAIN old = {i \in Indexes : IsSet(c, i, v)}
      /\ \A i \in Indexes : IsSet(c, i, v) => old[i] = server[c][LastAt(c, i, v)].mac
      /\ DOMAIN new = {i \in Indexes : IsSet(c, i, v + 1)}
      /\ \A i \in Indexes : IsSet(c, i, v + 1) => new[i] = server[c][LastAt(c, i, v + 1)].mac
  BY TrueMapIs
<1>5. new = [i \in DOMAIN new |-> new[i]]
  BY DEF TrueMap
<1> HIDE DEF old, new
<1>6. \A i \in Indexes : IsSet(c, i, v + 1) <=> IF m.index = i THEN m.op = "set" ELSE IsSet(c, i, v)
  BY <1>1, <1>3 DEF IsSet
<1>7. /\ r = [i \in DOMAIN r |-> r[i]]
      /\ DOMAIN r = IF m.op = "set" THEN DOMAIN old \union {m.index} ELSE DOMAIN old \ {m.index}
      /\ \A i \in DOMAIN r : r[i] = IF i = m.index THEN m.mac ELSE old[i]
  BY DEF Mixed, Put, Without
<1> HIDE DEF r, m
<1>8. DOMAIN r = DOMAIN new
  BY <1>2, <1>4, <1>6, <1>7
<1>9. \A i \in DOMAIN new : r[i] = new[i]
  <2> TAKE i \in DOMAIN new
  <2>1. i \in Indexes /\ IsSet(c, i, v + 1) /\ new[i] = server[c][LastAt(c, i, v + 1)].mac
    BY <1>4
  <2>2. CASE i = m.index
    BY <1>3, <1>7, <1>8, <2>1, <2>2 DEF m
  <2>3. CASE i # m.index
    <3>1. IsSet(c, i, v) /\ LastAt(c, i, v + 1) = LastAt(c, i, v)
      BY <1>3, <1>6, <2>1, <2>3
    <3> QED BY <1>4, <1>7, <1>8, <2>1, <2>3, <3>1
  <2> QED BY <2>2, <2>3
<1>10. r = new
  BY <1>5, <1>7, <1>8, <1>9
<1> QED BY <1>10 DEF r, new, old, m

\* What Claimed takes, before the patch is there.
LEMMA ClaimedIsHash ==
  ASSUME ServerOK, NEW c \in Collections, NEW m, IsMutation(m), m.mac = NextMac
  PROVE  HashOf(Claimed(c, m)) \in Hashes
<1> DEFINE map == TrueMap(c, Len(server[c]))
<1>1. Len(server[c]) \in 0..Len(server[c])
  BY ServerTypes
<1>2. MapOK(map) /\ Known(c, map)
  BY <1>1, TrueMapOK
<1>3. Claimed(c, m) = Mixed(map, m)
  BY DEF Claimed, Mixed
<1> HIDE DEF map
<1>4. \A j \in DOMAIN map : map[j] # m.mac
  <2> TAKE j \in DOMAIN map
  <2>1. map[j] \in 1..Cardinality(Accepted)
    BY <1>2 DEF Known, ServerOK
  <2>2. Cardinality(Accepted) \in Nat
    BY FS_CardinalityType DEF ServerOK
  <2> QED BY <2>1, <2>2 DEF NextMac
<1>5. Fits(map, m)
  BY <1>4 DEF Fits
<1>6. MapOK(Mixed(map, m))
  BY <1>2, <1>5, MixedIsMap
<1> QED BY <1>3, <1>6, HashOfMap

-----------------------------------------------------------------------------
(* The invariant. *)

Owns == [collection : Collections, index : Indexes, op : {"set", "remove"}, key : Keys]

Answered == [snapshot : BOOLEAN, after : Nat, upto : Nat, more : BOOLEAN]

StateMaps == [Collections -> States \union {None}]

\* A task that resyncs, and what is left of its record at the end.
Syncs == [phase : {"syncing", "patching", "done"}, remaining : SUBSET Collections,
          own : Owns \union {None},
          attempts : [Collections -> Nat], minimum : [Collections -> Nat \union {None}],
          forced : SUBSET Collections,
          answers : UNION {[d -> Answered] : d \in SUBSET Collections},
          states : StateMaps, absent : SUBSET (Keys \union {None}),
          events : [Collections -> Seq(PatchType)]]

\* What a task or the store holds of the collections.
AllHeld(states) == \A c \in Collections : states[c] # None => Held(c, states[c])

StateIn(states, c) == IF states[c] = None THEN NewState ELSE states[c]

\* An answer is about what the server had and what the task held of c.
AnswerOK(c, answer, states) ==
    /\ answer \in Answered
    /\ answer.after <= answer.upto /\ answer.upto <= Len(server[c])
    /\ answer.more => answer.after < answer.upto
    /\ ~ answer.snapshot => answer.after = StateIn(states, c).version

SyncOK(t) ==
    /\ t \in Syncs
    /\ AllHeld(t.states)
    /\ \A c \in DOMAIN t.answers : AnswerOK(c, t.answers[c], t.states)
    /\ \A c \in Collections : t.events[c] \in Seq(Mine(c))
    /\ t.phase = "patching" => t.own \in Owns

AcceptedOK(t) ==
    /\ t \in [phase : {"accepted"}, own : Owns, patch : PatchType, states : StateMaps, encoded : States]
    /\ AllHeld(t.states)
    /\ Held(t.own.collection, t.encoded)
    /\ t.encoded.version = StateIn(t.states, t.own.collection).version + 1
    /\ t.patch = server[t.own.collection][t.encoded.version]

DoneOK(t) ==
    /\ t \in [phase : {"done"}, states : StateMaps]
    /\ AllHeld(t.states)

TaskOK == task = Idle \/ SyncOK(task) \/ AcceptedOK(task) \/ DoneOK(task)

KeysOK == keys \in [held : SUBSET Keys, mine : Keys \union {None}] /\ keys.mine \in keys.held \union {None}

StoredOK == stored \in StateMaps /\ AllHeld(stored)

AppStateInv ==
    /\ ServerOK
    /\ KeysOK
    /\ StoredOK
    /\ shown \subseteq Accepted
    /\ OthersAccept
    /\ TaskOK

\* The phase tells which of its forms the task has.
LEMMA PhaseOf ==
  ASSUME TaskOK
  PROVE  /\ task.phase = "syncing" => SyncOK(task)
         /\ task.phase = "patching" => SyncOK(task) /\ task.own \in Owns
         /\ task.phase = "accepted" => AcceptedOK(task)
         /\ task.phase = "done" => task.states \in StateMaps /\ AllHeld(task.states)
         /\ task.phase \in {"idle", "syncing", "patching", "accepted", "done"}
  BY DEF TaskOK, Idle, SyncOK, AcceptedOK, DoneOK, Syncs

\* What a task starts from is held, or new.
LEMMA StateInHeld ==
  ASSUME ServerOK, NEW c \in Collections, NEW states, AllHeld(states)
  PROVE  Held(c, StateIn(states, c))
  BY NewIsHeld DEF StateIn, AllHeld

\* What is held is a state.
LEMMA HeldType ==
  ASSUME NEW c, NEW st, Held(c, st)
  PROVE  st \in States
  BY DEF Held, Sound

\* What is held, and what answers are about, outlives a patch.
LEMMA AllHeldKept ==
  ASSUME ServerOK, Keeps, server' \in [Collections -> Seq(PatchType)]
  PROVE  /\ \A c \in Collections : \A st : Held(c, st) => Held(c, st)'
         /\ \A s : AllHeld(s) => AllHeld(s)'
         /\ \A c \in Collections : Seq(Mine(c)) \subseteq Seq(Mine(c)')
         /\ \A c \in Collections : \A a, s : AnswerOK(c, a, s) => AnswerOK(c, a, s)'
<1>1. \A c \in Collections : \A st : Held(c, st) => Held(c, st)'
  BY HeldKept
<1>2. \A s : AllHeld(s) => AllHeld(s)'
  BY <1>1 DEF AllHeld
<1>3. \A c \in Collections : Seq(Mine(c)) \subseteq Seq(Mine(c)')
  <2> TAKE c \in Collections
  <2> DEFINE M == Mine(c)
             N == Mine(c)'
  <2>1. M \subseteq N
    BY MineKept
  <2> HIDE DEF M, N
  <2>2. Seq(M) \subseteq Seq(N)
    BY <2>1
  <2> QED BY <2>2 DEF M, N
<1>4. ASSUME NEW c \in Collections, NEW a, NEW s, AnswerOK(c, a, s)
      PROVE  AnswerOK(c, a, s)'
  <2>1. Len(server[c]) \in Nat /\ Len(server'[c]) \in Nat /\ Len(server[c]) <= Len(server'[c])
    <3>1. server'[c] \in Seq(PatchType)
      OBVIOUS
    <3>2. Len(server'[c]) \in Nat
      BY <3>1
    <3> QED BY <3>2, ServerTypes DEF Keeps
  <2> QED BY <1>4, <2>1 DEF AnswerOK, Answered
<1> QED BY <1>1, <1>2, <1>3, <1>4

(* What the task holds stays true when the server grows.                     *)
LEMMA TaskKept ==
  ASSUME ServerOK, Keeps, server' \in [Collections -> Seq(PatchType)]
  PROVE  /\ \A t : SyncOK(t) => SyncOK(t)'
         /\ \A t : AcceptedOK(t) => AcceptedOK(t)'
         /\ \A t : DoneOK(t) => DoneOK(t)'
<1>1. ASSUME NEW t, SyncOK(t) PROVE SyncOK(t)'
  <2>1. t \in Syncs
    BY <1>1 DEF SyncOK
  <2>2. DOMAIN t.answers \subseteq Collections
    BY <2>1 DEF Syncs
  <2> QED BY <1>1, <2>1, <2>2, AllHeldKept DEF SyncOK
<1>2. ASSUME NEW t, AcceptedOK(t) PROVE AcceptedOK(t)'
  <2>1. t.own.collection \in Collections
    BY <1>2 DEF AcceptedOK, Owns
  <2>2. Held(t.own.collection, t.encoded) /\ StateIn(t.states, t.own.collection) \in States
    BY <1>2, <2>1, StateInHeld, HeldType DEF AcceptedOK
  <2>3. t.encoded.version \in 1..Len(server[t.own.collection])
    <3>1. StateIn(t.states, t.own.collection).version \in Nat
      BY <2>2 DEF States
    <3> QED BY <1>2, <2>1, <2>2, <3>1, ServerTypes DEF AcceptedOK, Held
  <2>4. server'[t.own.collection][t.encoded.version] = server[t.own.collection][t.encoded.version]
    BY <2>1, <2>3 DEF Keeps
  <2> QED BY <1>2, <2>1, <2>2, <2>4, AllHeldKept DEF AcceptedOK
<1>3. ASSUME NEW t, DoneOK(t) PROVE DoneOK(t)'
  BY <1>3, AllHeldKept DEF DoneOK
<1> QED BY <1>1, <1>2, <1>3

-----------------------------------------------------------------------------
(* An answer is read. *)

\* A page follows the version the answer begins after.
LEMMA PatchesFollow ==
  ASSUME ServerOK, NEW c \in Collections, NEW a, NEW s, AnswerOK(c, a, s)
  PROVE  /\ Patches(c, a) \in Seq(Pages(Mine(c)))
         /\ Len(Patches(c, a)) = a.upto - a.after
         /\ Follows(c, a.after, Patches(c, a))
<1> DEFINE v == a.after
           l == a.upto - a.after
           S == Mine(c)
           Page(n) == [version |-> v + n, claim |-> server[c][v + n].claim, mutations |-> <<server[c][v + n]>>]
           patches == [n \in 1..l |-> Page(n)]
<1>1. /\ v \in Nat /\ l \in Nat /\ v + l <= Len(server[c]) /\ Len(server[c]) \in Nat
  BY ServerTypes DEF AnswerOK, Answered
<1>2. Patches(c, a) = patches
  BY DEF Patches
<1>3. ASSUME NEW n \in 1..l PROVE Page(n) \in Pages(S)
  <2> DEFINE m == server[c][v + n]
  <2>1. v + n \in 1..Len(server[c]) /\ v + n \in Nat
    BY <1>1
  <2>2. m \in PatchType /\ m \in S
    BY <2>1, ServerTypes DEF Mine
  <2>3. m.claim \in Hashes
    BY <2>2 DEF PatchType
  <2> HIDE DEF m, S
  <2>4. <<m>> \in Seq(S)
    BY <2>2
  <2>5. [version |-> v + n, claim |-> m.claim, mutations |-> <<m>>] \in Pages(S)
    BY <2>1, <2>3, <2>4 DEF Pages
  <2> QED BY <2>5 DEF m
<1> DEFINE T == Pages(S)
<1>4. patches \in Seq(T) /\ Len(patches) = l /\ \A n \in 1..l : patches[n] = Page(n)
  <2> HIDE DEF Page, T, S, l
  <2>1. \A n \in 1..l : Page(n) \in T
    BY <1>3 DEF T
  <2> QED BY <1>1, <2>1
<1>5. \A n \in 1..l : Page(n).version = v + n /\ Page(n).mutations = <<server[c][v + n]>>
  OBVIOUS
<1> HIDE DEF patches, Page, l
<1>6. Follows(c, v, patches)
  BY <1>1, <1>4, <1>5 DEF Follows
<1> QED BY <1>2, <1>4, <1>6 DEF l

\* The version after which an answer has mutations: a snapshot has all there were.
Base(a) == IF a.snapshot THEN 0 ELSE a.after

\* maybe_decode_snapshot/5 gives a state that holds the version of the snapshot.
LEMMA SnapshotReadIs ==
  ASSUME ServerOK, SyncOK(task), NEW c \in Collections, NEW a, AnswerOK(c, a, task.states)
  PROVE  /\ SnapshotRead(c, a) \in Results(Mine(c))
         /\ SnapshotRead(c, a).status # "stop"
         /\ SnapshotRead(c, a).status = "ok" =>
               Held(c, SnapshotRead(c, a).state) /\ SnapshotRead(c, a).state.version = a.after
         /\ Part(server[c], Base(a), a.after, SnapshotRead(c, a).events)
<1> DEFINE v == a.after
           d == SnapshotRead(c, a)
<1>1. CASE a.snapshot
  <2>1. v \in 0..Len(server[c])
    BY ServerTypes DEF AnswerOK, Answered
  <2>2. d = DecodeSnapshot([version |-> v, records |-> Records(c, v)], task.minimum[c], Visible)
    BY <1>1 DEF SnapshotRead
  <2> HIDE DEF d, v
  <2>3. /\ d \in Results(Mine(c))
        /\ d.status # "stop"
        /\ d.status = "ok" => Held(c, d.state) /\ d.state.version = v
        /\ Part(server[c], 0, v, d.events)
    BY <2>1, <2>2, SnapshotHolds
  <2>4. Base(a) = 0
    BY <1>1 DEF Base
  <2> QED BY <2>3, <2>4 DEF d, v
<1>2. CASE ~ a.snapshot
  <2> DEFINE st == StateIn(task.states, c)
             S == Mine(c)
  <2>1. Held(c, st) /\ st.version = v
    BY <1>2, StateInHeld DEF SyncOK, AnswerOK
  <2>2. d = [status |-> "ok", key |-> None, state |-> st, events |-> <<>>]
    BY <1>2 DEF SnapshotRead, StateOf, StateIn
  <2>3. <<>> \in Seq(S)
    OBVIOUS
  <2>4. st \in States
    BY <2>1, HeldType
  <2> HIDE DEF st, S, d, v
  <2>5. d \in Results(S)
    BY <2>2, <2>3, <2>4 DEF Results
  <2>6. Part(server[c], Base(a), v, <<>>)
    BY PartEmpty
  <2> QED BY <2>1, <2>2, <2>5, <2>6 DEF d, v, S
<1> QED BY <1>1, <1>2

\* maybe_decode_patches/5 gives a state that holds the version it got to.
LEMMA PatchesReadIs ==
  ASSUME ServerOK, NEW c \in Collections, NEW a, NEW s, AnswerOK(c, a, s),
         NEW d \in Results(Mine(c)), d.status # "stop",
         d.status = "ok" => Held(c, d.state) /\ d.state.version = a.after,
         Part(server[c], Base(a), a.after, d.events),
         NEW r, r = PatchesRead(c, a, d)
  PROVE  /\ r \in Results(Mine(c))
         /\ r.status \in {"ok", "stop"} =>
               /\ d.status = "ok"
               /\ Held(c, r.state)
               /\ a.after < a.upto => a.after < r.state.version
               /\ a.after = a.upto => a.after = r.state.version
               /\ Part(server[c], Base(a), r.state.version, r.events)
<1> DEFINE S == Mine(c)
           v == a.after
<1>0. v \in Nat /\ a.upto \in Nat /\ v <= a.upto /\ Base(a) \in Nat /\ Base(a) <= v
  BY DEF AnswerOK, Answered, Base
<1>1. CASE d.status # "ok" \/ a.upto = v
  <2>1. r = d
    BY <1>1 DEF PatchesRead
  <2> QED BY <1>0, <1>1, <2>1
<1>2. CASE d.status = "ok" /\ a.upto # v
  <2> DEFINE q == Patches(c, a)
             p == DecodePatches(q, d.state, task.minimum[c], Visible, Validate)
  <2>1. q \in Seq(Pages(S)) /\ Len(q) = a.upto - v /\ Follows(c, d.state.version, q)
    BY <1>2, PatchesFollow
  <2>2. r = [p EXCEPT !.events = d.events \o @]
    BY <1>2 DEF PatchesRead
  <2>3. S \subseteq PatchType
    BY MineTypes
  <2> HIDE DEF q, S
  <2>4. p \in Results(S) /\ Reached(c, d.state.version, Len(q), p)
    <3>1. Held(c, d.state)
      BY <1>2
    <3> DEFINE st == d.state
    <3> HIDE DEF st
    <3>2. Held(c, st) /\ Follows(c, st.version, q)
      BY <2>1, <3>1 DEF st
    <3>3. \A minimum, held, validate :
             /\ DecodePatches(q, st, minimum, held, validate) \in Results(S)
             /\ Reached(c, st.version, Len(q), DecodePatches(q, st, minimum, held, validate))
      BY <2>1, <2>3, <3>2, PageHolds
    <3>4. \A validate :
             /\ DecodePatches(q, st, task.minimum[c], Visible, validate) \in Results(S)
             /\ Reached(c, st.version, Len(q), DecodePatches(q, st, task.minimum[c], Visible, validate))
      BY <3>3
    <3> QED BY <3>4 DEF st
  <2> HIDE DEF p
  <2>5. d.events \in Seq(S) /\ p.events \in Seq(S)
    BY <2>4 DEF Results, S
  <2>6. d.events \o p.events \in Seq(S)
    BY <2>5
  <2>7. r \in Results(S) /\ r.status = p.status /\ r.state = p.state
    BY <2>2, <2>4, <2>6 DEF Results
  <2>8. r.status \in {"ok", "stop"} => Held(c, r.state) /\ v < r.state.version
    BY <1>0, <1>2, <2>1, <2>4, <2>7 DEF Reached
  <2>9. ASSUME r.status \in {"ok", "stop"} PROVE Part(server[c], Base(a), r.state.version, r.events)
    <3> DEFINE z == server[c]
               x == Base(a)
               y == r.state.version
               e == d.events
               f == p.events
    <3>1. d.state.version = v
      BY <1>2
    <3>2. Part(z, x, v, e) /\ Part(z, v, y, f)
      BY <2>4, <2>7, <2>9, <3>1 DEF Reached
    <3>3. y \in Nat /\ v <= y /\ y <= Len(z) /\ Len(z) \in Nat
      <4>1. Held(c, r.state) /\ v < y
        BY <2>8, <2>9
      <4> QED BY <1>0, <4>1, ServerTypes DEF Held
    <3>4. Rising(z)
      BY DEF ServerOK
    <3>5. r.events = e \o f
      BY <2>2, <2>4 DEF Results
    <3> HIDE DEF z, x, y, e, f
    <3>6. e \in Seq(S) /\ f \in Seq(S) /\ x \in Nat /\ x <= v
      BY <1>0, <2>5 DEF e, f, x
    <3>7. Part(z, x, y, e \o f)
      BY <1>0, <3>2, <3>3, <3>4, <3>6, PartJoins
    <3> QED BY <3>5, <3>7 DEF z, x, y
  <2> QED BY <1>2, <2>7, <2>8, <2>9 DEF S
<1> QED BY <1>1, <1>2

-----------------------------------------------------------------------------
(* The steps that leave the server alone. *)

\* Nothing that is said of the server and its states changes without it.
LEMMA SameServer ==
  ASSUME ServerOK, OthersAccept, UNCHANGED server
  PROVE  /\ ServerOK' /\ OthersAccept' /\ Accepted' = Accepted
         /\ \A c \in Collections : \A st : Held(c, st) => Held(c, st)'
         /\ \A s : AllHeld(s) => AllHeld(s)'
         /\ \A c \in Collections : \A a, s : AnswerOK(c, a, s) => AnswerOK(c, a, s)'
         /\ \A t : SyncOK(t) => SyncOK(t)'
         /\ \A t : AcceptedOK(t) => AcceptedOK(t)'
         /\ \A t : DoneOK(t) => DoneOK(t)'
<1>1. Accepted' = Accepted
  BY DEF Accepted
<1>2. ServerOK'
  BY <1>1 DEF ServerOK
<1>3. Keeps /\ server' \in [Collections -> Seq(PatchType)]
  BY KeepsSame DEF ServerOK
<1>4. ASSUME NEW c \in Collections, NEW n \in DOMAIN server[c]
      PROVE  TrueMap(c, n)' = TrueMap(c, n)
  <2>1. n \in 0..Len(server[c])
    BY ServerTypes
  <2> QED BY <1>3, <2>1, TrueMapKept
<1>5. OthersAccept'
  BY <1>4 DEF OthersAccept, Removed
<1> QED BY <1>1, <1>2, <1>3, <1>5, AllHeldKept, TaskKept

\* At the start there is nothing.
LEMMA InitHolds ==
  ASSUME Init
  PROVE  AppStateInv
<1>1. \A c \in Collections : server[c] = <<>> /\ DOMAIN server[c] = {}
  BY DEF Init
<1>2. Accepted = {}
  BY <1>1 DEF Accepted
<1>3. ServerOK
  <2>1. server \in [Collections -> Seq(PatchType)]
    <3> DEFINE e == <<>>
    <3>1. e \in Seq(PatchType)
      OBVIOUS
    <3>2. server = [c \in Collections |-> e]
      BY DEF Init
    <3> HIDE DEF e
    <3> QED BY <3>1, <3>2
  <2>2. IsFiniteSet(Accepted)
    BY <1>2, FS_EmptySet
  <2>3. Rising(<<>>)
    BY PartEmpty DEF Part
  <2> QED BY <1>1, <2>1, <2>2, <2>3 DEF ServerOK
<1>4. KeysOK
  BY DEF Init, KeysOK
<1>5. StoredOK
  BY DEF Init, StoredOK, StateMaps, AllHeld
<1>6. shown \subseteq Accepted /\ TaskOK
  BY DEF Init, TaskOK
<1>7. OthersAccept
  BY <1>1 DEF OthersAccept
<1> QED BY <1>3, <1>4, <1>5, <1>6, <1>7 DEF AppStateInv

\* A key comes in.
LEMMA KeyShareHolds ==
  ASSUME AppStateInv, NEW k \in Keys, KeyShare(k)
  PROVE  AppStateInv'
<1> USE DEF KeyShare
<1>1. /\ ServerOK /\ OthersAccept /\ TaskOK /\ KeysOK /\ StoredOK /\ shown \subseteq Accepted
  BY DEF AppStateInv
<1>2. ServerOK' /\ OthersAccept' /\ Accepted' = Accepted
  BY <1>1, SameServer
<1>3. TaskOK'
  BY <1>1, SameServer DEF TaskOK
<1>4. StoredOK'
  BY <1>1, SameServer DEF StoredOK
<1>5. KeysOK'
  BY <1>1 DEF KeysOK
<1> QED BY <1>1, <1>2, <1>3, <1>4, <1>5 DEF AppStateInv

\* Where only the task, and maybe what is shown, changes.
LEMMA TaskSteps ==
  ASSUME AppStateInv, UNCHANGED <<server, keys, stored>>, shown' \subseteq Accepted, TaskOK'
  PROVE  AppStateInv'
<1>1. /\ ServerOK /\ OthersAccept /\ KeysOK /\ StoredOK
  BY DEF AppStateInv
<1>2. ServerOK' /\ OthersAccept' /\ Accepted' = Accepted
  BY <1>1, SameServer
<1>3. StoredOK'
  BY <1>1, SameServer DEF StoredOK
<1>4. KeysOK'
  BY <1>1 DEF KeysOK
<1> QED BY <1>2, <1>3, <1>4 DEF AppStateInv

\* A task begins with what is stored.
LEMMA StartedOK ==
  ASSUME ServerOK, StoredOK, NEW remaining \in SUBSET Collections, NEW own \in Owns \union {None}
  PROVE  SyncOK(Started(remaining, own))
<1> DEFINE t == Started(remaining, own)
           e == <<>>
<1>1. t = [phase |-> "syncing", remaining |-> remaining, own |-> own,
           attempts |-> [c \in Collections |-> 0], minimum |-> [c \in Collections |-> None],
           forced |-> {}, answers |-> e, states |-> stored, absent |-> {},
           events |-> [c \in Collections |-> e]]
  BY DEF Started
<1>2. e \in [{} -> Answered] /\ DOMAIN e = {} /\ \A S : e \in Seq(S)
  OBVIOUS
<1>3. e \in UNION {[d -> Answered] : d \in SUBSET Collections}
  BY <1>2
<1> HIDE DEF e, t
<1>4. t \in Syncs
  <2>1. stored \in StateMaps
    BY DEF StoredOK
  <2>2. [c \in Collections |-> e] \in [Collections -> Seq(PatchType)]
    BY <1>2
  <2>3. /\ [c \in Collections |-> 0] \in [Collections -> Nat]
        /\ [c \in Collections |-> None] \in [Collections -> Nat \union {None}]
    OBVIOUS
  <2> QED BY <1>1, <1>3, <2>1, <2>2, <2>3 DEF Syncs
<1>5. AllHeld(t.states)
  BY <1>1 DEF StoredOK
<1>6. t.phase = "syncing" /\ DOMAIN t.answers = {} /\ \A c \in Collections : t.events[c] \in Seq(Mine(c))
  BY <1>1, <1>2
<1>7. SyncOK(t)
  BY <1>4, <1>5, <1>6 DEF SyncOK
<1> QED BY <1>7 DEF t

\* A resync begins.
LEMMA ResyncHolds ==
  ASSUME AppStateInv, NEW collections \in SUBSET Collections, Resync(collections)
  PROVE  AppStateInv'
<1> USE DEF Resync
<1>1. SyncOK(Started(collections, None))
  BY StartedOK DEF AppStateInv
<1> DEFINE t == Started(collections, None)
<1>2. task' = t /\ SyncOK(t)
  BY <1>1
<1> HIDE DEF t
<1>3. SyncOK(task')
  BY <1>2
<1>4. TaskOK'
  BY <1>2, SameServer DEF TaskOK, AppStateInv
<1> QED BY <1>4, TaskSteps DEF AppStateInv

\* A patch begins.
LEMMA AppPatchHolds ==
  ASSUME AppStateInv, NEW c \in Collections, NEW i \in Indexes, NEW op \in OwnOperations, AppPatch(c, i, op)
  PROVE  AppStateInv'
<1> USE DEF AppPatch
<1> DEFINE own == [collection |-> c, index |-> i, op |-> op, key |-> keys.mine]
<1>1. keys.mine \in Keys
  BY DEF AppStateInv, KeysOK
<1>2. own \in Owns
  BY <1>1, AppStateAssumption DEF Owns
<1> DEFINE t == Started({c}, own)
<1>3. task' = t
  OBVIOUS
<1> HIDE DEF own
<1>4. SyncOK(t)
  BY <1>2, StartedOK DEF AppStateInv
<1> HIDE DEF t
<1>5. TaskOK'
  BY <1>3, <1>4, SameServer DEF TaskOK, AppStateInv
<1> QED BY <1>5, TaskSteps DEF AppStateInv

\* The task dies.
LEMMA KilledHolds ==
  ASSUME AppStateInv, Killed
  PROVE  AppStateInv'
<1>1. TaskOK'
  BY DEF Killed, TaskOK
<1> QED BY <1>1, TaskSteps DEF AppStateInv, Killed

\* What a failed query leaves is committed.
LEMMA QueryFailsHolds ==
  ASSUME AppStateInv, QueryFails
  PROVE  AppStateInv'
<1> USE DEF QueryFails
<1>1. task.states \in StateMaps /\ AllHeld(task.states)
  <2>1. task.phase \in {"syncing", "patching", "accepted"}
    OBVIOUS
  <2>2. SyncOK(task) \/ AcceptedOK(task)
    BY <2>1, PhaseOf DEF AppStateInv
  <2> QED BY <2>2 DEF SyncOK, AcceptedOK, Syncs
<1> DEFINE t == [phase |-> "done", states |-> task.states]
<1>2. DoneOK(t)
  BY <1>1 DEF DoneOK
<1>3. task' = t
  OBVIOUS
<1> HIDE DEF t
<1>4. TaskOK'
  BY <1>2, <1>3, SameServer DEF TaskOK, AppStateInv
<1> QED BY <1>4, TaskSteps DEF AppStateInv

\* What was held is stored.
LEMMA CommitHolds ==
  ASSUME AppStateInv, Commit
  PROVE  AppStateInv'
<1> USE DEF Commit
<1>1. task.states \in StateMaps /\ AllHeld(task.states)
  BY PhaseOf DEF AppStateInv
<1>2. /\ ServerOK /\ OthersAccept /\ KeysOK /\ shown \subseteq Accepted
  BY DEF AppStateInv
<1>3. ServerOK' /\ OthersAccept' /\ Accepted' = Accepted
  BY <1>2, SameServer
<1>4. AllHeld(task.states) => AllHeld(stored)'
  <2>1. \A s : AllHeld(s) => AllHeld(s)'
    BY <1>2, SameServer
  <2>2. stored' = task.states
    OBVIOUS
  <2> QED BY <2>1, <2>2
<1>5. StoredOK'
  BY <1>1, <1>4 DEF StoredOK
<1>6. KeysOK' /\ TaskOK'
  BY <1>2 DEF KeysOK, TaskOK
<1> QED BY <1>2, <1>3, <1>5, <1>6 DEF AppStateInv

-----------------------------------------------------------------------------
(* A pass of the loop. *)

\* The fields of a resync.
LEMMA TaskIsSync ==
  ASSUME NEW t \in Syncs
  PROVE  /\ t = [phase |-> t.phase, remaining |-> t.remaining, own |-> t.own, attempts |-> t.attempts,
                 minimum |-> t.minimum, forced |-> t.forced, answers |-> t.answers,
                 states |-> t.states, absent |-> t.absent, events |-> t.events]
         /\ t.remaining \subseteq Collections /\ t.own \in Owns \union {None}
         /\ t.attempts \in [Collections -> Nat] /\ t.minimum \in [Collections -> Nat \union {None}]
         /\ t.forced \subseteq Collections /\ DOMAIN t.answers \subseteq Collections
         /\ \A c \in DOMAIN t.answers : t.answers[c] \in Answered
         /\ t.answers \in UNION {[d -> Answered] : d \in SUBSET Collections}
         /\ t.states \in StateMaps /\ t.absent \subseteq Keys \union {None}
         /\ t.events \in [Collections -> Seq(PatchType)]
  BY DEF Syncs

\* What the server answers is about what it has.
LEMMA AnswersAre ==
  ASSUME AppStateInv, SyncOK(task), NEW c \in Collections, NEW a \in Answers(c)
  PROVE  AnswerOK(c, a, task.states)
<1> DEFINE from == IF WantsSnapshot(c) /\ server[c] # <<>> THEN DOMAIN server[c] ELSE {StateOf(c).version}
           l == Len(server[c])
<1>0. ServerOK /\ AllHeld(task.states)
  BY DEF AppStateInv, SyncOK
<1>1. l \in Nat /\ DOMAIN server[c] = 1..l
  BY <1>0, ServerTypes
<1>2. StateOf(c).version \in 0..l /\ StateOf(c) = StateIn(task.states, c)
  <2>1. StateOf(c) = StateIn(task.states, c)
    BY DEF StateOf, StateIn
  <2> QED BY <1>0, <2>1, StateInHeld DEF Held
<1>3. PICK v \in from :
         a = [snapshot |-> WantsSnapshot(c) /\ server[c] # <<>>, after |-> v,
              upto |-> IF v + PageSize < l THEN v + PageSize ELSE l, more |-> v + PageSize < l]
  BY DEF Answers
<1>4. v \in 0..l /\ (a.snapshot \/ v = StateOf(c).version)
  <2>1. CASE WantsSnapshot(c) /\ server[c] # <<>>
    <3>1. v \in 1..l
      BY <1>1, <2>1
    <3>2. a.snapshot = (WantsSnapshot(c) /\ server[c] # <<>>)
      BY <1>3, Zenon
    <3>3. a.snapshot
      BY <2>1, <3>2, Zenon
    <3>4. v \in 0..l
      BY <1>1, <3>1
    <3> QED BY <3>3, <3>4, Zenon
  <2>2. CASE ~ (WantsSnapshot(c) /\ server[c] # <<>>)
    BY <1>2, <2>2
  <2> QED BY <2>1, <2>2
<1>5. PageSize \in Nat \ {0}
  BY AppStateAssumption
<1> HIDE DEF l
<1>6. a \in Answered
  <2> DEFINE x == WantsSnapshot(c) /\ server[c] # <<>>
             y == v + PageSize < l
             z == IF v + PageSize < l THEN v + PageSize ELSE l
  <2>1. x \in BOOLEAN /\ y \in BOOLEAN
    BY DEF WantsSnapshot
  <2>2. z \in Nat /\ v \in Nat
    BY <1>1, <1>4, <1>5
  <2>3. a = [snapshot |-> x, after |-> v, upto |-> z, more |-> y]
    BY <1>3 DEF l
  <2> HIDE DEF x, y, z
  <2> QED BY <2>1, <2>2, <2>3 DEF Answered
<1>7. a.after = v /\ a.upto = (IF v + PageSize < l THEN v + PageSize ELSE l) /\ (a.more => v + PageSize < l)
  BY <1>3 DEF l
<1>8. a.after <= a.upto /\ a.upto <= l /\ (a.more => a.after < a.upto)
  BY <1>1, <1>4, <1>5, <1>7
<1> QED BY <1>2, <1>4, <1>6, <1>7, <1>8 DEF AnswerOK, l

\* Answers come in.
LEMMA QueryHolds ==
  ASSUME AppStateInv, NEW collections \in SUBSET Collections, Query(collections)
  PROVE  AppStateInv'
<1> USE DEF Query
<1>1. SyncOK(task) /\ task \in Syncs
  BY PhaseOf DEF AppStateInv, SyncOK
<1>2. PICK answers \in AnswerSets(collections) :
         task' = [task EXCEPT !.answers = answers, !.forced = {},
                              !.minimum = [c \in Collections |->
                                  IF c \in task.remaining THEN MinimumOf(c) ELSE @[c]]]
  OBVIOUS
<1>3. DOMAIN answers = collections /\ \A c \in collections : answers[c] \in Answers(c)
  BY DEF AnswerSets
<1>4. \A c \in collections : AnswerOK(c, answers[c], task.states)
  BY <1>1, <1>3, AnswersAre
<1>5. answers \in UNION {[d -> Answered] : d \in SUBSET Collections}
  <2>1. answers \in [collections -> Answered]
    <3>1. \A c \in collections : answers[c] \in Answered
      BY <1>4 DEF AnswerOK
    <3>2. answers = [c \in collections |-> answers[c]]
      BY <1>3 DEF AnswerSets
    <3> QED BY <3>1, <3>2
  <2> QED BY <2>1
<1> DEFINE minimum == [c \in Collections |-> IF c \in task.remaining THEN MinimumOf(c) ELSE task.minimum[c]]
<1>6. minimum \in [Collections -> Nat \union {None}]
  <2> SUFFICES ASSUME NEW c \in Collections
               PROVE  (IF c \in task.remaining THEN MinimumOf(c) ELSE task.minimum[c]) \in Nat \union {None}
    OBVIOUS
  <2>1. task.minimum[c] \in Nat \union {None}
    BY <1>1, TaskIsSync
  <2>2. task.states[c] # None => task.states[c].version \in Nat
    BY <1>1, HeldType DEF SyncOK, AllHeld, States
  <2> QED BY <2>1, <2>2 DEF MinimumOf
<1> DEFINE t == [phase |-> task.phase, remaining |-> task.remaining, own |-> task.own,
                 attempts |-> task.attempts, minimum |-> minimum, forced |-> {}, answers |-> answers,
                 states |-> task.states, absent |-> task.absent, events |-> task.events]
<1> HIDE DEF minimum
<1>7. task' = t
  <2>1. task = [phase |-> task.phase, remaining |-> task.remaining, own |-> task.own, attempts |-> task.attempts,
                minimum |-> task.minimum, forced |-> task.forced, answers |-> task.answers,
                states |-> task.states, absent |-> task.absent, events |-> task.events]
    BY <1>1, TaskIsSync
  <2>2. task' = [task EXCEPT !.answers = answers, !.forced = {}, !.minimum = minimum]
    BY <1>2 DEF minimum
  <2> QED BY <2>1, <2>2
<1>8. t \in Syncs
  <2>1. task.phase \in {"syncing", "patching", "done"}
    BY <1>1 DEF Syncs
  <2> QED BY <1>1, <1>5, <1>6, <2>1, TaskIsSync DEF Syncs
<1>9. SyncOK(t)
  BY <1>1, <1>3, <1>4, <1>8 DEF SyncOK
<1> HIDE DEF t
<1>10. TaskOK'
  BY <1>7, <1>9, SameServer DEF TaskOK, AppStateInv
<1> QED BY <1>10, TaskSteps DEF AppStateInv

\* What is emitted was accepted.
LEMMA EmitHolds ==
  ASSUME AppStateInv, Emit
  PROVE  AppStateInv'
<1> USE DEF Emit
<1>1. SyncOK(task) /\ task \in Syncs
  BY PhaseOf DEF AppStateInv, SyncOK
<1> DEFINE phase1 == IF task.own = None THEN "done" ELSE "patching"
           t == [phase |-> phase1, remaining |-> task.remaining, own |-> task.own,
                 attempts |-> task.attempts, minimum |-> task.minimum, forced |-> task.forced,
                 answers |-> task.answers,
                 states |-> task.states, absent |-> task.absent, events |-> task.events]
<1>2. task' = t
  <2>1. task = [phase |-> task.phase, remaining |-> task.remaining, own |-> task.own, attempts |-> task.attempts,
                minimum |-> task.minimum, forced |-> task.forced, answers |-> task.answers,
                states |-> task.states, absent |-> task.absent, events |-> task.events]
    BY <1>1, TaskIsSync
  <2>2. task' = [task EXCEPT !.phase = phase1]
    OBVIOUS
  <2> HIDE DEF phase1
  <2> QED BY <2>1, <2>2
<1>3. phase1 \in {"patching", "done"} /\ (phase1 = "patching" => task.own \in Owns)
  BY <1>1, TaskIsSync
<1> HIDE DEF phase1
<1>4. t \in Syncs
  BY <1>1, <1>3, TaskIsSync DEF Syncs
<1>5. SyncOK(t)
  BY <1>1, <1>3, <1>4 DEF SyncOK
<1> HIDE DEF t
<1>6. TaskOK'
  BY <1>2, <1>5, SameServer DEF TaskOK, AppStateInv
<1>7. \A c \in Collections : Mutations(task.events[c]) \subseteq Accepted
  <2> TAKE c \in Collections
  <2> DEFINE e == task.events[c]
             S == Mine(c)
  <2>1. e \in Seq(S)
    BY <1>1 DEF SyncOK
  <2> HIDE DEF e, S
  <2>2. Mutations(e) \subseteq S
    BY <2>1 DEF Mutations
  <2> QED BY <2>2, MineTypes DEF e, S, AppStateInv
<1>8. shown' \subseteq Accepted
  BY <1>7 DEF AppStateInv
<1> QED BY <1>6, <1>8, TaskSteps

-----------------------------------------------------------------------------
(* A collection is read. *)

\* The task with what reading changes of it.
Changed(remaining, attempts, minimum, forced, answers, states, absent, events) ==
    [phase |-> task.phase, remaining |-> remaining, own |-> task.own, attempts |-> attempts,
     minimum |-> minimum, forced |-> forced, answers |-> answers, states |-> states,
     absent |-> absent, events |-> events]

Others(c) == [d \in DOMAIN task.answers \ {c} |-> task.answers[d]]

\* The states after one of c is put, or not.
PutState(c, put, st) == [task.states EXCEPT ![c] = IF put THEN st ELSE @]

\* The answer for c is done with.
Left(t, c) == [t EXCEPT !.answers = [d \in DOMAIN @ \ {c} |-> @[d]]]

Succeeded(c, a, read) ==
    Changed(IF a.more THEN task.remaining ELSE task.remaining \ {c}, task.attempts,
            [task.minimum EXCEPT ![c] = IF a.upto > a.after THEN read.state.version ELSE @],
            task.forced, Others(c), PutState(c, a.snapshot \/ a.upto > a.after, read.state),
            task.absent, [task.events EXCEPT ![c] = @ \o read.events])

Failed(c, a, snapshot, read) ==
    Changed(IF GivenUp(task.attempts[c] + 1) THEN task.remaining \ {c} ELSE task.remaining,
            [task.attempts EXCEPT ![c] = @ + 1], task.minimum,
            IF GivenUp(task.attempts[c] + 1) THEN task.forced ELSE task.forced \union {c},
            Others(c), PutState(c, a.snapshot /\ snapshot.status = "ok", snapshot.state),
            IF read.status = "missing" THEN task.absent \union {read.key} ELSE task.absent,
            task.events)

\* The fields after success.
LEMMA SucceedIs ==
  ASSUME task \in Syncs, NEW c \in Collections, NEW a, NEW read
  PROVE  Left(Succeed(c, a, read), c) = Succeeded(c, a, read)
<1> DEFINE t == Succeed(c, a, read)
           r == IF a.more THEN task.remaining ELSE task.remaining \ {c}
           s == PutState(c, a.snapshot \/ a.upto > a.after, read.state)
           m == [task.minimum EXCEPT ![c] = IF a.upto > a.after THEN read.state.version ELSE @]
           e == [task.events EXCEPT ![c] = @ \o read.events]
<1>1. t = [task EXCEPT !.remaining = r, !.states = s, !.minimum = m, !.events = e]
  BY DEF Succeed, PutState
<1>2. task = Changed(task.remaining, task.attempts, task.minimum, task.forced, task.answers,
                     task.states, task.absent, task.events)
  BY TaskIsSync DEF Changed
<1> HIDE DEF t, r, s, m, e
<1>3. t = Changed(r, task.attempts, m, task.forced, task.answers, s, task.absent, e)
  BY <1>1, <1>2 DEF Changed
<1>4. Left(t, c) = [t EXCEPT !.answers = Others(c)]
  <2>1. t.answers = task.answers
    BY <1>3 DEF Changed
  <2> QED BY <2>1 DEF Others, Left
<1>5. [t EXCEPT !.answers = Others(c)]
        = Changed(r, task.attempts, m, task.forced, Others(c), s, task.absent, e)
  BY <1>3 DEF Changed
<1> QED BY <1>4, <1>5 DEF Succeeded, t, r, s, m, e

\* The fields after failure.
LEMMA FailIs ==
  ASSUME task \in Syncs, NEW c \in Collections, NEW a, NEW snapshot, NEW read
  PROVE  Left(Fail(c, a, snapshot, read), c) = Failed(c, a, snapshot, read)
<1> DEFINE t == Fail(c, a, snapshot, read)
           up == GivenUp(task.attempts[c] + 1)
           r == IF up THEN task.remaining \ {c} ELSE task.remaining
           s == PutState(c, a.snapshot /\ snapshot.status = "ok", snapshot.state)
           n == [task.attempts EXCEPT ![c] = @ + 1]
           f == IF up THEN task.forced ELSE task.forced \union {c}
           b == IF read.status = "missing" THEN task.absent \union {read.key} ELSE task.absent
<1>1. t = [task EXCEPT !.attempts = n, !.remaining = r, !.forced = f, !.states = s, !.absent = b]
  BY DEF Fail, PutState
<1>2. task = Changed(task.remaining, task.attempts, task.minimum, task.forced, task.answers,
                     task.states, task.absent, task.events)
  BY TaskIsSync DEF Changed
<1> HIDE DEF t, r, s, n, f, b, up
<1>3. t = Changed(r, n, task.minimum, f, task.answers, s, b, task.events)
  BY <1>1, <1>2 DEF Changed
<1>4. Left(t, c) = [t EXCEPT !.answers = Others(c)]
  <2>1. t.answers = task.answers
    BY <1>3 DEF Changed
  <2> QED BY <2>1 DEF Others, Left
<1>5. [t EXCEPT !.answers = Others(c)] = Changed(r, n, task.minimum, f, Others(c), s, b, task.events)
  BY <1>3 DEF Changed
<1> QED BY <1>4, <1>5 DEF Failed, t, r, s, n, f, b, up

\* A state that is held may be put.
LEMMA PutHolds ==
  ASSUME SyncOK(task), NEW c \in Collections, NEW put \in BOOLEAN, NEW st, put => Held(c, st)
  PROVE  /\ PutState(c, put, st) \in StateMaps
         /\ AllHeld(PutState(c, put, st))
         /\ PutState(c, put, st)[c] = IF put THEN st ELSE task.states[c]
         /\ \A d \in Collections : d # c => StateIn(PutState(c, put, st), d) = StateIn(task.states, d)
<1> DEFINE s == PutState(c, put, st)
<1>1. task.states \in StateMaps /\ AllHeld(task.states)
  BY TaskIsSync DEF SyncOK
<1>2. put => st \in States
  BY HeldType
<1>3. s = [task.states EXCEPT ![c] = IF put THEN st ELSE @]
  BY DEF PutState
<1> HIDE DEF s
<1>4. s \in StateMaps /\ s[c] = (IF put THEN st ELSE task.states[c]) /\ \A d \in Collections : d # c => s[d] = task.states[d]
  BY <1>1, <1>2, <1>3 DEF StateMaps
<1>5. AllHeld(s)
  BY <1>1, <1>4 DEF AllHeld
<1> QED BY <1>4, <1>5 DEF s, StateIn

\* What reading leaves is as it should be.
LEMMA ChangedOK ==
  ASSUME SyncOK(task), task.phase = "syncing", NEW c \in Collections,
         NEW remaining \in SUBSET Collections, NEW attempts \in [Collections -> Nat],
         NEW minimum \in [Collections -> Nat \union {None}], NEW forced \in SUBSET Collections,
         NEW put \in BOOLEAN, NEW st, put => Held(c, st), NEW absent \in SUBSET (Keys \union {None}),
         NEW events \in [Collections -> Seq(PatchType)], \A d \in Collections : events[d] \in Seq(Mine(d))
  PROVE  SyncOK(Changed(remaining, attempts, minimum, forced, Others(c), PutState(c, put, st), absent, events))
<1> DEFINE s == PutState(c, put, st)
           o == Others(c)
           t == Changed(remaining, attempts, minimum, forced, o, s, absent, events)
<1>1. /\ s \in StateMaps /\ AllHeld(s)
      /\ \A d \in Collections : d # c => StateIn(s, d) = StateIn(task.states, d)
  BY PutHolds
<1>2. /\ task.phase \in {"syncing", "patching", "done"} /\ task.own \in Owns \union {None}
      /\ DOMAIN task.answers \subseteq Collections
      /\ \A d \in DOMAIN task.answers : task.answers[d] \in Answered /\ AnswerOK(d, task.answers[d], task.states)
  BY TaskIsSync DEF SyncOK
<1>3. DOMAIN o = DOMAIN task.answers \ {c} /\ \A d \in DOMAIN o : o[d] = task.answers[d]
  BY DEF Others
<1>4. o \in UNION {[d -> Answered] : d \in SUBSET Collections}
  <2>1. o \in [DOMAIN task.answers \ {c} -> Answered] /\ DOMAIN task.answers \ {c} \in SUBSET Collections
    BY <1>2 DEF Others
  <2> QED BY <2>1
<1> HIDE DEF s, o
<1>5. t \in Syncs
  BY <1>1, <1>2, <1>4 DEF Changed, Syncs
<1>6. /\ t.phase = task.phase /\ t.answers = o /\ t.states = s /\ t.events = events
  BY DEF Changed
<1> HIDE DEF t
<1>7. \A d \in DOMAIN o : AnswerOK(d, o[d], s)
  <2> TAKE d \in DOMAIN o
  <2>1. d \in Collections /\ d # c /\ AnswerOK(d, o[d], task.states)
    BY <1>2, <1>3
  <2> QED BY <1>1, <2>1 DEF AnswerOK
<1> QED BY <1>1, <1>5, <1>6, <1>7 DEF SyncOK, t, s, o

\* The two readings of an answer.
SnapOf(c) == SnapshotRead(c, task.answers[c])

ReadOf(c) == PatchesRead(c, task.answers[c], SnapOf(c))

\* What is put is held.
LEMMA ReadIs ==
  ASSUME ServerOK, SyncOK(task), NEW c \in DOMAIN task.answers
  PROVE  /\ c \in Collections
         /\ AnswerOK(c, task.answers[c], task.states)
         /\ SnapOf(c) \in Results(Mine(c)) /\ ReadOf(c) \in Results(Mine(c))
         /\ SnapOf(c).status = "ok" => Held(c, SnapOf(c).state)
         /\ ReadOf(c).status \in {"ok", "stop"} =>
               /\ Held(c, ReadOf(c).state)
               /\ task.answers[c].after < task.answers[c].upto =>
                     task.answers[c].after < ReadOf(c).state.version
               /\ task.answers[c].after = task.answers[c].upto =>
                     task.answers[c].after = ReadOf(c).state.version
               /\ Part(server[c], Base(task.answers[c]), ReadOf(c).state.version, ReadOf(c).events)
<1> DEFINE a == task.answers[c]
           d == SnapOf(c)
           r == ReadOf(c)
<1>1. c \in Collections /\ AnswerOK(c, a, task.states)
  BY TaskIsSync DEF SyncOK
<1>2. d = SnapshotRead(c, a) /\ r = PatchesRead(c, a, d)
  BY DEF SnapOf, ReadOf
<1> HIDE DEF a, d, r
<1>3. /\ d \in Results(Mine(c)) /\ d.status # "stop"
      /\ d.status = "ok" => Held(c, d.state) /\ d.state.version = a.after
      /\ Part(server[c], Base(a), a.after, d.events)
  BY <1>1, <1>2, SnapshotReadIs
<1>4. /\ r \in Results(Mine(c))
      /\ r.status \in {"ok", "stop"} =>
            /\ d.status = "ok"
            /\ Held(c, r.state)
            /\ a.after < a.upto => a.after < r.state.version
            /\ a.after = a.upto => a.after = r.state.version
            /\ Part(server[c], Base(a), r.state.version, r.events)
  BY <1>1, <1>2, <1>3, PatchesReadIs
<1> QED BY <1>1, <1>3, <1>4 DEF a, d, r

\* Events of c stay events of c.
LEMMA EventsGrow ==
  ASSUME ServerOK, SyncOK(task), NEW c \in Collections, NEW e \in Seq(Mine(c))
  PROVE  /\ [task.events EXCEPT ![c] = @ \o e] \in [Collections -> Seq(PatchType)]
         /\ \A d \in Collections : [task.events EXCEPT ![c] = @ \o e][d] \in Seq(Mine(d))
<1> DEFINE S == Mine(c)
           x == task.events[c]
           y == x \o e
           f == [task.events EXCEPT ![c] = y]
<1>1. task.events \in [Collections -> Seq(PatchType)] /\ \A d \in Collections : task.events[d] \in Seq(Mine(d))
  BY TaskIsSync DEF SyncOK
<1>2. S \subseteq PatchType
  BY MineTypes
<1>3. x \in Seq(S)
  BY <1>1
<1> HIDE DEF S, x
<1>4. y \in Seq(S) /\ y \in Seq(PatchType)
  <2>1. e \in Seq(S)
    BY DEF S
  <2>2. x \o e \in Seq(S)
    BY <1>3, <2>1
  <2> QED BY <1>2, <2>2
<1> HIDE DEF y
<1>5. f \in [Collections -> Seq(PatchType)] /\ f[c] = y /\ \A d \in Collections : d # c => f[d] = task.events[d]
  BY <1>1, <1>4
<1>6. f = [task.events EXCEPT ![c] = @ \o e]
  BY DEF y, x
<1> HIDE DEF f
<1>7. \A d \in Collections : f[d] \in Seq(Mine(d))
  BY <1>1, <1>4, <1>5 DEF S
<1> QED BY <1>5, <1>6, <1>7

-----------------------------------------------------------------------------
(* How reading a collection ends. *)

\* A collection that is read without failure.
LEMMA ReadSucceeds ==
  ASSUME AppStateInv, task.phase = "syncing", NEW c \in DOMAIN task.answers,
         ReadOf(c).status \in {"ok", "stop"},
         NEW t, t = Left(Succeed(c, task.answers[c], ReadOf(c)), c)
  PROVE  /\ SyncOK(t)
         /\ DOMAIN task.answers \ DOMAIN t.answers = {c}
         /\ t.attempts = task.attempts
         /\ c \in t.remaining =>
               \/ task.answers[c].snapshot
               \/ t.states[c].version > StateIn(task.states, c).version
<1> DEFINE a == task.answers[c]
           read == ReadOf(c)
           r == IF a.more THEN task.remaining ELSE task.remaining \ {c}
           m == [task.minimum EXCEPT ![c] = IF a.upto > a.after THEN read.state.version ELSE @]
           e == [task.events EXCEPT ![c] = @ \o read.events]
           some == a.snapshot \/ a.upto > a.after
           s == PutState(c, some, read.state)
           x == Changed(r, task.attempts, m, task.forced, Others(c), s, task.absent, e)
<1>1. ServerOK /\ SyncOK(task) /\ task \in Syncs
  BY PhaseOf DEF AppStateInv, SyncOK
<1>2. /\ c \in Collections /\ AnswerOK(c, a, task.states)
      /\ read \in Results(Mine(c)) /\ Held(c, read.state)
      /\ a.after < a.upto => a.after < read.state.version
  BY <1>1, ReadIs
<1>3. t = x
  <2>1. t = Succeeded(c, a, read)
    <3> HIDE DEF a, read
    <3>1. Left(Succeed(c, a, read), c) = Succeeded(c, a, read)
      BY <1>1, <1>2, SucceedIs
    <3> QED BY <3>1 DEF a, read
  <2> QED BY <2>1 DEF Succeeded
<1>4. /\ task.remaining \subseteq Collections /\ task.attempts \in [Collections -> Nat]
      /\ task.minimum \in [Collections -> Nat \union {None}] /\ task.forced \subseteq Collections
      /\ task.absent \subseteq Keys \union {None}
  BY <1>1, TaskIsSync
<1>5. read.state.version \in Nat /\ read.events \in Seq(Mine(c))
  BY <1>2 DEF Results, States
<1>6. e \in [Collections -> Seq(PatchType)] /\ \A d \in Collections : e[d] \in Seq(Mine(d))
  <2> HIDE DEF read
  <2> QED BY <1>1, <1>2, <1>5, EventsGrow
<1>7. m \in [Collections -> Nat \union {None}]
  <2> DEFINE y == IF a.upto > a.after THEN read.state.version ELSE task.minimum[c]
  <2>1. m = [task.minimum EXCEPT ![c] = y]
    OBVIOUS
  <2>2. y \in Nat \union {None}
    BY <1>2, <1>4, <1>5
  <2> HIDE DEF y, m
  <2> QED BY <1>4, <2>1, <2>2
<1>8. r \in SUBSET Collections
  BY <1>4
<1> HIDE DEF a, read, m, e, r
<1>9. s = IF some THEN PutState(c, TRUE, read.state) ELSE PutState(c, FALSE, read.state)
  BY DEF PutState
<1>10. ASSUME some PROVE SyncOK(x) /\ s[c] = read.state
  <2>1. s = PutState(c, TRUE, read.state)
    BY <1>9, <1>10
  <2> HIDE DEF s
  <2>2. PutState(c, TRUE, read.state)[c] = read.state
    BY <1>1, <1>2, PutHolds
  <2>3. SyncOK(Changed(r, task.attempts, m, task.forced, Others(c), PutState(c, TRUE, read.state), task.absent, e))
    BY <1>1, <1>2, <1>4, <1>6, <1>7, <1>8, ChangedOK
  <2> QED BY <2>1, <2>2, <2>3
<1>11. ASSUME ~ some PROVE SyncOK(x)
  <2>1. s = PutState(c, FALSE, read.state)
    BY <1>9, <1>11
  <2> HIDE DEF s
  <2>3. SyncOK(Changed(r, task.attempts, m, task.forced, Others(c), PutState(c, FALSE, read.state), task.absent, e))
    BY <1>1, <1>2, <1>4, <1>6, <1>7, <1>8, ChangedOK
  <2> QED BY <2>1, <2>3
<1>12. x.answers = Others(c) /\ x.remaining = r /\ x.states = s /\ x.attempts = task.attempts
  BY DEF Changed
<1> DEFINE o == Others(c)
<1>13. DOMAIN o = DOMAIN task.answers \ {c}
  BY DEF Others
<1> HIDE DEF o
<1>14. ASSUME c \in r, ~ a.snapshot PROVE s[c].version > StateIn(task.states, c).version
  <2>1. a.more
    BY <1>14 DEF r
  <2>2. a.after < a.upto /\ a.after = StateIn(task.states, c).version /\ a.after \in Nat /\ a.upto \in Nat
    BY <1>2, <1>14, <2>1 DEF AnswerOK, Answered
  <2>3. some
    BY <2>2
  <2>4. s[c] = read.state
    BY <1>10, <2>3
  <2> HIDE DEF s
  <2> QED BY <1>2, <1>5, <2>2, <2>4
<1> HIDE DEF x, s, some
<1> QED BY <1>3, <1>10, <1>11, <1>12, <1>13, <1>14 DEF o, a

\* A collection whose reading fails.
LEMMA ReadFails ==
  ASSUME AppStateInv, task.phase = "syncing", NEW c \in DOMAIN task.answers,
         NEW t, t = Left(Fail(c, task.answers[c], SnapOf(c), ReadOf(c)), c)
  PROVE  /\ SyncOK(t)
         /\ DOMAIN task.answers \ DOMAIN t.answers = {c}
         /\ c \in t.remaining => task.attempts[c] < t.attempts[c] /\ t.attempts[c] < MaxAttempts
<1> DEFINE a == task.answers[c]
           read == ReadOf(c)
           snapshot == SnapOf(c)
           up == GivenUp(task.attempts[c] + 1)
           r == IF up THEN task.remaining \ {c} ELSE task.remaining
           n == [task.attempts EXCEPT ![c] = @ + 1]
           f == IF up THEN task.forced ELSE task.forced \union {c}
           b == IF read.status = "missing" THEN task.absent \union {read.key} ELSE task.absent
           some == a.snapshot /\ snapshot.status = "ok"
           s == PutState(c, some, snapshot.state)
           x == Changed(r, n, task.minimum, f, Others(c), s, b, task.events)
<1>1. ServerOK /\ SyncOK(task) /\ task \in Syncs
  BY PhaseOf DEF AppStateInv, SyncOK
<1>2. /\ c \in Collections
      /\ read \in Results(Mine(c))
      /\ snapshot.status = "ok" => Held(c, snapshot.state)
  BY <1>1, ReadIs
<1>3. t = x
  <2>1. t = Failed(c, a, snapshot, read)
    <3> HIDE DEF a, read, snapshot
    <3>1. Left(Fail(c, a, snapshot, read), c) = Failed(c, a, snapshot, read)
      BY <1>1, <1>2, FailIs
    <3> QED BY <3>1 DEF a, read, snapshot
  <2> QED BY <2>1 DEF Failed
<1>4. /\ task.remaining \subseteq Collections /\ task.attempts \in [Collections -> Nat]
      /\ task.minimum \in [Collections -> Nat \union {None}] /\ task.forced \subseteq Collections
      /\ task.absent \subseteq Keys \union {None}
      /\ task.events \in [Collections -> Seq(PatchType)]
  BY <1>1, TaskIsSync
<1>5. \A d \in Collections : task.events[d] \in Seq(Mine(d))
  BY <1>1 DEF SyncOK
<1>6. n \in [Collections -> Nat] /\ n[c] = task.attempts[c] + 1 /\ task.attempts[c] \in Nat
  BY <1>2, <1>4
<1>7. r \in SUBSET Collections /\ f \in SUBSET Collections
  BY <1>2, <1>4
<1>8. b \in SUBSET (Keys \union {None})
  BY <1>2, <1>4 DEF Results
<1>9. c \in r => n[c] < MaxAttempts
  BY <1>6, AppStateAssumption DEF GivenUp
<1> HIDE DEF a, read, snapshot, n, r, f, b
<1>10. s = IF some THEN PutState(c, TRUE, snapshot.state) ELSE PutState(c, FALSE, snapshot.state)
  BY DEF PutState
<1>11. ASSUME some PROVE SyncOK(x)
  <2>1. s = PutState(c, TRUE, snapshot.state)
    BY <1>10, <1>11
  <2>2. Held(c, snapshot.state)
    BY <1>2, <1>11
  <2> HIDE DEF s
  <2>3. SyncOK(Changed(r, n, task.minimum, f, Others(c), PutState(c, TRUE, snapshot.state), b, task.events))
    BY <1>1, <1>2, <1>4, <1>5, <1>6, <1>7, <1>8, <2>2, ChangedOK
  <2> QED BY <2>1, <2>3
<1>12. ASSUME ~ some PROVE SyncOK(x)
  <2>1. s = PutState(c, FALSE, snapshot.state)
    BY <1>10, <1>12
  <2> HIDE DEF s
  <2>3. SyncOK(Changed(r, n, task.minimum, f, Others(c), PutState(c, FALSE, snapshot.state), b, task.events))
    BY <1>1, <1>2, <1>4, <1>5, <1>6, <1>7, <1>8, ChangedOK
  <2> QED BY <2>1, <2>3
<1>13. x.answers = Others(c) /\ x.remaining = r /\ x.attempts = n
  BY DEF Changed
<1> DEFINE o == Others(c)
<1>14. DOMAIN o = DOMAIN task.answers \ {c}
  BY DEF Others
<1> HIDE DEF o, x, s, some
<1>15. SyncOK(x)
  BY <1>11, <1>12
<1> QED BY <1>3, <1>6, <1>9, <1>13, <1>14, <1>15 DEF o

\* Reading is one or the other.
LEMMA ReadSteps ==
  ASSUME AppStateInv, NEW c \in Collections, Read(c)
  PROVE  /\ task.phase = "syncing" /\ c \in DOMAIN task.answers
         /\ \/ ReadOf(c).status \in {"ok", "stop"} /\
               task' = Left(Succeed(c, task.answers[c], ReadOf(c)), c)
            \/ task' = Left(Fail(c, task.answers[c], SnapOf(c), ReadOf(c)), c)
  BY Zenon DEF Read, SnapOf, ReadOf, Left

\* A reading keeps the task as it should be, and gets on.
LEMMA ReadKeeps ==
  ASSUME AppStateInv, NEW c \in Collections, Read(c)
  PROVE  \E t : /\ task' = t /\ SyncOK(t)
                /\ DOMAIN task.answers \ DOMAIN t.answers = {c}
                /\ c \in t.remaining =>
                      \/ task.attempts[c] < t.attempts[c] /\ t.attempts[c] < MaxAttempts
                      \/ task.attempts[c] = t.attempts[c] /\
                            \/ task.answers[c].snapshot
                            \/ t.states[c].version > StateOf(c).version
<1> DEFINE x == Left(Succeed(c, task.answers[c], ReadOf(c)), c)
           y == Left(Fail(c, task.answers[c], SnapOf(c), ReadOf(c)), c)
<1>1. /\ task.phase = "syncing" /\ c \in DOMAIN task.answers
      /\ (ReadOf(c).status \in {"ok", "stop"} /\ task' = x) \/ task' = y
  BY ReadSteps
<1>2. CASE ReadOf(c).status \in {"ok", "stop"} /\ task' = x
  <2>1. /\ SyncOK(x)
        /\ DOMAIN task.answers \ DOMAIN x.answers = {c}
        /\ x.attempts = task.attempts
        /\ c \in x.remaining =>
              \/ task.answers[c].snapshot
              \/ x.states[c].version > StateIn(task.states, c).version
    BY <1>1, <1>2, ReadSucceeds
  <2> HIDE DEF x
  <2> QED BY <1>2, <2>1 DEF StateOf, StateIn
<1>3. CASE task' = y
  <2>1. /\ SyncOK(y)
        /\ DOMAIN task.answers \ DOMAIN y.answers = {c}
        /\ c \in y.remaining => task.attempts[c] < y.attempts[c] /\ y.attempts[c] < MaxAttempts
    BY <1>1, ReadFails
  <2> HIDE DEF y
  <2> QED BY <1>3, <2>1
<1> QED BY <1>1, <1>2, <1>3

\* A collection is read.
LEMMA ReadHolds ==
  ASSUME AppStateInv, NEW c \in Collections, Read(c)
  PROVE  AppStateInv'
<1>1. PICK t : task' = t /\ SyncOK(t)
  BY ReadKeeps
<1>2. UNCHANGED <<server, keys, stored, shown>>
  BY DEF Read
<1>3. TaskOK'
  BY <1>1, <1>2, SameServer DEF TaskOK, AppStateInv
<1> QED BY <1>2, <1>3, TaskSteps DEF AppStateInv

-----------------------------------------------------------------------------
(* The server takes a patch. *)

\* The last patch of d, if it is this device's, claims what all compute.
OwnClaims(d, n) ==
    server[d][n].own /\ (\A k \in 1..n : server[d][k].broken = "no") /\ ~ Removed(d, n - 1) =>
        server[d][n].claim = HashOf(TrueMap(d, n))

\* The rest of the invariant, when the server takes a patch.
LEMMA GrowsHolds ==
  ASSUME AppStateInv, NEW d \in Collections, NEW p, Fresh(p), Grows(d, p),
         UNCHANGED <<keys, stored, shown>>, TaskOK',
         \A n \in Nat : n = Len(server[d]) + 1 => OwnClaims(d, n)'
  PROVE  AppStateInv'
<1> DEFINE l == Len(server[d])
<1>1. /\ ServerOK /\ OthersAccept /\ KeysOK /\ StoredOK /\ shown \subseteq Accepted
  BY DEF AppStateInv
<1>2. ServerOK' /\ Keeps /\ server' \in [Collections -> Seq(PatchType)] /\ Accepted' = Accepted \union {p}
  BY <1>1, ServerOKGrows, KeepsAll, GrowsTo, AcceptedGrows
<1>3. StoredOK'
  <2>1. AllHeld(stored) => AllHeld(stored)'
    BY <1>1, <1>2, AllHeldKept
  <2> QED BY <1>1, <2>1 DEF StoredOK
<1>4. /\ l \in Nat /\ Len(server'[d]) = l + 1 /\ server'[d][l + 1] = p
      /\ \A c \in Collections : Len(server[c]) \in Nat /\ DOMAIN server[c] = 1..Len(server[c])
      /\ DOMAIN server'[d] = 1..(l + 1)
      /\ \A c \in Collections : c # d => server'[c] = server[c]
  <2>1. server'[d] \in Seq(PatchType)
    BY <1>2
  <2>2. DOMAIN server'[d] = 1..Len(server'[d])
    BY <2>1
  <2> QED BY <1>1, <2>2, GrowsTo, ServerTypes
<1>5. ASSUME NEW c \in Collections, NEW n \in DOMAIN server'[c],
             server'[c][n].own, \A k \in 1..n : server'[c][k].broken = "no", ~ Removed(c, n - 1)'
      PROVE  server'[c][n].claim = HashOf(TrueMap(c, n)')
  <2>1. CASE c = d /\ n = l + 1
    <3>1. OwnClaims(d, n)'
      BY <1>4, <2>1
    <3> QED BY <1>5, <2>1, <3>1 DEF OwnClaims
  <2>2. CASE ~ (c = d /\ n = l + 1)
    <3>1. n \in 1..Len(server[c]) /\ n \in DOMAIN server[c] /\ n \in 0..Len(server[c])
      BY <1>4, <2>2
    <3>2. \A k \in 1..n : server'[c][k] = server[c][k]
      BY <1>2, <1>4, <3>1 DEF Keeps
    <3>3. n \in 1..n
      BY <1>4, <3>1
    <3>6. ~ Removed(c, n - 1)
      BY <1>4, <1>5, <3>1, <3>2 DEF Removed
    <3>4. server[c][n].claim = HashOf(TrueMap(c, n))
      BY <1>1, <1>5, <3>1, <3>2, <3>3, <3>6 DEF OthersAccept
    <3>5. TrueMap(c, n)' = TrueMap(c, n)
      BY <1>1, <1>2, <3>1, TrueMapKept
    <3> QED BY <3>2, <3>3, <3>4, <3>5
  <2> QED BY <2>1, <2>2
<1>6. OthersAccept'
  BY <1>5 DEF OthersAccept
<1>7. KeysOK' /\ shown' \subseteq Accepted'
  BY <1>1, <1>2 DEF KeysOK
<1> QED BY <1>2, <1>3, <1>6, <1>7 DEF AppStateInv

\* Another device patches.
LEMMA OtherPatchGrows ==
  ASSUME AppStateInv, NEW c \in Collections, OtherPatch(c)
  PROVE  /\ \E p \in PatchType : Fresh(p) /\ Grows(c, p) /\ p.own = FALSE
         /\ UNCHANGED <<keys, stored, task, shown>>
<1>1. PICK op \in {"set", "remove"}, i \in Indexes, k \in Keys, broken \in {"no", "record", "index"} :
         LET m == [op |-> op, index |-> i, mac |-> NextMac, key |-> k, broken |-> broken]
         IN  /\ NextMac \in Macs
             /\ server' = [server EXCEPT ![c] = Append(@, Patch(m, HashOf(Claimed(c, m)), FALSE))]
             /\ UNCHANGED <<keys, stored, task, shown>>
  BY ZenonT(30) DEF OtherPatch
<1> DEFINE m == [op |-> op, index |-> i, mac |-> NextMac, key |-> k, broken |-> broken]
           claim == HashOf(Claimed(c, m))
           p == Patch(m, claim, FALSE)
<1>2. NextMac \in Macs /\ server' = [server EXCEPT ![c] = Append(@, p)] /\ UNCHANGED <<keys, stored, task, shown>>
  BY <1>1
<1>3. IsMutation(m) /\ m.mac = NextMac
  BY <1>2 DEF IsMutation
<1>4. ServerOK /\ TaskOK
  BY DEF AppStateInv
<1>5. claim \in Hashes
  <2> HIDE DEF m
  <2> QED BY <1>3, <1>4, ClaimedIsHash
<1>6. p \in PatchType /\ p.mac = NextMac /\ p.own = FALSE
  <2> HIDE DEF claim
  <2> QED BY <1>2, <1>5 DEF Patch, PatchType
<1> HIDE DEF p
<1>7. Fresh(p) /\ Grows(c, p)
  BY <1>2, <1>6 DEF Fresh, Grows
<1> QED BY <1>2, <1>6, <1>7

\* It leaves what this device holds as it is.
LEMMA OtherPatchHolds ==
  ASSUME AppStateInv, NEW c \in Collections, OtherPatch(c)
  PROVE  AppStateInv'
<1>4. ServerOK /\ TaskOK
  BY DEF AppStateInv
<1>2. UNCHANGED <<keys, stored, task, shown>>
  BY OtherPatchGrows
<1>7. PICK p \in PatchType : Fresh(p) /\ Grows(c, p) /\ p.own = FALSE
  BY OtherPatchGrows
<1>8. Keeps /\ server' \in [Collections -> Seq(PatchType)]
  BY <1>4, <1>7, KeepsAll, GrowsTo
<1>9. TaskOK'
  <2>1. /\ SyncOK(task) => SyncOK(task)'
        /\ AcceptedOK(task) => AcceptedOK(task)'
        /\ DoneOK(task) => DoneOK(task)'
    <3>1. /\ \A t : SyncOK(t) => SyncOK(t)'
          /\ \A t : AcceptedOK(t) => AcceptedOK(t)'
          /\ \A t : DoneOK(t) => DoneOK(t)'
      BY <1>4, <1>8, TaskKept
    <3>2. task' = task
      BY <1>2
    <3> QED BY <3>1, <3>2
  <2> QED BY <1>2, <1>4, <2>1 DEF TaskOK
<1>10. \A n \in Nat : n = Len(server[c]) + 1 => OwnClaims(c, n)'
  <2> TAKE n \in Nat
  <2> HAVE n = Len(server[c]) + 1
  <2>1. server'[c][n] = p
    BY <1>4, <1>7, GrowsTo
  <2> QED BY <1>7, <2>1 DEF OwnClaims
<1> QED BY <1>2, <1>7, <1>9, <1>10, GrowsHolds

-----------------------------------------------------------------------------
(* This device's patch. *)

\* Lemmas about the server as it is, for the server as it will be.
Advance ==
    \A c \in Collections : \A st, r :
        /\ ServerOK /\ Held(c, st) /\ st.version + 1 <= Len(server[c])
        /\ r.version = st.version + 1 /\ Sound(r)
        /\ Exact(st) => Removed(c, r.version) \/ Exact(r)
        /\ FollowsOne(st.map, server[c][st.version + 1], r.map)
        => Held(c, r)

TrueWhenHeld ==
    \A c \in Collections : \A st :
        /\ ServerOK /\ Held(c, st) /\ ~ Removed(c, st.version)
        /\ \A k \in 1..st.version : server[c][k].broken = "no"
        => st.map = TrueMap(c, st.version)

TrueThenMixed ==
    \A c \in Collections : \A v \in Nat :
        ServerOK /\ v + 1 <= Len(server[c]) =>
            TrueMap(c, v + 1) = Mixed(TrueMap(c, v), server[c][v + 1])

\* They hold in every state,
LEMMA AlwaysAdvance == Advance /\ TrueWhenHeld /\ TrueThenMixed
<1>1. Advance
  BY AdvancesOne DEF Advance
<1>2. TrueWhenHeld
  BY HeldIsTrue DEF TrueWhenHeld
<1>3. TrueThenMixed
  BY TrueMapNext DEF TrueThenMixed
<1> QED BY <1>1, <1>2, <1>3

\* hence in the next one.
LEMMA NextAdvance == Advance' /\ TrueWhenHeld' /\ TrueThenMixed'
  BY AlwaysAdvance, PTL

\* What is set is in the map already.
LEMMA PutTwice ==
  ASSUME NEW map, NEW m, m.op = "set"
  PROVE  Put(Mixed(map, m), m.index, m.mac) = Mixed(map, m)
<1> DEFINE new == Mixed(map, m)
<1>1. /\ m.index \in DOMAIN new /\ new[m.index] = m.mac
      /\ new = [i \in DOMAIN new |-> new[i]]
  BY DEF Mixed, Put
<1> HIDE DEF new
<1>2. DOMAIN new \union {m.index} = DOMAIN new
  BY <1>1
<1>3. \A i \in DOMAIN new : (IF i = m.index THEN m.mac ELSE new[i]) = new[i]
  BY <1>1
<1>4. Put(new, m.index, m.mac) = new
  BY <1>1, <1>2, <1>3 DEF Put
<1> QED BY <1>4 DEF new

(* encode_syncd_patch/5: the hash is that of what is mixed, and the map gets  *)
(* the value after it, whether it was set or removed.                        *)
LEMMA EncodedIs ==
  ASSUME NEW st, Sound(st), NEW m, IsMutation(m), Fits(st.map, m)
  PROVE  /\ Sound(Encoded(st, m))
         /\ Encoded(st, m).version = st.version + 1
         /\ Encoded(st, m).map = Put(Mixed(st.map, m), m.index, m.mac)
         /\ Exact(st) => Encoded(st, m).hash = HashOf(Mixed(st.map, m))
<1> DEFINE map == Mixed(st.map, m)
           w == Finished(st, Mix(Generator(st), m))
           v == st.version + 1
           x == Put(map, m.index, m.mac)
<1>1. MixedFrom(st, m, w)
  BY MixesOne
<1>2. MapOK(map) /\ w \in States /\ w.version = st.version /\ w.map = map
  BY <1>1 DEF MixedFrom, Sound
<1>3. v \in Nat /\ st.version \in Nat
  BY DEF Sound, States
<1>4. Exact(st) => w.hash = HashOf(map)
  BY <1>1 DEF MixedFrom, Exact
<1>5. MapOK(x)
  <2>1. \A j \in DOMAIN map : j # m.index => map[j] # m.mac
    BY DEF Fits, Mixed, Put, Without
  <2> HIDE DEF map
  <2> QED BY <1>2, <2>1, PutIsMap DEF IsMutation
<1> HIDE DEF map, w
<1> DEFINE h == w.hash
<1>6. w = [version |-> st.version, hash |-> h, map |-> map] /\ h \in Hashes
  BY <1>2 DEF States
<1>7. Encoded(st, m) = [w EXCEPT !.version = @ + 1, !.map = Put(@, m.index, m.mac)]
  BY DEF Encoded, w
<1> HIDE DEF h
<1>8. Encoded(st, m) = [version |-> v, hash |-> h, map |-> x]
  BY <1>6, <1>7
<1> HIDE DEF v, x
<1> DEFINE e == [version |-> v, hash |-> h, map |-> x]
<1>9. Sound(e)
  BY <1>3, <1>5, <1>6 DEF Sound, States, MapOK, h
<1>10. e.version = v /\ e.map = x /\ e.hash = h
  OBVIOUS
<1> HIDE DEF e
<1>11. Encoded(st, m) = e
  BY <1>8 DEF e
<1> QED BY <1>4, <1>9, <1>10, <1>11 DEF map, v, x, h

\* No value that is held is the next MAC.
LEMMA KnownIsOld ==
  ASSUME ServerOK, NEW c \in Collections, NEW map, Known(c, map), NEW m, m.mac = NextMac
  PROVE  Fits(map, m)
<1> SUFFICES ASSUME NEW j \in DOMAIN map PROVE map[j] # m.mac
  BY DEF Fits
<1>1. map[j] \in 1..Cardinality(Accepted)
  BY DEF Known, ServerOK
<1>2. Cardinality(Accepted) \in Nat
  BY FS_CardinalityType DEF ServerOK
<1> QED BY <1>1, <1>2 DEF NextMac

\* What is uploaded for own, and taken.
Uploaded(own, states, c, m, st, e, p) ==
    /\ c = own.collection /\ m = OwnMutation(own) /\ st = StateIn(states, c)
    /\ e = Encoded(st, m) /\ p = Patch(m, e.hash, TRUE)
    /\ e.version = Len(server[c]) + 1 /\ NextMac \in Macs

Accepting(own, states, e, p) ==
    [phase |-> "accepted", own |-> own, patch |-> p, states |-> states, encoded |-> e]

\* What is uploaded, and what it makes of the state it was made from.
LEMMA UploadedIs ==
  ASSUME ServerOK, NEW own \in Owns, NEW states, AllHeld(states),
         NEW c, NEW m, NEW st, NEW e, NEW p, Uploaded(own, states, c, m, st, e, p)
  PROVE  /\ c \in Collections /\ Fresh(p) /\ p.claim = e.hash
         /\ Held(c, st) /\ st.version \in Nat /\ Len(server[c]) \in Nat /\ st.version = Len(server[c])
         /\ Sound(e) /\ e.version = st.version + 1 /\ FollowsOne(st.map, p, e.map)
         /\ Exact(st) => e.hash = HashOf(Mixed(st.map, p))
         /\ Exact(st) => Exact(e) \/ p.op = "remove"
         /\ p.own = TRUE
<1>1. c \in Collections /\ own.index \in Indexes /\ own.op \in {"set", "remove"} /\ own.key \in Keys
  BY DEF Owns, Uploaded
<1>2. Held(c, st)
  BY <1>1, StateInHeld DEF Uploaded
<1>3. /\ m = [op |-> own.op, index |-> own.index, mac |-> NextMac, key |-> own.key, broken |-> "no"]
      /\ m.mac = NextMac /\ IsMutation(m)
  BY <1>1 DEF OwnMutation, IsMutation, Uploaded
<1>4. Sound(st) /\ Known(c, st.map) /\ st.version \in Nat /\ Len(server[c]) \in Nat
  BY <1>1, <1>2, ServerTypes DEF Held, Sound, States
<1>5. Fits(st.map, m)
  BY <1>1, <1>3, <1>4, KnownIsOld
<1>6. /\ Sound(e) /\ e.version = st.version + 1 /\ e.map = Put(Mixed(st.map, m), m.index, m.mac)
      /\ Exact(st) => e.hash = HashOf(Mixed(st.map, m))
  BY <1>3, <1>4, <1>5, EncodedIs DEF Uploaded
<1>7. e.hash \in Hashes /\ NextMac \in Macs /\ e.version = Len(server[c]) + 1 /\ p = Patch(m, e.hash, TRUE)
  BY <1>6 DEF Sound, States, Uploaded
<1>8. /\ p \in PatchType /\ p.mac = NextMac /\ p.op = m.op /\ p.index = m.index /\ p.claim = e.hash
      /\ p.own = TRUE
  BY <1>1, <1>3, <1>7 DEF Patch, PatchType
<1>9. Mixed(st.map, p) = Mixed(st.map, m)
  BY <1>3, <1>8 DEF Mixed
<1>10. st.version = Len(server[c])
  BY <1>4, <1>6, <1>7
<1>11. m.op = "set" => e.map = Mixed(st.map, m)
  BY <1>6, PutTwice
<1>12. m.op \in {"set", "remove"}
  BY <1>3 DEF IsMutation
<1>13. FollowsOne(st.map, p, e.map)
  BY <1>3, <1>6, <1>8, <1>9, <1>11, <1>12 DEF FollowsOne, Unlike
<1>14. Exact(st) => Exact(e) \/ p.op = "remove"
  BY <1>6, <1>8, <1>11, <1>12 DEF Exact
<1> QED BY <1>1, <1>2, <1>4, <1>6, <1>8, <1>9, <1>10, <1>13, <1>14 DEF Fresh

\* The server then has a version that the encoded state holds.
LEMMA UploadAccepted ==
  ASSUME ServerOK, NEW own \in Owns, NEW states \in StateMaps, AllHeld(states),
         NEW c, NEW m, NEW st, NEW e, NEW p, Uploaded(own, states, c, m, st, e, p), Grows(c, p)
  PROVE  /\ AcceptedOK(Accepting(own, states, e, p))'
         /\ \A n \in Nat : n = Len(server[c]) + 1 => OwnClaims(c, n)'
<1> DEFINE l == Len(server[c])
<1>1. /\ c \in Collections /\ Fresh(p) /\ p.claim = e.hash
      /\ Held(c, st) /\ st.version \in Nat /\ l \in Nat /\ st.version = l
      /\ Sound(e) /\ e.version = st.version + 1 /\ FollowsOne(st.map, p, e.map)
      /\ Exact(st) => e.hash = HashOf(Mixed(st.map, p))
      /\ Exact(st) => Exact(e) \/ p.op = "remove"
      /\ p.own = TRUE
  BY UploadedIs
<1>2. ServerOK' /\ Keeps /\ server' \in [Collections -> Seq(PatchType)]
  BY <1>1, ServerOKGrows, KeepsAll, GrowsTo
<1>3. Len(server'[c]) = l + 1 /\ server'[c][l + 1] = p
  BY <1>1, GrowsTo
<1>4. Held(c, st)' /\ AllHeld(states)'
  <2>1. Held(c, st) => Held(c, st)'
    BY <1>1, <1>2, HeldKept
  <2>2. AllHeld(states) => AllHeld(states)'
    BY <1>2, AllHeldKept
  <2> QED BY <1>1, <2>1, <2>2
<1>5. Held(c, e)'
  <2>1. st.version + 1 <= Len(server'[c])
    BY <1>1, <1>3
  <2>2. server'[c][st.version + 1] = p
    BY <1>1, <1>3
  <2>3. FollowsOne(st.map, server'[c][st.version + 1], e.map)
    BY <1>1, <2>2
  <2>4. Exact(st) => Removed(c, e.version)' \/ Exact(e)
    <3>1. e.version \in 1..e.version /\ server'[c][e.version] = p
      BY <1>1, <2>2
    <3> QED BY <1>1, <3>1 DEF Removed
  <2> HIDE DEF l
  <2> QED BY <1>1, <1>2, <1>4, <2>1, <2>3, <2>4, NextAdvance DEF Advance
<1>6. \A n \in Nat : n = l + 1 => OwnClaims(c, n)'
  <2> HIDE DEF l
  <2> TAKE n \in Nat
  <2> HAVE n = l + 1
  <2>1. n = e.version /\ server'[c][n] = p
    BY <1>1, <1>3
  <2>2. ASSUME \A k \in 1..n : server'[c][k].broken = "no", ~ Removed(c, n - 1)'
        PROVE  e.hash = HashOf(TrueMap(c, n)')
    <3>1. n - 1 = st.version /\ n = st.version + 1
      BY <1>1
    <3>2. ~ Removed(c, st.version)'
      BY <2>2, <3>1
    <3>3. Exact(st)
      BY <1>4, <3>2 DEF Held
    <3>4. \A k \in 1..st.version : server'[c][k].broken = "no"
      BY <1>1, <2>2, <3>1
    <3>5. st.map = TrueMap(c, st.version)'
      BY <1>1, <1>2, <1>4, <3>2, <3>4, NextAdvance DEF TrueWhenHeld
    <3>6. TrueMap(c, st.version + 1)' = Mixed(TrueMap(c, st.version)', server'[c][st.version + 1])
      BY <1>1, <1>2, <1>3, NextAdvance DEF TrueThenMixed
    <3>7. TrueMap(c, n)' = Mixed(st.map, p)
      BY <2>1, <3>1, <3>5, <3>6
    <3> QED BY <1>1, <3>3, <3>7
  <2> QED BY <1>1, <2>1, <2>2 DEF OwnClaims
<1> DEFINE t == Accepting(own, states, e, p)
<1>7. t \in [phase : {"accepted"}, own : Owns, patch : PatchType, states : StateMaps, encoded : States]
  BY <1>1 DEF Accepting, Fresh, Sound
<1>8. t.own = own /\ t.patch = p /\ t.states = states /\ t.encoded = e
  BY DEF Accepting
<1>9. own.collection = c /\ StateIn(states, c) = st
  BY DEF Uploaded
<1>10. server'[c][e.version] = p
  BY <1>1, <1>3
<1> HIDE DEF t, l
<1>11. AcceptedOK(t)'
  BY <1>1, <1>4, <1>5, <1>7, <1>8, <1>9, <1>10 DEF AcceptedOK
<1> QED BY <1>6, <1>11 DEF l, t

-----------------------------------------------------------------------------
(* The upload and its end. *)

\* The server takes the patch.
LEMMA UploadTaken ==
  ASSUME AppStateInv, NEW own \in Owns, NEW states \in StateMaps, AllHeld(states),
         NEW c, NEW m, NEW st, NEW e, NEW p, Uploaded(own, states, c, m, st, e, p), Grows(c, p),
         UNCHANGED <<keys, stored, shown>>, task' = Accepting(own, states, e, p)
  PROVE  AppStateInv'
<1>1. ServerOK
  BY DEF AppStateInv
<1>2. c \in Collections /\ Fresh(p)
  BY <1>1, UploadedIs
<1>3. /\ AcceptedOK(Accepting(own, states, e, p))'
      /\ \A n \in Nat : n = Len(server[c]) + 1 => OwnClaims(c, n)'
  BY <1>1, UploadAccepted
<1>4. TaskOK'
  <2> DEFINE t == Accepting(own, states, e, p)
  <2>1. AcceptedOK(t)' /\ task' = t
    BY <1>3
  <2> HIDE DEF t
  <2> QED BY <2>1 DEF TaskOK
<1> QED BY <1>2, <1>3, <1>4, GrowsHolds

\* It does, or it does not.
LEMMA UploadHolds ==
  ASSUME AppStateInv, Upload
  PROVE  AppStateInv'
<1>1. PICK own, states : own = task.own /\ states = task.states
  OBVIOUS
<1>2. /\ ServerOK /\ OthersAccept /\ shown \subseteq Accepted
      /\ own \in Owns /\ states \in StateMaps /\ AllHeld(states)
  <2>1. SyncOK(task) /\ task.own \in Owns
    BY PhaseOf DEF AppStateInv, Upload
  <2>2. task.states \in StateMaps /\ AllHeld(task.states)
    BY <2>1 DEF SyncOK, Syncs
  <2> QED BY <1>1, <2>1, <2>2 DEF AppStateInv
<1>3. PICK c, m, st : c = own.collection /\ m = OwnMutation(own) /\ st = StateIn(states, c)
  OBVIOUS
<1>4. PICK e : e = Encoded(st, m)
  OBVIOUS
<1>5. PICK p : p = Patch(m, e.hash, TRUE)
  OBVIOUS
<1>6. /\ UNCHANGED <<keys, stored, shown>>
      /\ IF e.version = Len(server[c]) + 1
         THEN NextMac \in Macs /\ Grows(c, p) /\ task' = Accepting(own, states, e, p)
         ELSE task' = [phase |-> "done", states |-> states] /\ UNCHANGED server
  BY <1>1, <1>3, <1>4, <1>5 DEF Upload, StateOf, StateIn, Grows, Accepting
<1>7. CASE e.version = Len(server[c]) + 1
  <2>1. Uploaded(own, states, c, m, st, e, p)
    BY <1>3, <1>4, <1>5, <1>6, <1>7 DEF Uploaded
  <2> QED BY <1>2, <1>6, <1>7, <2>1, UploadTaken
<1>8. CASE e.version # Len(server[c]) + 1
  <2> DEFINE u == [phase |-> "done", states |-> states]
  <2>1. DoneOK(u)
    BY <1>2 DEF DoneOK
  <2>2. task' = u
    BY <1>6, <1>8
  <2> HIDE DEF u
  <2>3. TaskOK'
    BY <1>2, <1>6, <1>8, <2>1, <2>2, SameServer DEF TaskOK
  <2> QED BY <1>2, <1>6, <1>8, <2>3, TaskSteps
<1> QED BY <1>7, <1>8

\* The encoded state is put, and the patch is shown.
LEMMA AcknowledgeHolds ==
  ASSUME AppStateInv, Acknowledge
  PROVE  AppStateInv'
<1> DEFINE own == task.own
           c == own.collection
           st == StateOf(c)
           s == <<[version |-> task.encoded.version, claim |-> task.patch.claim,
                   mutations |-> <<task.patch>>]>>
           r == DecodePatches(s, st, None, keys.held, TRUE)
           u == [phase |-> "done", states |-> [task.states EXCEPT ![c] = task.encoded]]
           S == Mine(c)
<1>1. /\ AcceptedOK(task) /\ UNCHANGED <<server, keys, stored>>
      /\ task' = u /\ shown' = shown \union Mutations(r.events)
  BY PhaseOf DEF AppStateInv, Acknowledge
<1>2. /\ ServerOK /\ OthersAccept /\ shown \subseteq Accepted
      /\ c \in Collections /\ task.states \in StateMaps /\ AllHeld(task.states)
      /\ task.patch \in PatchType /\ task.encoded \in States /\ Held(c, task.encoded)
  BY <1>1 DEF AppStateInv, AcceptedOK, Owns
<1>3. Held(c, st)
  BY <1>2, StateInHeld DEF StateOf, StateIn
<1>4. /\ task.encoded.version = st.version + 1 /\ task.patch = server[c][task.encoded.version]
      /\ task.encoded.version \in 1..Len(server[c]) /\ st.version \in Nat
  <2>1. task.encoded.version = st.version + 1 /\ task.patch = server[c][task.encoded.version]
    <3>1. st = StateIn(task.states, c)
      BY DEF StateOf, StateIn
    <3>2. /\ task.encoded.version = StateIn(task.states, c).version + 1
          /\ task.patch = server[c][task.encoded.version]
      BY <1>1 DEF AcceptedOK
    <3> HIDE DEF st, c
    <3> QED BY <3>1, <3>2
  <2> QED BY <1>2, <1>3, <2>1, ServerTypes DEF Held, Sound, States
<1>5. S \subseteq PatchType /\ S \subseteq Accepted /\ task.patch \in S
  BY <1>2, <1>4, MineTypes, ServerTypes DEF Mine
<1>6. s \in Seq(Pages(S)) /\ Follows(c, st.version, s)
  <2> DEFINE v == st.version
             p == task.patch
             w == task.encoded.version
             x == [version |-> w, claim |-> p.claim, mutations |-> <<p>>]
             T == Pages(S)
  <2>1. p.claim \in Hashes
    BY <1>2 DEF PatchType
  <2>2. w \in Nat /\ v \in Nat /\ w = v + 1 /\ w <= Len(server[c]) /\ Len(server[c]) \in Nat
        /\ p \in S /\ p = server[c][w]
    BY <1>2, <1>4, <1>5, ServerTypes
  <2>3. s = <<x>>
    OBVIOUS
  <2> HIDE DEF S, v, p, w, s
  <2>4. <<p>> \in Seq(S)
    BY <2>2
  <2>5. x \in T /\ x.version = w /\ x.mutations = <<p>>
    BY <2>1, <2>2, <2>4 DEF Pages
  <2> HIDE DEF x, T
  <2>6. s \in Seq(T) /\ Len(s) = 1 /\ s[1] = x
    BY <2>3, <2>5
  <2>7. Follows(c, v, s)
    BY <2>2, <2>5, <2>6 DEF Follows
  <2> QED BY <2>6, <2>7 DEF T, v
<1> HIDE DEF s, st, S
<1>7. r \in Results(S)
  BY <1>2, <1>3, <1>5, <1>6, PageHolds
<1>8. Mutations(r.events) \subseteq Accepted
  <2> DEFINE e == r.events
  <2>1. e \in Seq(S)
    BY <1>7 DEF Results
  <2> HIDE DEF e
  <2>2. Mutations(e) \subseteq S
    BY <2>1 DEF Mutations
  <2> QED BY <1>5, <2>2 DEF e
<1>9. DoneOK(u)
  <2> DEFINE f == [task.states EXCEPT ![c] = task.encoded]
  <2>1. f \in StateMaps
    BY <1>2 DEF StateMaps
  <2>2. AllHeld(f)
    BY <1>2 DEF AllHeld, StateMaps
  <2> DEFINE w == [phase |-> "done", states |-> f]
  <2>3. u = w
    OBVIOUS
  <2> HIDE DEF f, u
  <2>4. DoneOK(w)
    BY <2>1, <2>2 DEF DoneOK
  <2> QED BY <2>3, <2>4
<1> HIDE DEF u
<1>10. TaskOK'
  BY <1>1, <1>2, <1>9, SameServer DEF TaskOK
<1> QED BY <1>1, <1>2, <1>8, <1>10, TaskSteps

-----------------------------------------------------------------------------
(* Every step. *)

\* Where nothing happens.
LEMMA StutterHolds ==
  ASSUME AppStateInv, UNCHANGED vars
  PROVE  AppStateInv'
<1>1. TaskOK'
  <2>1. /\ SyncOK(task) => SyncOK(task)'
        /\ AcceptedOK(task) => AcceptedOK(task)'
        /\ DoneOK(task) => DoneOK(task)'
    <3>1. /\ \A t : SyncOK(t) => SyncOK(t)'
          /\ \A t : AcceptedOK(t) => AcceptedOK(t)'
          /\ \A t : DoneOK(t) => DoneOK(t)'
      BY SameServer DEF AppStateInv, vars
    <3>2. task' = task
      BY DEF vars
    <3> QED BY <3>1, <3>2
  <2> QED BY <2>1 DEF TaskOK, AppStateInv, vars
<1> QED BY <1>1, TaskSteps DEF vars, AppStateInv

\* One case for each action.
LEMMA NextHolds ==
  ASSUME AppStateInv, [Next]_vars
  PROVE  AppStateInv'
<1>1. ASSUME NEW c \in Collections, OtherPatch(c) PROVE AppStateInv'
  BY <1>1, OtherPatchHolds
<1>2. ASSUME NEW k \in Keys, KeyShare(k) PROVE AppStateInv'
  BY <1>2, KeyShareHolds
<1>3. ASSUME NEW collections \in SUBSET Collections, Resync(collections) PROVE AppStateInv'
  BY <1>3, ResyncHolds
<1>4. ASSUME NEW c \in Collections, NEW i \in Indexes, NEW op \in OwnOperations, AppPatch(c, i, op)
      PROVE  AppStateInv'
  BY <1>4, AppPatchHolds
<1>5. ASSUME NEW collections \in SUBSET Collections, Query(collections) PROVE AppStateInv'
  BY <1>5, QueryHolds
<1>6. ASSUME NEW c \in Collections, Read(c) PROVE AppStateInv'
  BY <1>6, ReadHolds
<1>7. CASE Emit
  BY <1>7, EmitHolds
<1>8. CASE Upload
  BY <1>8, UploadHolds
<1>9. CASE Acknowledge
  BY <1>9, AcknowledgeHolds
<1>10. CASE QueryFails
  BY <1>10, QueryFailsHolds
<1>11. CASE Commit
  BY <1>11, CommitHolds
<1>12. CASE Killed
  BY <1>12, KilledHolds
<1>13. CASE UNCHANGED vars
  BY <1>13, StutterHolds
<1> QED BY <1>1, <1>2, <1>3, <1>4, <1>5, <1>6, <1>7, <1>8, <1>9, <1>10, <1>11, <1>12, <1>13 DEF Next

(* Every state in which app_state.ex can be is one of AppStateInv, whatever *)
(* app_patch sets or removes: for any collections, indexes, keys and length *)
(* of history, any page size, and whatever is broken or fails.              *)
THEOREM AppStateInvariant == Spec => []AppStateInv
<1>1. Init => AppStateInv
  BY InitHolds
<1>2. AppStateInv /\ [Next]_vars => AppStateInv'
  BY NextHolds
<1> QED BY <1>1, <1>2, PTL DEF Spec

-----------------------------------------------------------------------------
(* What it implies. *)

\* What is stored is held.
LEMMA StoredHeld ==
  ASSUME AppStateInv, NEW c \in Collections, stored[c] # None
  PROVE  /\ Held(c, stored[c]) /\ stored[c] \in States
         /\ Removed(c, stored[c].version) \/ stored[c].hash = HashOf(stored[c].map)
         /\ stored[c].version \in 0..Len(server[c])
         /\ Agrees(c, stored[c].map, stored[c].version)
<1>1. Held(c, stored[c])
  BY DEF AppStateInv, StoredOK, AllHeld
<1> QED BY <1>1 DEF Held, Sound, Exact

\* The invariant has the types.
LEMMA AppStateTypes ==
  ASSUME AppStateInv
  PROVE  TypeOK
<1>1. server \in [Collections -> Seq(PatchType)]
  BY DEF AppStateInv, ServerOK
<1>2. keys.held \subseteq Keys /\ keys.mine \in keys.held \union {None}
  BY DEF AppStateInv, KeysOK
<1>3. ASSUME NEW c \in Collections, stored[c] # None
      PROVE  /\ stored[c].hash \in Hashes
             /\ DOMAIN stored[c].map \subseteq Indexes
             /\ stored[c].version \in 0..Len(server[c])
  BY <1>3, StoredHeld DEF States, Maps
<1>4. task.phase \in {"idle", "syncing", "patching", "accepted", "done"}
  BY PhaseOf DEF AppStateInv
<1> QED BY <1>1, <1>2, <1>3, <1>4 DEF TypeOK, AppStateInv

\* It has the hashes.
LEMMA HashesHold ==
  ASSUME AppStateInv
  PROVE  HashIsMap
  BY AppStateTypes, StoredHeld DEF HashIsMap

\* And it has what the server has.
LEMMA StoredHolds ==
  ASSUME AppStateInv
  PROVE  StoredIsServer
<1> SUFFICES ASSUME NEW c \in Collections, NEW i \in Indexes, stored[c] # None
             PROVE  LET v == stored[c].version
                        last == server[c][LastAt(c, i, v)]
                        true == TrueMap(c, v)
                    IN  \/ /\ LastAt(c, i, v) > 0
                           /\ last.broken # "no" \/ (last.own /\ last.op = "remove")
                        \/ /\ i \in DOMAIN true <=> i \in DOMAIN stored[c].map
                           /\ i \in DOMAIN true => stored[c].map[i] = true[i]
  BY DEF StoredIsServer
<1> DEFINE v == stored[c].version
           map == stored[c].map
           real == TrueMap(c, v)
<1>1. \/ Astray(c, i, v)
      \/ /\ IsSet(c, i, v) <=> i \in DOMAIN map
         /\ IsSet(c, i, v) => map[i] = server[c][LastAt(c, i, v)].mac
  BY StoredHeld DEF Agrees
<1>2. i \in DOMAIN real <=> IsSet(c, i, v)
  BY TrueMapIs
<1>3. IsSet(c, i, v) => real[i] = server[c][LastAt(c, i, v)].mac
  BY TrueMapIs
<1> HIDE DEF v, map, real
<1>4. \/ Astray(c, i, v)
      \/ /\ i \in DOMAIN real <=> i \in DOMAIN map
         /\ i \in DOMAIN real => map[i] = real[i]
  BY <1>1, <1>2, <1>3
<1> QED BY <1>4 DEF v, map, real, Astray, Unlike

(* Stored versions are versions of the server, and what is shown to the     *)
(* application is some device's patch.                                      *)
THEOREM AppStateTypeCorrect == Spec => []TypeOK
  BY AppStateInvariant, AppStateTypes, PTL

(* The running hash that process_single_collection/5 and app_patch/4 store  *)
(* is the one that the values of the stored map have.                       *)
THEOREM StoredHashIsOfMap == Spec => []HashIsMap
  BY AppStateInvariant, HashesHold, PTL

(* By whatever snapshots, pages and retries it was reached, a stored        *)
(* collection holds what the patches up to its version amount to.           *)
THEOREM StoredIsTheServers == Spec => []StoredIsServer
  BY AppStateInvariant, StoredHolds, PTL

(* The hash that encode_syncd_patch/5 claims is the one which devices that  *)
(* verify it compute.                                                       *)
THEOREM OwnPatchesAreAccepted == Spec => []OthersAccept
<1>1. AppStateInv => OthersAccept
  BY DEF AppStateInv
<1> QED BY <1>1, AppStateInvariant, PTL

\* Only reading takes an answer away.
LEMMA ReadGetsOn ==
  ASSUME AppStateInv, [Next]_vars
  PROVE  task.phase = "syncing" /\ task'.phase = "syncing" =>
          \A c \in (DOMAIN task.answers \ DOMAIN task'.answers) \intersect task'.remaining :
              \/ task.attempts[c] < task'.attempts[c] /\ task'.attempts[c] < MaxAttempts
              \/ task.attempts[c] = task'.attempts[c] /\
                    \/ task.answers[c].snapshot
                    \/ task'.states[c].version > StateOf(c).version
<1> SUFFICES ASSUME task.phase = "syncing", task'.phase = "syncing",
                    NEW c \in DOMAIN task.answers \ DOMAIN task'.answers, c \in task'.remaining
             PROVE  \/ task.attempts[c] < task'.attempts[c] /\ task'.attempts[c] < MaxAttempts
                    \/ task.attempts[c] = task'.attempts[c] /\
                          \/ task.answers[c].snapshot
                          \/ task'.states[c].version > StateOf(c).version
  OBVIOUS
<1>1. task' # task /\ task # Idle /\ task' # Idle
  BY DEF Idle
<1>2. DOMAIN task.answers # {}
  OBVIOUS
<1>3. ~ Emit
  <2>1. task.answers = <<>> => DOMAIN task.answers = {}
    OBVIOUS
  <2> QED BY <1>2, <2>1 DEF Emit
<1>4. ASSUME NEW collections, Query(collections) PROVE FALSE
  <2>1. task.answers = <<>>
    BY <1>4 DEF Query
  <2>2. DOMAIN task.answers = {}
    BY <2>1
  <2> QED BY <1>2, <2>2
<1>5. ~ Upload /\ ~ Acknowledge /\ ~ Commit /\ ~ Killed /\ ~ QueryFails
  BY <1>1 DEF Upload, Acknowledge, Commit, Killed, QueryFails
<1>6. \A d \in Collections : ~ OtherPatch(d)
  BY <1>1 DEF OtherPatch
<1>7. \A k \in Keys : ~ KeyShare(k)
  BY <1>1 DEF KeyShare
<1>8. /\ \A collections : ~ Resync(collections)
      /\ \A d, i, op : ~ AppPatch(d, i, op)
  BY <1>1 DEF Resync, AppPatch
<1>9. ~ UNCHANGED vars
  BY <1>1 DEF vars
<1>10. PICK d \in Collections : Read(d)
  BY <1>3, <1>4, <1>5, <1>6, <1>7, <1>8, <1>9 DEF Next
<1>11. PICK t : /\ task' = t
                /\ DOMAIN task.answers \ DOMAIN t.answers = {d}
                /\ d \in t.remaining =>
                      \/ task.attempts[d] < t.attempts[d] /\ t.attempts[d] < MaxAttempts
                      \/ task.attempts[d] = t.attempts[d] /\
                            \/ task.answers[d].snapshot
                            \/ t.states[d].version > StateOf(d).version
  BY <1>10, ReadKeeps
<1>12. c = d
  BY <1>11
<1> QED BY <1>11, <1>12

(* do_resync_loop/3 ends: a collection that is read is done with, gets on,  *)
(* or uses up one of its attempts, of which there are MaxAttempts.          *)
THEOREM ResyncsEnd == Spec => ResyncEnds
<1>1. AppStateInv /\ [Next]_vars =>
        [task.phase = "syncing" /\ task'.phase = "syncing" =>
          \A c \in (DOMAIN task.answers \ DOMAIN task'.answers) \intersect task'.remaining :
              \/ task.attempts[c] < task'.attempts[c] /\ task'.attempts[c] < MaxAttempts
              \/ task.attempts[c] = task'.attempts[c] /\
                    \/ task.answers[c].snapshot
                    \/ task'.states[c].version > StateOf(c).version]_vars
  BY ReadGetsOn
<1> QED BY <1>1, AppStateInvariant, PTL DEF Spec, ResyncEnds

-----------------------------------------------------------------------------
(* What a resync emits. *)

\* A collection of which no reading has failed: its events are patches up to its
\* version in their order, and a snapshot is read only where there is nothing.
InOrder(s, c, t) ==
    t.attempts[c] = 0 =>
        /\ c \notin t.forced
        /\ Part(s, 0, StateIn(t.states, c).version, t.events[c])
        /\ c \in DOMAIN t.answers /\ t.answers[c].snapshot => StateIn(t.states, c).version = 0

EventsInv == task.phase = "syncing" => \A c \in Collections : InOrder(server[c], c, task)

\* None is not a state.
LEMMA NoneIsNoState == None \notin States
  BY AppStateAssumption DEF States, Maps

\* What is in order stays so when the server grows.
LEMMA InOrderKept ==
  ASSUME ServerOK, Keeps, SyncOK(task), NEW c \in Collections, InOrder(server[c], c, task)
  PROVE  InOrder(server'[c], c, task)
<1> DEFINE v == StateIn(task.states, c).version
           e == task.events[c]
<1>1. v \in Nat /\ v <= Len(server[c])
  BY StateInHeld, ServerTypes DEF SyncOK, Held
<1>2. \A n \in 1..Len(server[c]) : server'[c][n] = server[c][n]
  BY DEF Keeps
<1>3. Len(server[c]) \in Nat
  BY ServerTypes
<1>4. ASSUME Part(server[c], 0, v, e) PROVE Part(server'[c], 0, v, e)
  <2> HIDE DEF v, e
  <2>1. ASSUME NEW n \in 1..Len(e) PROVE \E k \in (0 + 1)..v : e[n] = server'[c][k]
    <3>1. PICK k \in (0 + 1)..v : e[n] = server[c][k]
      BY <1>4 DEF Part
    <3>2. k \in 1..Len(server[c])
      BY <1>1, <1>3
    <3> QED BY <1>2, <3>1, <3>2
  <2> QED BY <1>4, <2>1 DEF Part
<1> QED BY <1>4 DEF InOrder

\* A task begins without events.
LEMMA StartedInOrder ==
  ASSUME NEW s, NEW c \in Collections, NEW remaining, NEW own
  PROVE  InOrder(s, c, Started(remaining, own))
<1> DEFINE e == <<>>
           t == Started(remaining, own)
<1>1. t.forced = {} /\ t.answers = e /\ t.events[c] = e
  BY DEF Started
<1>2. DOMAIN e = {} /\ Part(s, 0, StateIn(t.states, c).version, e)
  BY PartEmpty
<1> HIDE DEF e, t
<1>3. InOrder(s, c, t)
  BY <1>1, <1>2 DEF InOrder
<1> QED BY <1>3 DEF t

\* A snapshot is asked for where there is nothing yet.
LEMMA QueryInOrder ==
  ASSUME AppStateInv, EventsInv, NEW collections \in SUBSET Collections, Query(collections)
  PROVE  EventsInv'
<1>1. SyncOK(task) /\ task \in Syncs /\ task.phase = "syncing" /\ server' = server
  BY PhaseOf DEF AppStateInv, SyncOK, Query
<1>2. PICK answers \in AnswerSets(collections) :
         task' = [task EXCEPT !.answers = answers, !.forced = {},
                              !.minimum = [c \in Collections |->
                                  IF c \in task.remaining THEN MinimumOf(c) ELSE @[c]]]
  BY DEF Query
<1>3. DOMAIN answers = collections /\ \A c \in collections : answers[c] \in Answers(c)
  BY DEF AnswerSets
<1>4. /\ task'.attempts = task.attempts /\ task'.forced = {} /\ task'.states = task.states
      /\ task'.events = task.events /\ task'.answers = answers
  <2> DEFINE minimum == [c \in Collections |-> IF c \in task.remaining THEN MinimumOf(c) ELSE task.minimum[c]]
  <2>1. task = [phase |-> task.phase, remaining |-> task.remaining, own |-> task.own, attempts |-> task.attempts,
                minimum |-> task.minimum, forced |-> task.forced, answers |-> task.answers,
                states |-> task.states, absent |-> task.absent, events |-> task.events]
    BY <1>1, TaskIsSync
  <2>2. task' = [task EXCEPT !.answers = answers, !.forced = {}, !.minimum = minimum]
    BY <1>2
  <2> HIDE DEF minimum
  <2> QED BY <2>1, <2>2
<1>5. ASSUME NEW c \in Collections, task.attempts[c] = 0 PROVE
         /\ Part(server[c], 0, StateIn(task.states, c).version, task.events[c])
         /\ c \in DOMAIN answers /\ answers[c].snapshot => StateIn(task.states, c).version = 0
  <2>1. c \notin task.forced /\ Part(server[c], 0, StateIn(task.states, c).version, task.events[c])
    BY <1>1, <1>5 DEF EventsInv, InOrder
  <2>2. ASSUME c \in collections, answers[c].snapshot PROVE StateIn(task.states, c).version = 0
    <3>1. answers[c] \in Answers(c)
      BY <1>3, <2>2
    <3> DEFINE a == answers[c]
               w == WantsSnapshot(c) /\ server[c] # <<>>
    <3>2. a.snapshot = w
      BY <3>1 DEF Answers
    <3> HIDE DEF a
    <3>3. WantsSnapshot(c)
      BY <2>2, <3>2 DEF a
    <3> QED BY <2>1, <3>3 DEF WantsSnapshot, StateOf, StateIn
  <2> QED BY <1>3, <2>1, <2>2
<1>6. \A c \in Collections : InOrder(server[c], c, task')
  BY <1>4, <1>5 DEF InOrder
<1> QED BY <1>1, <1>6 DEF EventsInv

\* Reading a collection leaves the others alone.
LEMMA OthersInOrder ==
  ASSUME SyncOK(task), NEW c \in Collections, NEW d \in Collections, d # c,
         NEW s, InOrder(s, d, task),
         NEW remaining, NEW attempts, attempts[d] = task.attempts[d], NEW minimum,
         NEW forced, d \in forced => d \in task.forced,
         NEW put, NEW st, NEW absent, NEW events, events[d] = task.events[d]
  PROVE  InOrder(s, d, Changed(remaining, attempts, minimum, forced, Others(c), PutState(c, put, st), absent, events))
<1> DEFINE q == PutState(c, put, st)
           o == Others(c)
           t == Changed(remaining, attempts, minimum, forced, o, q, absent, events)
<1>1. q[d] = task.states[d]
  <2>1. task.states \in StateMaps
    BY TaskIsSync DEF SyncOK
  <2> QED BY <2>1 DEF PutState, StateMaps
<1>2. d \in DOMAIN o => d \in DOMAIN task.answers /\ o[d] = task.answers[d]
  BY DEF Others
<1> HIDE DEF q, o
<1>3. t.attempts = attempts /\ t.forced = forced /\ t.states = q /\ t.events = events /\ t.answers = o
  BY DEF Changed
<1> HIDE DEF t
<1>4. StateIn(t.states, d) = StateIn(task.states, d)
  BY <1>1, <1>3 DEF StateIn
<1>5. InOrder(s, d, t)
  BY <1>2, <1>3, <1>4 DEF InOrder
<1> QED BY <1>5 DEF t, q, o

\* What is read without failure is emitted after what there was.
LEMMA SuccessInOrder ==
  ASSUME AppStateInv, EventsInv, task.phase = "syncing", NEW c \in DOMAIN task.answers,
         ReadOf(c).status \in {"ok", "stop"}
  PROVE  \A d \in Collections : InOrder(server[d], d, Left(Succeed(c, task.answers[c], ReadOf(c)), c))
<1> DEFINE a == task.answers[c]
           read == ReadOf(c)
           r == IF a.more THEN task.remaining ELSE task.remaining \ {c}
           m == [task.minimum EXCEPT ![c] = IF a.upto > a.after THEN read.state.version ELSE @]
           e == [task.events EXCEPT ![c] = @ \o read.events]
           some == a.snapshot \/ a.upto > a.after
           q == PutState(c, some, read.state)
           o == Others(c)
           t == Changed(r, task.attempts, m, task.forced, o, q, task.absent, e)
<1>1. ServerOK /\ SyncOK(task) /\ task \in Syncs
  BY PhaseOf DEF AppStateInv, SyncOK
<1>2. /\ c \in Collections /\ AnswerOK(c, a, task.states)
      /\ read \in Results(Mine(c)) /\ Held(c, read.state)
      /\ a.after < a.upto => a.after < read.state.version
      /\ a.after = a.upto => a.after = read.state.version
      /\ Part(server[c], Base(a), read.state.version, read.events)
  BY <1>1, ReadIs
<1>3. Left(Succeed(c, a, read), c) = t
  <2>1. Left(Succeed(c, a, read), c) = Succeeded(c, a, read)
    <3> HIDE DEF a, read
    <3> QED BY <1>1, <1>2, SucceedIs
  <2> QED BY <2>1 DEF Succeeded
<1>4. /\ \A d \in Collections : d # c => e[d] = task.events[d]
      /\ e[c] = task.events[c] \o read.events
  BY <1>1, <1>2, TaskIsSync
<1>5. \A d \in Collections : InOrder(server[d], d, task)
  BY DEF EventsInv
<1>6. ASSUME NEW d \in Collections, d # c PROVE InOrder(server[d], d, t)
  <2> HIDE DEF a, read, r, m, e, some
  <2> QED BY <1>1, <1>2, <1>4, <1>5, <1>6, OthersInOrder
<1>7. ASSUME task.attempts[c] = 0
      PROVE  c \notin task.forced /\ Part(server[c], 0, StateIn(q, c).version, e[c])
  <2> DEFINE s == server[c]
             v == StateIn(task.states, c).version
             w == read.state.version
             f == task.events[c]
             g == read.events
             S == Mine(c)
  <2>1. /\ c \notin task.forced /\ Part(s, 0, v, f) /\ (a.snapshot => v = 0)
    BY <1>2, <1>5, <1>7 DEF InOrder
  <2>2. Base(a) = v
    BY <1>2, <2>1 DEF Base, AnswerOK
  <2>3. v \in Nat /\ w \in Nat /\ w <= Len(s) /\ Len(s) \in Nat /\ Rising(s)
    <3>1. v \in Nat
      BY <1>1, <1>2, StateInHeld DEF SyncOK, Held
    <3>2. w \in Nat /\ w <= Len(s) /\ Len(s) \in Nat
      BY <1>1, <1>2, ServerTypes DEF Held
    <3> QED BY <1>1, <1>2, <3>1, <3>2 DEF ServerOK
  <2>4. a.after \in Nat /\ a.upto \in Nat /\ a.after <= a.upto /\ a.snapshot \in BOOLEAN
    BY <1>2 DEF AnswerOK, Answered
  <2>5. v <= w
    <3> HIDE DEF a, read, v
    <3>1. CASE a.snapshot
      BY <2>1, <2>3, <3>1
    <3>2. CASE ~ a.snapshot
      <4>1. a.after = v
        BY <2>2, <3>2 DEF Base
      <4> QED BY <1>2, <2>3, <2>4, <4>1
    <3> QED BY <3>1, <3>2
  <2>6. f \in Seq(S) /\ g \in Seq(S)
    BY <1>1, <1>2 DEF SyncOK, Results
  <2>7. StateIn(q, c).version = w
    <3>1. task.states \in StateMaps /\ read.state \in States
      BY <1>1, <1>2, TaskIsSync, HeldType
    <3>2. CASE some
      <4>1. q[c] = read.state
        BY <1>2, <3>1, <3>2 DEF PutState, StateMaps
      <4>2. StateIn(q, c) = read.state
        BY <3>1, <4>1, NoneIsNoState DEF StateIn
      <4> QED BY <4>2
    <3>3. CASE ~ some
      <4>1. q[c] = task.states[c]
        BY <1>2, <3>1, <3>3 DEF PutState, StateMaps
      <4>2. StateIn(q, c) = StateIn(task.states, c)
        BY <4>1 DEF StateIn
      <4>3. a.after = a.upto /\ ~ a.snapshot
        BY <2>4, <3>3
      <4>4. a.after = v
        BY <2>2, <4>3 DEF Base
      <4> QED BY <1>2, <4>2, <4>3, <4>4
    <3> QED BY <3>2, <3>3
  <2>8. Part(s, v, w, g)
    BY <1>2, <2>2
  <2> HIDE DEF s, v, w, f, g, S
  <2>9. Part(s, 0, w, f \o g)
    BY <2>1, <2>3, <2>5, <2>6, <2>8, PartJoins
  <2> QED BY <1>4, <2>1, <2>7, <2>9 DEF s, w, f, g
<1>8. c \notin DOMAIN o
  BY DEF Others
<1> HIDE DEF r, m, e, q, o
<1>9. t.attempts = task.attempts /\ t.forced = task.forced /\ t.states = q /\ t.events = e /\ t.answers = o
  BY DEF Changed
<1> HIDE DEF t
<1>10. InOrder(server[c], c, t)
  BY <1>7, <1>8, <1>9 DEF InOrder
<1> QED BY <1>3, <1>6, <1>10 DEF a, read

\* Of a collection whose reading fails nothing more is said.
LEMMA FailureInOrder ==
  ASSUME AppStateInv, EventsInv, task.phase = "syncing", NEW c \in DOMAIN task.answers
  PROVE  \A d \in Collections :
            InOrder(server[d], d, Left(Fail(c, task.answers[c], SnapOf(c), ReadOf(c)), c))
<1> DEFINE a == task.answers[c]
           read == ReadOf(c)
           snapshot == SnapOf(c)
           r == IF GivenUp(task.attempts[c] + 1) THEN task.remaining \ {c} ELSE task.remaining
           n == [task.attempts EXCEPT ![c] = @ + 1]
           f == IF GivenUp(task.attempts[c] + 1) THEN task.forced ELSE task.forced \union {c}
           b == IF read.status = "missing" THEN task.absent \union {read.key} ELSE task.absent
           some == a.snapshot /\ snapshot.status = "ok"
           q == PutState(c, some, snapshot.state)
           t == Changed(r, n, task.minimum, f, Others(c), q, b, task.events)
<1>1. ServerOK /\ SyncOK(task) /\ task \in Syncs
  BY PhaseOf DEF AppStateInv, SyncOK
<1>2. c \in Collections
  BY <1>1, ReadIs
<1>3. Left(Fail(c, a, snapshot, read), c) = t
  <2>1. Left(Fail(c, a, snapshot, read), c) = Failed(c, a, snapshot, read)
    <3> HIDE DEF a, read, snapshot
    <3> QED BY <1>1, <1>2, FailIs
  <2> QED BY <2>1 DEF Failed
<1>4. task.attempts \in [Collections -> Nat]
  BY <1>1, TaskIsSync
<1>5. n[c] # 0 /\ \A d \in Collections : d # c => n[d] = task.attempts[d]
  BY <1>2, <1>4
<1>6. \A d \in Collections : d # c => (d \in f => d \in task.forced)
  OBVIOUS
<1>7. \A d \in Collections : InOrder(server[d], d, task)
  BY DEF EventsInv
<1>8. ASSUME NEW d \in Collections, d # c PROVE InOrder(server[d], d, t)
  <2> DEFINE e == task.events
  <2>1. e[d] = task.events[d]
    OBVIOUS
  <2>2. d \in f => d \in task.forced
    BY <1>6, <1>8
  <2> HIDE DEF a, read, snapshot, r, n, f, b, some, e
  <2>3. InOrder(server[d], d, Changed(r, n, task.minimum, f, Others(c), PutState(c, some, snapshot.state), b, e))
    BY <1>1, <1>2, <1>5, <1>7, <1>8, <2>1, <2>2, OthersInOrder
  <2> QED BY <2>3 DEF e
<1>9. InOrder(server[c], c, t)
  <2> HIDE DEF r, f, b, q, n
  <2>1. t.attempts = n
    BY DEF Changed
  <2> HIDE DEF t
  <2> QED BY <1>5, <2>1 DEF InOrder
<1> HIDE DEF t
<1> QED BY <1>3, <1>8, <1>9 DEF a, read, snapshot

\* A collection is read.
LEMMA ReadInOrder ==
  ASSUME AppStateInv, EventsInv, NEW c \in Collections, Read(c)
  PROVE  EventsInv'
<1>1. server' = server
  BY DEF Read
<1>2. \A d \in Collections : InOrder(server[d], d, task')
  BY ReadSteps, SuccessInOrder, FailureInOrder
<1> QED BY <1>1, <1>2 DEF EventsInv

(* Every step keeps the events in order.                                    *)
LEMMA EventsHold ==
  ASSUME AppStateInv, EventsInv, [Next]_vars
  PROVE  EventsInv'
<1>1. ASSUME NEW d \in Collections, OtherPatch(d) PROVE EventsInv'
  <2>1. task' = task /\ ServerOK /\ (task.phase = "syncing" => SyncOK(task))
    BY <1>1, OtherPatchGrows, PhaseOf DEF AppStateInv
  <2>2. PICK p \in PatchType : Fresh(p) /\ Grows(d, p)
    BY <1>1, OtherPatchGrows
  <2>3. Keeps
    BY <2>1, <2>2, KeepsAll
  <2> QED BY <2>1, <2>3, InOrderKept DEF EventsInv
<1>2. ASSUME NEW k \in Keys, KeyShare(k) PROVE EventsInv'
  BY <1>2 DEF KeyShare, EventsInv
<1>3. ASSUME NEW collections \in SUBSET Collections, Resync(collections) PROVE EventsInv'
  BY <1>3, StartedInOrder DEF Resync, EventsInv
<1>4. ASSUME NEW c \in Collections, NEW i \in Indexes, NEW op \in OwnOperations, AppPatch(c, i, op)
      PROVE  EventsInv'
  BY <1>4, StartedInOrder DEF AppPatch, EventsInv
<1>5. ASSUME NEW collections \in SUBSET Collections, Query(collections) PROVE EventsInv'
  BY <1>5, QueryInOrder
<1>6. ASSUME NEW c \in Collections, Read(c) PROVE EventsInv'
  BY <1>6, ReadInOrder
<1>7. CASE Emit
  <2>1. task \in Syncs
    BY <1>7, PhaseOf DEF Emit, AppStateInv, SyncOK
  <2>2. task' = [task EXCEPT !.phase = IF task.own = None THEN "done" ELSE "patching"]
    BY <1>7 DEF Emit
  <2>3. task'.phase = IF task.own = None THEN "done" ELSE "patching"
    BY <2>1, <2>2 DEF Syncs
  <2> QED BY <2>3 DEF EventsInv
<1>8. CASE Upload
  <2> DEFINE c == task.own.collection
             encoded == Encoded(StateOf(c), OwnMutation(task.own))
             p == Patch(OwnMutation(task.own), encoded.hash, TRUE)
             x == [phase |-> "accepted", own |-> task.own, patch |-> p,
                   states |-> task.states, encoded |-> encoded]
             y == [phase |-> "done", states |-> task.states]
  <2>2. task' = x \/ task' = y
    BY <1>8, Zenon DEF Upload
  <2>3. x.phase = "accepted" /\ y.phase = "done"
    OBVIOUS
  <2> HIDE DEF x, y
  <2>1. task'.phase \in {"accepted", "done"}
    BY <2>2, <2>3
  <2> QED BY <2>1 DEF EventsInv
<1>9. CASE Acknowledge
  <2>1. task'.phase = "done"
    BY <1>9, Zenon DEF Acknowledge
  <2> QED BY <2>1 DEF EventsInv
<1>10. CASE QueryFails
  BY <1>10 DEF QueryFails, EventsInv
<1>11. CASE Commit
  BY <1>11 DEF Commit, EventsInv, Idle
<1>12. CASE Killed
  BY <1>12 DEF Killed, EventsInv, Idle
<1>13. CASE UNCHANGED vars
  BY <1>13 DEF vars, EventsInv
<1> QED BY <1>1, <1>2, <1>3, <1>4, <1>5, <1>6, <1>7, <1>8, <1>9, <1>10, <1>11, <1>12, <1>13 DEF Next

\* What is in order goes forward.
LEMMA OrderIsForward ==
  ASSUME AppStateInv, EventsInv
  PROVE  EventsForward
<1> SUFFICES ASSUME task.phase = "syncing", NEW c \in Collections, task.attempts[c] = 0,
                    NEW n \in DOMAIN task.events[c], NEW k \in DOMAIN task.events[c], n < k
             PROVE  task.events[c][n].mac < task.events[c][k].mac
  BY DEF EventsForward
<1> DEFINE e == task.events[c]
           S == Mine(c)
<1>1. Rising(e)
  BY DEF EventsInv, InOrder, Part
<1>2. e \in Seq(S)
  BY PhaseOf DEF AppStateInv, SyncOK
<1> HIDE DEF e, S
<1>3. DOMAIN e = 1..Len(e)
  BY <1>2
<1> QED BY <1>1, <1>3 DEF Rising, e

(* process_single_collection/5: as long as no reading of a collection has   *)
(* failed, its mutations are emitted in the order in which the server       *)
(* accepted them, whatever snapshots and pages they are read from.          *)
THEOREM EventsGoForward == Spec => []EventsForward
<1>1. Init => EventsInv
  BY DEF Init, EventsInv, Idle
<1>2. AppStateInv /\ EventsInv /\ [Next]_vars => EventsInv'
  BY EventsHold
<1>3. AppStateInv /\ EventsInv => EventsForward
  BY OrderIsForward
<1> QED BY <1>1, <1>2, <1>3, AppStateInvariant, PTL DEF Spec

=============================================================================
