-------------------------- MODULE EventEmitterProofs --------------------------
(***************************************************************************)
(* What the event emitter keeps to for any subscribers, taps, kinds of      *)
(* events, max_dispatch_queue and number of faults: bounded queues, exact   *)
(* counters, taps before subscribers, nothing of a refused emission and all *)
(* of an accepted one, and, step by step, one serial delivery lane for each *)
(* subscriber.                                                              *)
(*                                                                          *)
(* The emitter's functions work on lists: they release the entries at the   *)
(* head of the dispatch queue one by one, and choose from the buffer.  The  *)
(* first part shows by induction what such folds give; then come one lemma  *)
(* for each function of the dispatcher, one for each step, and the          *)
(* theorems.                                                                *)
(***************************************************************************)
EXTENDS EventEmitter, Integers, FiniteSetTheorems, SequenceTheorems, TLAPS

(* What the dispatcher is made of.                                          *)
TapRecords == [status : Statuses, pending : Nat]
SubRecords == [status : Statuses, reserved : Nat, queue : Seq(EventSeqs),
               task : TaskStates, entry : EventSeqs]
States == [queue : Seq(EntryType), task : TaskStates, entry : EntryType, retry : BOOLEAN,
           sub : [Subs -> SubRecords], tap : [Taps -> TapRecords]]

(* Induction. *)
LEMMA Induct ==
  ASSUME NEW S, 0 \in S, \A k \in Nat : k \in S => k + 1 \in S
  PROVE  \A n \in Nat : n \in S
<1> SUFFICES ASSUME NEW n \in Nat, n \notin S PROVE FALSE
  OBVIOUS
<1> DEFINE A == {k \in 0..n : k \in S}
           B == {k + 1 : k \in A}
<1>1. IsFiniteSet(A) /\ Cardinality(A) \in Nat
  <2>1. IsFiniteSet(0..n)
    BY FS_Interval
  <2> QED BY <2>1, FS_Subset, FS_CardinalityType
<1>2. B \subseteq A \ {0}
  OBVIOUS
<1>3. 0 \in A
  OBVIOUS
<1>4. Cardinality(A \ {0}) = Cardinality(A) - 1 /\ IsFiniteSet(A \ {0})
  BY <1>1, <1>3, FS_RemoveElement
<1>5. IsFiniteSet(B) /\ Cardinality(B) <= Cardinality(A) - 1
  BY <1>2, <1>4, FS_Subset
<1>6. Cardinality(A) <= Cardinality(B)
  <2> DEFINE f == [b \in B |-> b - 1]
  <2>1. f \in Surjection(B, A)
    BY DEF Surjection
  <2> QED BY <1>1, <1>5, <2>1, FS_Surjection
<1>7. Cardinality(B) \in Nat
  BY <1>5, FS_CardinalityType
<1> QED BY <1>1, <1>5, <1>6, <1>7
(* The greatest of some numbers up to n. *)
LEMMA MaxOfSome ==
  ASSUME NEW n \in Nat, NEW t, t \subseteq 1..n, t # {}
  PROVE  Max(t) \in t /\ \A y \in t : y <= Max(t)
<1> DEFINE P == {k \in Nat : \A u : u \subseteq 1..k /\ u # {} => \E x \in u : \A y \in u : x >= y}
<1>1. 0 \in P
  OBVIOUS
<1>2. ASSUME NEW k \in Nat, k \in P PROVE k + 1 \in P
  <2> SUFFICES ASSUME NEW u, u \subseteq 1..(k + 1), u # {}
               PROVE  \E x \in u : \A y \in u : x >= y
    OBVIOUS
  <2>1. CASE k + 1 \in u
    BY <2>1
  <2>2. CASE k + 1 \notin u
    <3>1. u \subseteq 1..k
      BY <2>2
    <3> QED BY <1>2, <3>1
  <2> QED BY <2>1, <2>2
<1> HIDE DEF P
<1>3. n \in P
  BY <1>1, <1>2, Induct
<1>4. \E x \in t : \A y \in t : x >= y
  BY <1>3 DEF P
<1> QED BY <1>4 DEF Max

(* What FoldLeft chooses, of the elements up to k. *)
IsTable(it, k, F, b, s) ==
  \A t \in SUBSET (1..k) : it[t] = IF t = {} THEN b ELSE F[<<it[t \ {Max(t)}], s[Max(t)]>>]
HasTable(k, V, F, b, s) == \E it \in [SUBSET (1..k) -> V] : IsTable(it, k, F, b, s)

LEMMA TableGrows ==
  ASSUME NEW V, NEW X, NEW F \in [V \X X -> V], NEW b \in V, NEW s \in Seq(X),
         NEW k \in Nat, k + 1 <= Len(s), HasTable(k, V, F, b, s)
  PROVE  HasTable(k + 1, V, F, b, s)
<1>1. PICK it \in [SUBSET (1..k) -> V] : IsTable(it, k, F, b, s)
  BY DEF HasTable
<1> DEFINE ju == [t \in SUBSET (1..(k + 1)) |->
                    IF k + 1 \in t THEN F[<<it[t \ {k + 1}], s[k + 1]>>] ELSE it[t]]
<1>2. \A t \in SUBSET (1..(k + 1)) : k + 1 \in t => t \ {k + 1} \in SUBSET (1..k)
  OBVIOUS
<1>3. \A t \in SUBSET (1..(k + 1)) : k + 1 \notin t => t \in SUBSET (1..k)
  OBVIOUS
<1>4. s[k + 1] \in X
  OBVIOUS
<1>5. ju \in [SUBSET (1..(k + 1)) -> V]
  BY <1>1, <1>2, <1>3, <1>4
<1>6. ASSUME NEW t \in SUBSET (1..(k + 1)), k + 1 \in t
      PROVE  ju[t] = IF t = {} THEN b ELSE F[<<ju[t \ {Max(t)}], s[Max(t)]>>]
  <2>1. Max(t) = k + 1
    <3>1. k + 1 \in Nat /\ t \subseteq 1..(k + 1) /\ t # {}
      BY <1>6
    <3>2. Max(t) \in t /\ \A y \in t : y <= Max(t)
      BY <3>1, MaxOfSome
    <3>3. Max(t) \in 1..(k + 1) /\ k + 1 <= Max(t)
      BY <1>6, <3>2
    <3> QED BY <3>3
  <2>2. ju[t \ {k + 1}] = it[t \ {k + 1}] /\ ju[t] = F[<<it[t \ {k + 1}], s[k + 1]>>]
    BY <1>2, <1>6
  <2> HIDE DEF ju
  <2> QED BY <1>6, <2>1, <2>2
<1>7. ASSUME NEW t \in SUBSET (1..(k + 1)), k + 1 \notin t
      PROVE  ju[t] = IF t = {} THEN b ELSE F[<<ju[t \ {Max(t)}], s[Max(t)]>>]
  <2>1. ju[t] = it[t] /\ t \in SUBSET (1..k)
    BY <1>3, <1>7
  <2>2. t \ {Max(t)} \in SUBSET (1..k) /\ ju[t \ {Max(t)}] = it[t \ {Max(t)}]
    <3> DEFINE u == t \ {Max(t)}
    <3>1. u \in SUBSET (1..k)
      BY <2>1
    <3> HIDE DEF u
    <3>2. u \in SUBSET (1..(k + 1)) /\ k + 1 \notin u
      BY <3>1
    <3>3. ju[u] = it[u]
      BY <3>2
    <3> QED BY <3>1, <3>3 DEF u
  <2> HIDE DEF ju
  <2> QED BY <1>1, <2>1, <2>2 DEF IsTable
<1> HIDE DEF ju
<1>8. IsTable(ju, k + 1, F, b, s)
  BY <1>6, <1>7 DEF IsTable
<1> QED BY <1>5, <1>8 DEF HasTable

LEMMA TableExists ==
  ASSUME NEW V, NEW X, NEW F \in [V \X X -> V], NEW b \in V, NEW s \in Seq(X)
  PROVE  HasTable(Len(s), V, F, b, s)
<1> DEFINE P == {k \in Nat : k <= Len(s) => HasTable(k, V, F, b, s)}
<1>0. Len(s) \in Nat
  OBVIOUS
<1>1. 0 \in P
  <2> DEFINE it == [t \in SUBSET (1..0) |-> b]
  <2>1. it \in [SUBSET (1..0) -> V] /\ IsTable(it, 0, F, b, s)
    BY DEF IsTable
  <2> HIDE DEF it
  <2>2. HasTable(0, V, F, b, s)
    BY <2>1 DEF HasTable
  <2> QED BY <2>2
<1>2. ASSUME NEW k \in Nat, k \in P PROVE k + 1 \in P
  <2> SUFFICES ASSUME k + 1 <= Len(s) PROVE HasTable(k + 1, V, F, b, s)
    OBVIOUS
  <2>1. HasTable(k, V, F, b, s)
    BY <1>0, <1>2
  <2> QED BY <2>1, TableGrows
<1>3. \A k \in Nat : k \in P => k + 1 \in P
  BY <1>2
<1> HIDE DEF P
<1>4. \A k \in Nat : k \in P
  BY <1>1, <1>3, Induct
<1> QED BY <1>0, <1>4 DEF P

(* The prefixes of a sequence, as sets of positions.                        *)
LEMMA PrefixSets ==
  ASSUME NEW n \in Nat, NEW k \in 1..n
  PROVE  /\ 1..k \in SUBSET (1..n) /\ 1..k # {} /\ 1..(k - 1) \in SUBSET (1..n)
         /\ Max(1..k) = k /\ (1..k) \ {k} = 1..(k - 1)
<1>1. Max(1..k) \in 1..k /\ \A y \in 1..k : y <= Max(1..k)
  BY MaxOfSome
<1>2. Max(1..k) = k
  BY <1>1
<1> QED BY <1>2

(* What FoldLeft(ReleaseTo, ..), in PastTapless, computes: each entry is      *)
(* released in what the entries before it made.                             *)
LEMMA ReleasesInTurn ==
  ASSUME NEW b \in States, NEW s \in Seq(EntryType),
         \A st \in States, e \in EntryType : ReleaseTo(st, e) \in States
  PROVE  \E g : /\ g[0] = b
                /\ \A k \in 1..Len(s) : g[k] = ReleaseTo(g[k - 1], s[k])
                /\ FoldLeft(ReleaseTo, b, s) = g[Len(s)]
<1> DEFINE F == [p \in States \X EntryType |-> ReleaseTo(p[1], p[2])]
           D == DOMAIN s
           Eq(it) == it = [t \in SUBSET D |->
                             IF t = {} THEN b ELSE ReleaseTo(it[t \ {Max(t)}], s[Max(t)])]
           j == CHOOSE it : Eq(it)
<1>1. /\ F \in [States \X EntryType -> States]
      /\ \A st \in States, e \in EntryType : F[<<st, e>>] = ReleaseTo(st, e)
  OBVIOUS
<1> HIDE DEF F
<1>2. PICK it \in [SUBSET (1..Len(s)) -> States] : IsTable(it, Len(s), F, b, s)
  BY <1>1, TableExists DEF HasTable
<1>3. Len(s) \in Nat /\ D = 1..Len(s)
  OBVIOUS
<1>4. ASSUME NEW t \in SUBSET D
      PROVE  it[t] = IF t = {} THEN b ELSE ReleaseTo(it[t \ {Max(t)}], s[Max(t)])
  <2>1. CASE t # {}
    <3>1. Max(t) \in D /\ t \ {Max(t)} \in SUBSET (1..Len(s))
      BY <1>3, <2>1, MaxOfSome
    <3>2. it[t \ {Max(t)}] \in States /\ s[Max(t)] \in EntryType
      BY <1>2, <3>1
    <3> QED BY <1>1, <1>2, <1>3, <2>1, <3>2 DEF IsTable
  <2> QED BY <1>2, <1>3, <2>1 DEF IsTable
<1>5. Eq(it)
  BY <1>2, <1>3, <1>4
<1>6. Eq(j)
  BY <1>5
<1>7. FoldLeft(ReleaseTo, b, s) = j[D]
  BY DEF FoldLeft, MapThenFoldSet
<1> HIDE DEF j, D
<1> DEFINE g == [k \in 0..Len(s) |-> j[1..k]]
<1>8. g[0] = b
  BY <1>3, <1>6
<1>9. ASSUME NEW k \in 1..Len(s) PROVE g[k] = ReleaseTo(g[k - 1], s[k])
  <2>1. 1..k \in SUBSET D /\ 1..k # {} /\ Max(1..k) = k /\ (1..k) \ {k} = 1..(k - 1)
    BY <1>3, PrefixSets
  <2>2. j[1..k] = ReleaseTo(j[1..(k - 1)], s[k])
    BY <1>6, <2>1
  <2> QED BY <1>3, <2>2
<1>10. FoldLeft(ReleaseTo, b, s) = g[Len(s)]
  BY <1>3, <1>7
<1> QED BY <1>8, <1>9, <1>10

(* What an entry adds to the deliveries it holds back for s.                 *)
Held(e, s) == IF s \in e.subs THEN e.deliveries ELSE << >>
AddHeld(gated, e, s) == IF s \in e.subs THEN gated \o e.deliveries ELSE gated

(* GatedIn goes through the entries one by one.                             *)
LEMMA GatesInTurn ==
  ASSUME NEW s \in Seq(EntryType), NEW u \in Subs
  PROVE  \E g : /\ g[0] = << >>
                /\ \A k \in 1..Len(s) : g[k] = AddHeld(g[k - 1], s[k], u)
                /\ GatedIn(s, u) = g[Len(s)]
<1> DEFINE b == << >>
           V == Seq(EventSeqs)
<1>0. b \in V /\ \A v \in V, e \in EntryType : AddHeld(v, e, u) \in V
  BY DEF AddHeld, EntryType
<1> HIDE DEF V
<1> DEFINE F == [p \in V \X EntryType |-> AddHeld(p[1], p[2], u)]
           D == DOMAIN s
           Eq(it) == it = [t \in SUBSET D |->
                             IF t = {} THEN b ELSE AddHeld(it[t \ {Max(t)}], s[Max(t)], u)]
           j == CHOOSE it : Eq(it)
<1>1. /\ F \in [V \X EntryType -> V]
      /\ \A st \in V, e \in EntryType : F[<<st, e>>] = AddHeld(st, e, u)
  BY <1>0
<1> HIDE DEF F
<1>2. PICK it \in [SUBSET (1..Len(s)) -> V] : IsTable(it, Len(s), F, b, s)
  BY <1>0, <1>1, TableExists DEF HasTable
<1>3. Len(s) \in Nat /\ D = 1..Len(s)
  OBVIOUS
<1>4. ASSUME NEW t \in SUBSET D
      PROVE  it[t] = IF t = {} THEN b ELSE AddHeld(it[t \ {Max(t)}], s[Max(t)], u)
  <2>1. CASE t # {}
    <3>1. Max(t) \in D /\ t \ {Max(t)} \in SUBSET (1..Len(s))
      BY <1>3, <2>1, MaxOfSome
    <3>2. it[t \ {Max(t)}] \in V /\ s[Max(t)] \in EntryType
      BY <1>2, <3>1
    <3> QED BY <1>1, <1>2, <1>3, <2>1, <3>2 DEF IsTable
  <2> QED BY <1>2, <1>3, <2>1 DEF IsTable
<1>5. Eq(it)
  BY <1>2, <1>3, <1>4
<1>6. Eq(j)
  BY <1>5
<1>7. GatedIn(s, u) = j[D]
  BY DEF FoldLeft, MapThenFoldSet, GatedIn, AddHeld
<1> HIDE DEF j, D
<1> DEFINE g == [k \in 0..Len(s) |-> j[1..k]]
<1>8. g[0] = b
  BY <1>3, <1>6
<1>9. ASSUME NEW k \in 1..Len(s) PROVE g[k] = AddHeld(g[k - 1], s[k], u)
  <2>1. 1..k \in SUBSET D /\ 1..k # {} /\ Max(1..k) = k /\ (1..k) \ {k} = 1..(k - 1)
    BY <1>3, PrefixSets
  <2>2. j[1..k] = AddHeld(j[1..(k - 1)], s[k], u)
    BY <1>6, <2>1
  <2> QED BY <1>3, <2>2
<1>10. GatedIn(s, u) = g[Len(s)]
  BY <1>3, <1>7
<1> QED BY <1>8, <1>9, <1>10

(* ChatsThat goes through the buffered chat updates one by one.             *)
AddChosen(chosen, n, verdict) == IF Verdict(n) = verdict THEN Append(chosen, n) ELSE chosen

LEMMA ChoosesInTurn ==
  ASSUME NEW v, buffered.chats \in EventSeqs
  PROVE  \E g : /\ g[0] = << >>
                /\ \A k \in 1..Len(buffered.chats) : g[k] = AddChosen(g[k - 1], buffered.chats[k], v)
                /\ ChatsThat(v) = g[Len(buffered.chats)]
<1> DEFINE b == << >>
           s == buffered.chats
<1>0. b \in EventSeqs /\ s \in Seq(Events) /\ \A c \in EventSeqs, n \in Events : AddChosen(c, n, v) \in EventSeqs
  BY DEF AddChosen, EventSeqs
<1> HIDE DEF s
<1> DEFINE F == [p \in EventSeqs \X Events |-> AddChosen(p[1], p[2], v)]
           D == DOMAIN s
           Eq(it) == it = [t \in SUBSET D |->
                             IF t = {} THEN b ELSE AddChosen(it[t \ {Max(t)}], s[Max(t)], v)]
           j == CHOOSE it : Eq(it)
<1>1. /\ F \in [EventSeqs \X Events -> EventSeqs]
      /\ \A st \in EventSeqs, e \in Events : F[<<st, e>>] = AddChosen(st, e, v)
  BY <1>0
<1> HIDE DEF F
<1>2. PICK it \in [SUBSET (1..Len(s)) -> EventSeqs] : IsTable(it, Len(s), F, b, s)
  BY <1>0, <1>1, TableExists DEF HasTable
<1>3. Len(s) \in Nat /\ D = 1..Len(s)
  BY <1>0
<1>4. ASSUME NEW t \in SUBSET D
      PROVE  it[t] = IF t = {} THEN b ELSE AddChosen(it[t \ {Max(t)}], s[Max(t)], v)
  <2>1. CASE t # {}
    <3>1. Max(t) \in D /\ t \ {Max(t)} \in SUBSET (1..Len(s))
      BY <1>3, <2>1, MaxOfSome
    <3>2. it[t \ {Max(t)}] \in EventSeqs /\ s[Max(t)] \in Events
      BY <1>0, <1>2, <1>3, <3>1
    <3> QED BY <1>1, <1>2, <1>3, <2>1, <3>2 DEF IsTable
  <2> QED BY <1>2, <1>3, <2>1 DEF IsTable
<1>5. Eq(it)
  BY <1>2, <1>3, <1>4
<1>6. Eq(j)
  BY <1>5
<1>7. ChatsThat(v) = j[D]
  BY DEF FoldLeft, MapThenFoldSet, ChatsThat, AddChosen, s
<1> HIDE DEF j, D
<1> DEFINE g == [k \in 0..Len(s) |-> j[1..k]]
<1>8. g[0] = b
  BY <1>3, <1>6
<1>9. ASSUME NEW k \in 1..Len(s) PROVE g[k] = AddChosen(g[k - 1], s[k], v)
  <2>1. 1..k \in SUBSET D /\ 1..k # {} /\ Max(1..k) = k /\ (1..k) \ {k} = 1..(k - 1)
    BY <1>3, PrefixSets
  <2>2. j[1..k] = AddChosen(j[1..(k - 1)], s[k], v)
    BY <1>6, <2>1
  <2> QED BY <1>3, <2>2
<1>10. ChatsThat(v) = g[Len(s)]
  BY <1>3, <1>7
<1> QED BY <1>8, <1>9, <1>10 DEF s

(* The elements of sequences.                                               *)
LEMMA ToSetAppend ==
  ASSUME NEW S, NEW s \in Seq(S), NEW e \in S
  PROVE  ToSet(Append(s, e)) = ToSet(s) \union {e}
<1> USE DEF ToSet
<1>1. /\ Len(s) \in Nat /\ DOMAIN s = 1..Len(s) /\ DOMAIN Append(s, e) = 1..(Len(s) + 1)
      /\ Append(s, e)[Len(s) + 1] = e
      /\ \A i \in 1..Len(s) : Append(s, e)[i] = s[i]
  OBVIOUS
<1>2. ASSUME NEW x \in ToSet(s) PROVE x \in ToSet(Append(s, e))
  BY <1>1
<1>3. ASSUME NEW x \in ToSet(Append(s, e)) PROVE x \in ToSet(s) \union {e}
  BY <1>1
<1>4. e \in ToSet(Append(s, e))
  BY <1>1
<1> QED BY <1>2, <1>3, <1>4

LEMMA ToSetConcat ==
  ASSUME NEW S, NEW s \in Seq(S), NEW t \in Seq(S)
  PROVE  ToSet(s \o t) = ToSet(s) \union ToSet(t)
<1> DEFINE u == s \o t
<1>1. /\ Len(s) \in Nat /\ DOMAIN s = 1..Len(s) /\ Len(t) \in Nat /\ DOMAIN t = 1..Len(t)
      /\ DOMAIN u = 1..(Len(s) + Len(t))
      /\ \A i \in 1..Len(s) : u[i] = s[i]
      /\ \A i \in 1..Len(t) : u[i + Len(s)] = t[i]
  OBVIOUS
<1> HIDE DEF u
<1>2. ASSUME NEW x \in ToSet(s) PROVE x \in ToSet(u)
  <2>1. PICK i \in 1..Len(s) : x = s[i]
    BY <1>1 DEF ToSet
  <2>2. i \in DOMAIN u /\ x = u[i]
    BY <1>1, <2>1
  <2> QED BY <2>2 DEF ToSet
<1>3. ASSUME NEW x \in ToSet(t) PROVE x \in ToSet(u)
  <2>1. PICK i \in 1..Len(t) : x = t[i]
    BY <1>1 DEF ToSet
  <2>2. i + Len(s) \in DOMAIN u /\ x = u[i + Len(s)]
    BY <1>1, <2>1
  <2> QED BY <2>2 DEF ToSet
<1>4. ASSUME NEW x \in ToSet(u) PROVE x \in ToSet(s) \union ToSet(t)
  <2>1. PICK i \in 1..(Len(s) + Len(t)) : x = u[i]
    BY <1>1 DEF ToSet
  <2>2. CASE i <= Len(s)
    <3>1. i \in DOMAIN s /\ x = s[i]
      BY <1>1, <2>1, <2>2
    <3> QED BY <3>1 DEF ToSet
  <2>3. CASE i > Len(s)
    <3>1. i - Len(s) \in 1..Len(t) /\ (i - Len(s)) + Len(s) = i
      BY <1>1, <2>3
    <3>2. i - Len(s) \in DOMAIN t /\ x = t[i - Len(s)]
      BY <1>1, <2>1, <3>1
    <3> QED BY <3>2 DEF ToSet
  <2> QED BY <1>1, <2>1, <2>2, <2>3
<1> QED BY <1>2, <1>3, <1>4 DEF u

LEMMA ToSetSimple ==
  ASSUME NEW S, NEW s \in Seq(S)
  PROVE  /\ ToSet(s) \subseteq S /\ ToSet(<< >>) = {}
         /\ \A e : ToSet(<<e>>) = {e}
  BY DEF ToSet

LEMMA ToSetTail ==
  ASSUME NEW S, NEW s \in Seq(S), s # << >>
  PROVE  /\ Head(s) \in ToSet(s) /\ ToSet(s) = {Head(s)} \union ToSet(Tail(s))
         /\ Head(s) \in S /\ Tail(s) \in Seq(S)
<1>1. /\ Len(s) \in Nat \ {0} /\ DOMAIN s = 1..Len(s) /\ Head(s) = s[1]
      /\ DOMAIN Tail(s) = 1..(Len(s) - 1) /\ \A i \in 1..(Len(s) - 1) : Tail(s)[i] = s[i + 1]
      /\ Head(s) \in S /\ Tail(s) \in Seq(S)
  OBVIOUS
<1>2. ASSUME NEW x \in ToSet(Tail(s)) PROVE x \in ToSet(s)
  BY <1>1 DEF ToSet
<1>3. ASSUME NEW x \in ToSet(s) PROVE x \in {Head(s)} \union ToSet(Tail(s))
  <2>1. PICK i \in 1..Len(s) : x = s[i]
    BY <1>1 DEF ToSet
  <2>2. CASE i > 1
    <3>1. i - 1 \in 1..(Len(s) - 1) /\ (i - 1) + 1 = i
      BY <1>1, <2>2
    <3> QED BY <1>1, <2>1, <3>1 DEF ToSet
  <2> QED BY <1>1, <2>1, <2>2
<1>4. Head(s) \in ToSet(s)
  BY <1>1 DEF ToSet
<1> QED BY <1>1, <1>2, <1>3, <1>4

(* Entries hold back what each of them holds back, in their order.          *)
LEMMA GatedTypes ==
  ASSUME NEW q \in Seq(EntryType), NEW u \in Subs
  PROVE  /\ GatedIn(q, u) \in Seq(EventSeqs)
         /\ \A e \in EntryType : Held(e, u) \in Seq(EventSeqs)
<1>0. \A e \in EntryType : e.deliveries \in Seq(EventSeqs)
  BY DEF EntryType
<1>1. PICK g : /\ g[0] = << >>
               /\ \A k \in 1..Len(q) : g[k] = AddHeld(g[k - 1], q[k], u)
               /\ GatedIn(q, u) = g[Len(q)]
  BY GatesInTurn
<1> DEFINE P == {k \in Nat : k <= Len(q) => g[k] \in Seq(EventSeqs)}
<1>2. 0 \in P
  <2>1. << >> \in Seq(EventSeqs)
    OBVIOUS
  <2>2. g[0] \in Seq(EventSeqs)
    BY <1>1, <2>1
  <2> QED BY <2>2
<1>3. ASSUME NEW k \in Nat, k \in P PROVE k + 1 \in P
  <2> SUFFICES ASSUME k + 1 <= Len(q) PROVE g[k + 1] \in Seq(EventSeqs)
    OBVIOUS
  <2>1. Len(q) \in Nat /\ k + 1 \in 1..Len(q) /\ q[k + 1] \in EntryType /\ g[k] \in Seq(EventSeqs)
    BY <1>3
  <2>2. g[k + 1] = AddHeld(g[k], q[k + 1], u)
    BY <1>1, <2>1
  <2> QED BY <1>0, <2>1, <2>2 DEF AddHeld
<1> HIDE DEF P
<1>4. Len(q) \in Nat /\ Len(q) \in P
  <2>1. Len(q) \in Nat
    OBVIOUS
  <2> QED BY <1>2, <1>3, <2>1, Induct
<1> QED BY <1>0, <1>1, <1>4 DEF P, Held

LEMMA GatedEmpty == ASSUME NEW u \in Subs PROVE GatedIn(<< >>, u) = << >>
<1>1. << >> \in Seq(EntryType) /\ Len(<< >>) = 0
  OBVIOUS
<1> QED BY <1>1, GatesInTurn

(* One more entry, at the end and at the beginning.                         *)
LEMMA GatedAppend ==
  ASSUME NEW q \in Seq(EntryType), NEW e \in EntryType, NEW u \in Subs
  PROVE  GatedIn(Append(q, e), u) = GatedIn(q, u) \o Held(e, u)
<1> DEFINE r == Append(q, e)
<1>0. /\ r \in Seq(EntryType) /\ Len(q) \in Nat /\ Len(r) = Len(q) + 1 /\ r[Len(q) + 1] = e
      /\ \A k \in 1..Len(q) : r[k] = q[k]
  OBVIOUS
<1> HIDE DEF r
<1>1. PICK g : /\ g[0] = << >>
               /\ \A k \in 1..Len(r) : g[k] = AddHeld(g[k - 1], r[k], u)
               /\ GatedIn(r, u) = g[Len(r)]
  BY <1>0, GatesInTurn
<1>2. PICK h : /\ h[0] = << >>
               /\ \A k \in 1..Len(q) : h[k] = AddHeld(h[k - 1], q[k], u)
               /\ GatedIn(q, u) = h[Len(q)]
  BY GatesInTurn
<1> DEFINE P == {k \in Nat : k <= Len(q) => g[k] = h[k]}
<1>3. 0 \in P
  BY <1>1, <1>2
<1>4. ASSUME NEW k \in Nat, k \in P PROVE k + 1 \in P
  <2> SUFFICES ASSUME k + 1 <= Len(q) PROVE g[k + 1] = h[k + 1]
    OBVIOUS
  <2>1. k + 1 \in 1..Len(q) /\ k + 1 \in 1..Len(r) /\ (k + 1) - 1 = k /\ g[k] = h[k]
    BY <1>0, <1>4
  <2>2. g[k + 1] = AddHeld(g[k], r[k + 1], u) /\ h[k + 1] = AddHeld(h[k], q[k + 1], u)
    BY <1>1, <1>2, <2>1
  <2> QED BY <1>0, <2>1, <2>2
<1> HIDE DEF P
<1>5. g[Len(q)] = h[Len(q)]
  <2>1. \A k \in Nat : k \in P
    BY <1>3, <1>4, Induct
  <2> QED BY <1>0, <2>1 DEF P
<1>6. GatedIn(r, u) = AddHeld(GatedIn(q, u), e, u)
  <2>1. Len(r) \in 1..Len(r) /\ Len(r) - 1 = Len(q) /\ r[Len(r)] = e
    BY <1>0
  <2> QED BY <1>1, <1>2, <1>5, <2>1
<1>7. GatedIn(q, u) \in Seq(EventSeqs)
  BY GatedTypes
<1> QED BY <1>6, <1>7 DEF AddHeld, Held, r

LEMMA GatedCons ==
  ASSUME NEW q \in Seq(EntryType), NEW e \in EntryType, NEW u \in Subs
  PROVE  GatedIn(<<e>> \o q, u) = Held(e, u) \o GatedIn(q, u)
<1> DEFINE r == <<e>> \o q
           f == Held(e, u)
<1>0. /\ r \in Seq(EntryType) /\ Len(q) \in Nat /\ Len(r) = Len(q) + 1 /\ r[1] = e
      /\ \A k \in 1..Len(q) : r[k + 1] = q[k]
  OBVIOUS
<1> HIDE DEF r
<1>1. PICK g : /\ g[0] = << >>
               /\ \A k \in 1..Len(r) : g[k] = AddHeld(g[k - 1], r[k], u)
               /\ GatedIn(r, u) = g[Len(r)]
  BY <1>0, GatesInTurn
<1>2. PICK h : /\ h[0] = << >>
               /\ \A k \in 1..Len(q) : h[k] = AddHeld(h[k - 1], q[k], u)
               /\ GatedIn(q, u) = h[Len(q)]
  BY GatesInTurn
<1>3. \A x \in EntryType : Held(x, u) \in Seq(EventSeqs) /\ x.deliveries \in Seq(EventSeqs)
  BY GatedTypes DEF EntryType
<1>4. f \in Seq(EventSeqs)
  BY <1>3
<1> DEFINE P == {k \in Nat : k <= Len(q) => g[k + 1] = f \o h[k] /\ h[k] \in Seq(EventSeqs)}
<1>5. 0 \in P
  <2>1. 1 \in 1..Len(r) /\ 1 - 1 = 0
    BY <1>0
  <2>2. g[1] = AddHeld(<< >>, e, u)
    BY <1>0, <1>1, <2>1
  <2>3. g[1] = f
    BY <1>3, <2>2 DEF AddHeld, Held
  <2>4. f = f \o << >> /\ << >> \in Seq(EventSeqs)
    BY <1>4
  <2>5. g[0 + 1] = f \o h[0] /\ h[0] \in Seq(EventSeqs)
    BY <1>2, <2>3, <2>4
  <2> HIDE DEF f
  <2> QED BY <2>5
<1>6. ASSUME NEW k \in Nat, k \in P PROVE k + 1 \in P
  <2> SUFFICES ASSUME k + 1 <= Len(q)
               PROVE  g[(k + 1) + 1] = f \o h[k + 1] /\ h[k + 1] \in Seq(EventSeqs)
    OBVIOUS
  <2>1. /\ k + 1 \in 1..Len(q) /\ (k + 1) + 1 \in 1..Len(r) /\ (k + 1) - 1 = k
        /\ ((k + 1) + 1) - 1 = k + 1 /\ g[k + 1] = f \o h[k] /\ h[k] \in Seq(EventSeqs)
    <3> HIDE DEF f
    <3> QED BY <1>0, <1>6
  <2>2. /\ g[(k + 1) + 1] = AddHeld(f \o h[k], q[k + 1], u)
        /\ h[k + 1] = AddHeld(h[k], q[k + 1], u)
    BY <1>0, <1>1, <1>2, <2>1
  <2>3. q[k + 1] \in EntryType
    BY <2>1
  <2> HIDE DEF f
  <2>4. q[k + 1].deliveries \in Seq(EventSeqs)
    BY <1>3, <2>3
  <2> DEFINE y == q[k + 1].deliveries
             z == h[k]
  <2>5. (f \o z) \o y = f \o (z \o y) /\ z \o y \in Seq(EventSeqs)
    <3>1. y \in Seq(EventSeqs) /\ z \in Seq(EventSeqs)
      BY <2>1, <2>4
    <3> HIDE DEF y, z
    <3>2. z \o y \in Seq(EventSeqs)
      BY <3>1
    <3>3. (f \o z) \o y = f \o (z \o y)
      BY <1>4, <3>1
    <3> QED BY <3>2, <3>3
  <2>6. CASE u \in q[k + 1].subs
    BY <2>1, <2>2, <2>5, <2>6 DEF AddHeld
  <2>7. CASE u \notin q[k + 1].subs
    BY <2>1, <2>2, <2>7 DEF AddHeld
  <2> QED BY <2>6, <2>7
<1> HIDE DEF P, f
<1>7. g[Len(q) + 1] = f \o h[Len(q)]
  <2>1. \A k \in Nat : k \in P
    BY <1>5, <1>6, Induct
  <2> QED BY <1>0, <2>1 DEF P
<1> QED BY <1>0, <1>1, <1>2, <1>7 DEF r, f

(* What is chosen of the chat updates: those, in number no more than all.    *)
LEMMA Chosen ==
  ASSUME NEW v, buffered.chats \in EventSeqs
  PROVE  /\ ChatsThat(v) \in EventSeqs
         /\ Len(ChatsThat(v)) <= Len(buffered.chats)
         /\ ToSet(ChatsThat(v)) = {n \in ToSet(buffered.chats) : Verdict(n) = v}
<1> DEFINE c == buffered.chats
<1>0. c \in Seq(Events) /\ Len(c) \in Nat /\ EventSeqs = Seq(Events)
  BY DEF EventSeqs
<1>1. PICK g : /\ g[0] = << >>
               /\ \A k \in 1..Len(c) : g[k] = AddChosen(g[k - 1], c[k], v)
               /\ ChatsThat(v) = g[Len(c)]
  BY ChoosesInTurn
<1> HIDE DEF c
<1> DEFINE P == {k \in Nat : k <= Len(c) =>
                   /\ g[k] \in Seq(Events) /\ Len(g[k]) <= k
                   /\ \A n : n \in ToSet(g[k]) <=> \E i \in 1..k : c[i] = n /\ Verdict(n) = v}
<1>2. 0 \in P
  <2>1. << >> \in Seq(Events) /\ Len(<< >>) = 0 /\ ToSet(<< >>) = {}
    BY DEF ToSet
  <2>2. g[0] \in Seq(Events) /\ Len(g[0]) <= 0 /\ ToSet(g[0]) = {}
    BY <1>1, <2>1
  <2> QED BY <2>2
<1>3. ASSUME NEW k \in Nat, k \in P PROVE k + 1 \in P
  <2> SUFFICES ASSUME k + 1 <= Len(c)
               PROVE  /\ g[k + 1] \in Seq(Events) /\ Len(g[k + 1]) <= k + 1
                      /\ \A n : n \in ToSet(g[k + 1]) <=>
                            \E i \in 1..(k + 1) : c[i] = n /\ Verdict(n) = v
    OBVIOUS
  <2>1. /\ k + 1 \in 1..Len(c) /\ (k + 1) - 1 = k /\ c[k + 1] \in Events
        /\ g[k] \in Seq(Events) /\ Len(g[k]) \in Nat /\ Len(g[k]) <= k
        /\ \A n : n \in ToSet(g[k]) <=> \E i \in 1..k : c[i] = n /\ Verdict(n) = v
    BY <1>0, <1>3
  <2>2. g[k + 1] = AddChosen(g[k], c[k + 1], v)
    BY <1>1, <2>1
  <2>3. \A n : (\E i \in 1..(k + 1) : c[i] = n /\ Verdict(n) = v) <=>
                  (\E i \in 1..k : c[i] = n /\ Verdict(n) = v) \/ (c[k + 1] = n /\ Verdict(n) = v)
    <3>1. 1..(k + 1) = 1..k \union {k + 1}
      OBVIOUS
    <3> QED BY <3>1
  <2>4. CASE Verdict(c[k + 1]) = v
    <3>1. g[k + 1] = Append(g[k], c[k + 1])
      BY <2>2, <2>4 DEF AddChosen
    <3>2. /\ g[k + 1] \in Seq(Events) /\ Len(g[k + 1]) = Len(g[k]) + 1
          /\ \A n : n \in ToSet(g[k + 1]) <=> n \in ToSet(g[k]) \/ n = c[k + 1]
      <4>1. Append(g[k], c[k + 1]) \in Seq(Events) /\ Len(Append(g[k], c[k + 1])) = Len(g[k]) + 1
        BY <2>1
      <4>2. ToSet(Append(g[k], c[k + 1])) = ToSet(g[k]) \union {c[k + 1]}
        BY <2>1, ToSetAppend
      <4> QED BY <3>1, <4>1, <4>2
    <3> QED BY <2>1, <2>3, <2>4, <3>2
  <2>5. CASE Verdict(c[k + 1]) # v
    <3>1. g[k + 1] = g[k]
      BY <2>2, <2>5 DEF AddChosen
    <3> QED BY <2>1, <2>3, <2>5, <3>1
  <2> QED BY <2>4, <2>5
<1> HIDE DEF P
<1>4. \A k \in Nat : k \in P
  BY <1>2, <1>3, Induct
<1>5. /\ g[Len(c)] \in Seq(Events) /\ Len(g[Len(c)]) <= Len(c)
      /\ \A n : n \in ToSet(g[Len(c)]) <=> \E i \in 1..Len(c) : c[i] = n /\ Verdict(n) = v
  <2>1. Len(c) \in P
    BY <1>0, <1>4
  <2> QED BY <1>0, <2>1 DEF P
<1>6. \A n : n \in ToSet(c) <=> \E i \in 1..Len(c) : c[i] = n
  BY <1>0 DEF ToSet
<1> QED BY <1>0, <1>1, <1>5, <1>6 DEF c

(* A subscriber's record after the release of an entry, and a tap's after    *)
(* it has been called.                                                      *)
GivenBy(r, s, e) == IF s \in e.subs /\ Registered(r) THEN Given(r, e.deliveries) ELSE r
CalledOnce(r, t, refs) == IF t \in refs THEN ReleaseTap(r) ELSE r

LEMMA RecordTypes ==
  ASSUME NEW e \in EntryType
  PROVE  /\ e.taps \in SUBSET Taps /\ e.subs \in SUBSET Subs
         /\ e.deliveries \in Seq(EventSeqs) /\ e.tapDeliveries \in Seq(EventSeqs)
         /\ Len(e.deliveries) \in Nat /\ Len(e.tapDeliveries) \in Nat
<1>1. /\ e.taps \in SUBSET Taps /\ e.subs \in SUBSET Subs
      /\ e.deliveries \in Seq(EventSeqs) /\ e.tapDeliveries \in Seq(EventSeqs)
  BY DEF EntryType
<1> DEFINE x == e.deliveries
           y == e.tapDeliveries
<1> HIDE DEF x, y
<1>2. x \in Seq(EventSeqs) /\ y \in Seq(EventSeqs)
  BY <1>1 DEF x, y
<1>3. Len(x) \in Nat /\ Len(y) \in Nat
  BY <1>2
<1> QED BY <1>1, <1>3 DEF x, y

LEMMA GivenType ==
  ASSUME NEW r \in SubRecords, NEW x \in Seq(EventSeqs)
  PROVE  /\ Given(r, x) \in SubRecords
         /\ Given(r, x).status = r.status /\ Given(r, x).task = r.task
         /\ Given(r, x).entry = r.entry /\ Given(r, x).queue = r.queue \o x
         /\ Given(r, x).reserved = IF r.reserved >= Len(x) THEN r.reserved - Len(x) ELSE 0
<1>1. r.reserved \in Nat /\ r.queue \in Seq(EventSeqs) /\ Len(x) \in Nat
  BY DEF SubRecords
<1> DEFINE n == IF r.reserved >= Len(x) THEN r.reserved - Len(x) ELSE 0
           y == r.queue
           q == y \o x
<1>2. n \in Nat
  BY <1>1
<1>3. q \in Seq(EventSeqs)
  <2>1. y \in Seq(EventSeqs)
    BY <1>1
  <2> HIDE DEF y
  <2> QED BY <2>1
<1>4. Given(r, x) = [r EXCEPT !.reserved = n, !.queue = q]
  BY DEF Given, SubRecords
<1> HIDE DEF n, q
<1>5. [r EXCEPT !.reserved = n, !.queue = q] \in SubRecords
  BY <1>2, <1>3 DEF SubRecords
<1>6. /\ Given(r, x).status = r.status /\ Given(r, x).task = r.task
      /\ Given(r, x).entry = r.entry /\ Given(r, x).queue = q
      /\ Given(r, x).reserved = n
  BY <1>4 DEF SubRecords
<1> QED BY <1>4, <1>5, <1>6 DEF n, q

LEMMA ReleasedType ==
  ASSUME NEW st \in States, NEW e \in EntryType
  PROVE  /\ ReleaseTo(st, e) \in States
         /\ ReleaseTo(st, e).queue = st.queue /\ ReleaseTo(st, e).task = st.task
         /\ ReleaseTo(st, e).entry = st.entry /\ ReleaseTo(st, e).retry = st.retry
         /\ ReleaseTo(st, e).tap = st.tap
         /\ \A s \in Subs : ReleaseTo(st, e).sub[s] = GivenBy(st.sub[s], s, e)
<1> DEFINE f == [s \in Subs |-> GivenBy(st.sub[s], s, e)]
<1>1. ReleaseTo(st, e) = [st EXCEPT !.sub = f]
  BY DEF ReleaseTo, GivenBy
<1>2. f \in [Subs -> SubRecords]
  <2>1. \A s \in Subs : st.sub[s] \in SubRecords
    BY DEF States
  <2>2. e.deliveries \in Seq(EventSeqs)
    BY RecordTypes
  <2> QED BY <2>1, <2>2, GivenType DEF GivenBy
<1>3. \A s \in Subs : f[s] = GivenBy(st.sub[s], s, e)
  OBVIOUS
<1> HIDE DEF f
<1>4. [st EXCEPT !.sub = f] \in States
  BY <1>2 DEF States
<1> QED BY <1>1, <1>3, <1>4 DEF States

LEMMA ReleaseTapType ==
  ASSUME NEW r \in TapRecords
  PROVE  /\ ReleaseTap(r) \in TapRecords
         /\ ReleaseTap(r).pending = IF r.pending > 0 THEN r.pending - 1 ELSE 0
         /\ ReleaseTap(r).status = IF r.status = "leaving" /\ ReleaseTap(r).pending = 0
                                   THEN "gone" ELSE r.status
<1> DEFINE n == IF r.pending > 0 THEN r.pending - 1 ELSE 0
           u == [r EXCEPT !.pending = n]
<1>1. n \in Nat /\ ReleaseTap(r) = RemoveTapIfDone(u)
  BY DEF TapRecords, ReleaseTap
<1> HIDE DEF n
<1>2. u \in TapRecords /\ u.pending = n /\ u.status = r.status
  BY <1>1 DEF TapRecords
<1> HIDE DEF u
<1>3. [u EXCEPT !.status = "gone"] \in TapRecords
  BY <1>2 DEF TapRecords, Statuses
<1>4. [u EXCEPT !.status = "gone"].pending = n /\ [u EXCEPT !.status = "gone"].status = "gone"
  BY <1>2 DEF TapRecords
<1> QED BY <1>1, <1>2, <1>3, <1>4 DEF RemoveTapIfDone, n

LEMMA CalledType ==
  ASSUME NEW st \in States, NEW refs \in SUBSET Taps
  PROVE  /\ ReleaseTaps(st, refs) \in States
         /\ ReleaseTaps(st, refs).queue = st.queue /\ ReleaseTaps(st, refs).task = st.task
         /\ ReleaseTaps(st, refs).entry = st.entry /\ ReleaseTaps(st, refs).retry = st.retry
         /\ ReleaseTaps(st, refs).sub = st.sub
         /\ \A t \in Taps : ReleaseTaps(st, refs).tap[t] = CalledOnce(st.tap[t], t, refs)
<1> DEFINE f == [t \in Taps |-> CalledOnce(st.tap[t], t, refs)]
<1>1. ReleaseTaps(st, refs) = [st EXCEPT !.tap = f]
  BY DEF ReleaseTaps, CalledOnce
<1>2. f \in [Taps -> TapRecords]
  <2>1. \A t \in Taps : st.tap[t] \in TapRecords
    BY DEF States
  <2>2. \A r \in TapRecords, t \in Taps : CalledOnce(r, t, refs) \in TapRecords
    BY ReleaseTapType DEF CalledOnce
  <2> QED BY <2>1, <2>2
<1>3. \A t \in Taps : f[t] = CalledOnce(st.tap[t], t, refs)
  OBVIOUS
<1> HIDE DEF f
<1>4. [st EXCEPT !.tap = f] \in States
  BY <1>2 DEF States
<1> QED BY <1>1, <1>3, <1>4 DEF States

(* The entries without taps at the head of a queue end somewhere.           *)
LEMMA TaplessIs ==
  ASSUME NEW st \in States
  PROVE  /\ Tapless(st) \in 0..Len(st.queue)
         /\ \A i \in 1..Tapless(st) : st.queue[i].taps = {}
         /\ Tapless(st) < Len(st.queue) => st.queue[Tapless(st) + 1].taps # {}
<1> DEFINE q == st.queue
           Ok(n) == /\ \A i \in 1..n : q[i].taps = {}
                    /\ n < Len(q) => q[n + 1].taps # {}
<1>1. Len(q) \in Nat
  <2>1. q \in Seq(EntryType)
    BY DEF States
  <2> HIDE DEF q
  <2> QED BY <2>1
<1> HIDE DEF q
<1>2. \E n \in 0..Len(q) : Ok(n)
  <2> SUFFICES ASSUME \A n \in 0..Len(q) : ~Ok(n) PROVE FALSE
    OBVIOUS
  <2> DEFINE P == {k \in Nat : k <= Len(q) => \A i \in 1..k : q[i].taps = {}}
  <2>1. 0 \in P
    OBVIOUS
  <2>2. ASSUME NEW k \in Nat, k \in P PROVE k + 1 \in P
    <3> SUFFICES ASSUME k + 1 <= Len(q) PROVE \A i \in 1..(k + 1) : q[i].taps = {}
      OBVIOUS
    <3>1. k \in 0..Len(q) /\ k < Len(q) /\ \A i \in 1..k : q[i].taps = {}
      BY <1>1, <2>2
    <3>2. q[k + 1].taps = {}
      BY <3>1
    <3>3. \A i \in 1..(k + 1) : i \in 1..k \/ i = k + 1
      OBVIOUS
    <3> QED BY <3>1, <3>2, <3>3
  <2> HIDE DEF P
  <2>3. Len(q) \in P
    BY <1>1, <2>1, <2>2, Induct
  <2>4. Ok(Len(q)) /\ Len(q) \in 0..Len(q)
    BY <1>1, <2>3 DEF P
  <2> QED BY <2>4
<1>3. Tapless(st) = CHOOSE n \in 0..Len(q) : Ok(n)
  BY DEF Tapless, q
<1> HIDE DEF Ok
<1>4. Tapless(st) \in 0..Len(q) /\ Ok(Tapless(st))
  BY <1>2, <1>3
<1> QED BY <1>4 DEF Ok, q

(* The events in some deliveries; what was accepted; what all taps that were *)
(* registered at its emission have seen, or will have when the first k of    *)
(* some entries are through.                                                *)
Carried(deliveries) == UNION {ToSet(x) : x \in ToSet(deliveries)}
Known(lg, n) == n \in 1..Len(lg) /\ lg[n].ok
Reached(lg, sn, n) == \A t \in lg[n].taps : n \in sn[t]
ReachedBy(entries, k, lg, sn, n) ==
    \A t \in lg[n].taps :
        n \in sn[t] \/ \E j \in 1..k : t \in entries[j].taps /\ n \in Carried(entries[j].tapDeliveries)

(* A subscriber's record, with the entries that hold deliveries back.       *)
SubscriberSound(r, s, entries) ==
    /\ Registered(r) => r.reserved = Len(GatedIn(entries, s))
    /\ ~Registered(r) => r.reserved = 0 /\ r.queue = << >> /\ r.task = "none"
    /\ r.task = "none" => r.entry = << >>
    /\ r.status = "new" => \A i \in DOMAIN entries : s \notin entries[i].subs
    /\ r.status = "leaving" => SubscriberSize(r) > 0
    /\ SubscriberSize(r) <= MaxQueue

(* A tap's, with the entries that are for it.                               *)
ForTap(entries, t) == {i \in DOMAIN entries : t \in entries[i].taps}
TapSound(r, t, entries) ==
    /\ r.pending = Cardinality(ForTap(entries, t))
    /\ r.status = "leaving" => r.pending > 0
    /\ r.status = "gone" => r.pending = 0

(* Every event that was accepted has reached the taps registered then, or    *)
(* is on its way to them - and before a subscriber gets it.                 *)
EntriesSound(entries, lg, sn) ==
    /\ \A n \in 1..Len(lg) : ReachedBy(entries, Len(entries), lg, sn, n)
    /\ \A i \in DOMAIN entries :
          /\ \A n \in Carried(entries[i].tapDeliveries) : Known(lg, n)
          /\ \A n \in Carried(entries[i].deliveries) :
                n \in 1..Len(lg) /\ ReachedBy(entries, i, lg, sn, n)
InLane(r) == Carried(r.queue) \union ToSet(r.entry)
LanesSound(st, lg, sn) ==
    \A s \in Subs : \A n \in InLane(st.sub[s]) : n \in 1..Len(lg) /\ Reached(lg, sn, n)
SeenSound(lg, sn) == \A t \in Taps : \A n \in sn[t] : Known(lg, n)

Sound(st, entries, lg, sn) ==
    /\ \A s \in Subs : SubscriberSound(st.sub[s], s, entries)
    /\ \A t \in Taps : TapSound(st.tap[t], t, entries)
    /\ EntriesSound(entries, lg, sn)
    /\ LanesSound(st, lg, sn)
    /\ SeenSound(lg, sn)

(* What the task of the taps has done.                                      *)
TaskSound(st, sn) ==
    st.task = "done" => \A t \in st.entry.taps : Carried(st.entry.tapDeliveries) \subseteq sn[t]

DispatchSound(st, lg, sn) ==
    /\ st \in States /\ QueueSize(st) <= MaxQueue
    /\ Sound(st, EntriesOf(st), lg, sn)
    /\ TaskSound(st, sn)

(* The buffer: only accepted events, and all that were not handed on.       *)
BufferType == [upsert : EventSeqs, chats : EventSeqs, plain : EventSeqs]
WaitingIn(b) == ToSet(b.plain) \union ToSet(b.upsert) \union ToSet(b.chats)
SizeOf(b) == Len(b.plain) + Len(b.upsert) + Len(b.chats)
BufferSound(b, done, lg) ==
    /\ b \in BufferType /\ done \subseteq Events
    /\ \A n \in WaitingIn(b) \union done : Known(lg, n)
    /\ SizeOf(b) <= Len(lg)
    /\ \A n \in ToSet(b.plain) : lg[n].kind = "plain"
ReplacedIn(lg, n) ==
    lg[n].kind = "plain" /\ \E k \in (n + 1)..Len(lg) : lg[k].ok /\ lg[k].kind = "plain"
NoneLost(b, done, lg) ==
    \A n \in 1..Len(lg) : lg[n].ok => n \in done \union WaitingIn(b) \/ ReplacedIn(lg, n)

LogType == Seq([kind : Kinds, ok : BOOLEAN, taps : SUBSET Taps])
ControlTypes ==
    /\ buffering \in BOOLEAN /\ bufferCount \in 0..MaxBuffers
    /\ seed \in {"unset", "true", "false"}
    /\ timer \in [Timers -> {"nil", "armed", "spent"}]
    /\ message \in [Timers -> BOOLEAN]
    /\ functions \in 0..MaxBuffers /\ available \in BOOLEAN /\ faults \in 0..MaxFaults
HistoryTypes ==
    /\ log \in LogType /\ Len(log) <= MaxEmits
    /\ seen \in [Taps -> SUBSET Events] /\ handled \in [Subs -> Seq(EventSeqs)]

(* The inductive invariant.                                                 *)
HandledSound == \A s \in Subs : d.sub[s].status = "new" => handled[s] = << >>
Inv ==
    /\ DispatchSound(d, log, seen)
    /\ BufferSound(buffered, posted, log) /\ NoneLost(buffered, posted, log)
    /\ ControlTypes /\ HistoryTypes /\ HandledSound

(* What deliveries carry.                                                   *)
LEMMA CarriedBy ==
  ASSUME NEW x \in Seq(EventSeqs), NEW y \in Seq(EventSeqs)
  PROVE  /\ Carried(x \o y) = Carried(x) \union Carried(y)
         /\ Carried(<< >>) = {} /\ Carried(x) \subseteq Events
         /\ \A e : Carried(<<e>>) = ToSet(e)
<1>1. ToSet(x \o y) = ToSet(x) \union ToSet(y)
  BY ToSetConcat
<1>2. /\ ToSet(<< >>) = {} /\ ToSet(x) \subseteq EventSeqs
      /\ \A e : ToSet(<<e>>) = {e}
  BY ToSetSimple
<1>3. \A z \in EventSeqs : ToSet(z) \subseteq Events
  BY ToSetSimple DEF EventSeqs
<1> QED BY <1>1, <1>2, <1>3 DEF Carried

LEMMA InLaneHead ==
  ASSUME NEW x \in Seq(EventSeqs), x # << >>
  PROVE  /\ Carried(x) = ToSet(Head(x)) \union Carried(Tail(x))
         /\ Head(x) \in EventSeqs /\ Tail(x) \in Seq(EventSeqs)
         /\ Len(Tail(x)) = Len(x) - 1 /\ Len(x) \in Nat \ {0} /\ <<Head(x)>> \o Tail(x) = x
<1>1. /\ Head(x) \in EventSeqs /\ Tail(x) \in Seq(EventSeqs)
      /\ ToSet(x) = {Head(x)} \union ToSet(Tail(x))
  BY ToSetTail
<1>2. Carried(x) = ToSet(Head(x)) \union Carried(Tail(x))
  BY <1>1 DEF Carried
<1>3. Len(Tail(x)) = Len(x) - 1 /\ Len(x) \in Nat \ {0} /\ <<Head(x)>> \o Tail(x) = x
  OBVIOUS
<1> QED BY <1>1, <1>2, <1>3

LEMMA Associates ==
  ASSUME NEW x \in Seq(EventSeqs), NEW y \in Seq(EventSeqs), NEW z \in Seq(EventSeqs)
  PROVE  (x \o y) \o z = x \o (y \o z)
<1> DEFINE S == EventSeqs
<1>1. x \in Seq(S) /\ y \in Seq(S) /\ z \in Seq(S)
  OBVIOUS
<1> HIDE DEF S
<1> QED BY <1>1, SMTT(40)

(* How many entries are for a tap.                                          *)
LEMMA CountFinite ==
  ASSUME NEW q \in Seq(EntryType), NEW t
  PROVE  IsFiniteSet(ForTap(q, t)) /\ Cardinality(ForTap(q, t)) \in Nat
<1>1. Len(q) \in Nat /\ DOMAIN q = 1..Len(q)
  OBVIOUS
<1>2. IsFiniteSet(1..Len(q))
  BY <1>1, FS_Interval
<1>3. ForTap(q, t) \subseteq 1..Len(q)
  BY <1>1 DEF ForTap
<1> QED BY <1>2, <1>3, FS_Subset, FS_CardinalityType

LEMMA CountAppend ==
  ASSUME NEW q \in Seq(EntryType), NEW e \in EntryType, NEW t
  PROVE  Cardinality(ForTap(Append(q, e), t)) =
           Cardinality(ForTap(q, t)) + (IF t \in e.taps THEN 1 ELSE 0)
<1> DEFINE r == Append(q, e)
<1>1. /\ Len(q) \in Nat /\ DOMAIN q = 1..Len(q) /\ DOMAIN r = 1..(Len(q) + 1) /\ r[Len(q) + 1] = e
      /\ \A i \in 1..Len(q) : r[i] = q[i]
  OBVIOUS
<1> HIDE DEF r
<1>2. IsFiniteSet(ForTap(q, t)) /\ Cardinality(ForTap(q, t)) \in Nat
  BY CountFinite
<1>3. Len(q) + 1 \notin ForTap(q, t)
  BY <1>1 DEF ForTap
<1>4. CASE t \in e.taps
  <2>1. ForTap(r, t) = ForTap(q, t) \union {Len(q) + 1}
    BY <1>1, <1>4 DEF ForTap
  <2> QED BY <1>2, <1>3, <1>4, <2>1, FS_AddElement DEF r
<1>5. CASE t \notin e.taps
  <2>1. ForTap(r, t) = ForTap(q, t)
    BY <1>1, <1>5 DEF ForTap
  <2> QED BY <1>2, <1>5, <2>1 DEF r
<1> QED BY <1>4, <1>5

LEMMA CountCons ==
  ASSUME NEW q \in Seq(EntryType), NEW e \in EntryType, NEW t
  PROVE  Cardinality(ForTap(<<e>> \o q, t)) =
           Cardinality(ForTap(q, t)) + (IF t \in e.taps THEN 1 ELSE 0)
<1> DEFINE r == <<e>> \o q
           A == ForTap(q, t)
           B == {i + 1 : i \in A}
<1>1. /\ Len(q) \in Nat /\ DOMAIN q = 1..Len(q) /\ DOMAIN r = 1..(Len(q) + 1) /\ r[1] = e
      /\ \A i \in 1..Len(q) : r[i + 1] = q[i]
  OBVIOUS
<1> HIDE DEF r
<1>2. IsFiniteSet(A) /\ Cardinality(A) \in Nat
  BY CountFinite
<1>3. A \subseteq 1..Len(q) /\ \A i \in 1..Len(q) : i \in A <=> t \in q[i].taps
  BY <1>1 DEF ForTap
<1> HIDE DEF A
<1>4. IsFiniteSet(B) /\ Cardinality(B) = Cardinality(A)
  <2> DEFINE f == [i \in A |-> i + 1]
  <2>1. f \in Bijection(A, B)
    BY <1>3 DEF Bijection, Injection, Surjection, IsInjective
  <2> QED BY <1>2, <2>1, FS_Bijection DEF ExistsBijection
<1>5. \A i \in 1..(Len(q) + 1) : i # 1 => (i \in B <=> t \in r[i].taps)
  <2> SUFFICES ASSUME NEW i \in 1..(Len(q) + 1), i # 1 PROVE i \in B <=> t \in r[i].taps
    OBVIOUS
  <2>1. i - 1 \in 1..Len(q) /\ (i - 1) + 1 = i
    BY <1>1
  <2>2. r[i] = q[i - 1]
    BY <1>1, <2>1
  <2>3. i \in B <=> i - 1 \in A
    BY <1>3, <2>1
  <2> QED BY <1>3, <2>1, <2>2, <2>3
<1>6. B \subseteq 2..(Len(q) + 1)
  BY <1>3
<1> HIDE DEF B
<1>7. CASE t \in e.taps
  <2>1. 1 \notin B /\ 1 \in 1..(Len(q) + 1) /\ t \in r[1].taps
    BY <1>1, <1>6, <1>7
  <2>2. \A i \in 1..(Len(q) + 1) : t \in r[i].taps <=> i \in B \union {1}
    BY <1>5, <2>1
  <2>3. ForTap(r, t) = B \union {1}
    <3>1. B \union {1} \subseteq 1..(Len(q) + 1)
      BY <1>1, <1>6
    <3>2. ForTap(r, t) = {i \in 1..(Len(q) + 1) : t \in r[i].taps}
      BY <1>1 DEF ForTap
    <3> QED BY <2>2, <3>1, <3>2
  <2> QED BY <1>2, <1>4, <1>7, <2>1, <2>3, FS_AddElement DEF A, r
<1>8. CASE t \notin e.taps
  <2>1. ForTap(r, t) = B
    BY <1>1, <1>5, <1>6, <1>8 DEF ForTap
  <2> QED BY <1>2, <1>4, <1>8, <2>1 DEF A, r
<1> QED BY <1>7, <1>8

(* What Sound says of a dispatcher's state depends on its records only.      *)
LEMMA SoundSame ==
  ASSUME NEW st, NEW tt, NEW E, NEW lg, NEW sn, Sound(st, E, lg, sn),
         tt.sub = st.sub, tt.tap = st.tap
  PROVE  Sound(tt, E, lg, sn)
  BY DEF Sound, LanesSound

(* Some subscribers' records changed.                                       *)
LEMMA SubsChange ==
  ASSUME NEW st, NEW tt, NEW E, NEW lg, NEW sn, Sound(st, E, lg, sn), tt.tap = st.tap,
         \A s \in Subs : SubscriberSound(tt.sub[s], s, E) /\ InLane(tt.sub[s]) \subseteq InLane(st.sub[s])
  PROVE  Sound(tt, E, lg, sn)
  BY DEF Sound, LanesSound

(* The log has grown by emissions that are for no tap.                      *)
LogIn(lg, lh) == \A n \in 1..Len(lg) : n \in 1..Len(lh) /\ lh[n] = lg[n]

LEMMA LogGrows ==
  ASSUME NEW st, NEW E, NEW lg, NEW sn, Sound(st, E, lg, sn), NEW lh, LogIn(lg, lh),
         \A n \in 1..Len(lh) : n \in 1..Len(lg) \/ lh[n].taps = {}
  PROVE  Sound(st, E, lh, sn)
<1>1. \A n, k : n \in 1..Len(lg) /\ ReachedBy(E, k, lg, sn, n) => ReachedBy(E, k, lh, sn, n)
  BY DEF ReachedBy, LogIn
<1>2. \A n, k : n \in 1..Len(lh) /\ lh[n].taps = {} => ReachedBy(E, k, lh, sn, n)
  BY DEF ReachedBy
<1>3. \A n : Known(lg, n) => Known(lh, n)
  BY DEF Known, LogIn
<1>4. EntriesSound(E, lg, sn) /\ LanesSound(st, lg, sn) /\ SeenSound(lg, sn)
  BY DEF Sound
<1>5. EntriesSound(E, lh, sn)
  BY <1>1, <1>2, <1>3, <1>4 DEF EntriesSound, LogIn
<1>6. LanesSound(st, lh, sn)
  BY <1>4 DEF LanesSound, LogIn, Reached
<1>7. SeenSound(lh, sn)
  BY <1>3, <1>4 DEF SeenSound
<1> QED BY <1>5, <1>6, <1>7 DEF Sound

(* The taps have seen more.                                                 *)
LEMMA SeenGrows ==
  ASSUME NEW st, NEW E, NEW lg, NEW sn, Sound(st, E, lg, sn), NEW sm, SeenSound(lg, sm),
         \A n \in 1..Len(lg) : lg[n].taps \subseteq Taps,
         \A t \in Taps : sn[t] \subseteq sm[t]
  PROVE  Sound(st, E, lg, sm)
<1>1. \A n, k : n \in 1..Len(lg) /\ ReachedBy(E, k, lg, sn, n) => ReachedBy(E, k, lg, sm, n)
  BY DEF ReachedBy
<1>2. \A n : n \in 1..Len(lg) /\ Reached(lg, sn, n) => Reached(lg, sm, n)
  BY DEF Reached
<1>3. EntriesSound(E, lg, sn) /\ LanesSound(st, lg, sn)
  BY DEF Sound
<1>4. EntriesSound(E, lg, sm)
  BY <1>1, <1>3 DEF EntriesSound
<1>5. LanesSound(st, lg, sm)
  BY <1>2, <1>3 DEF LanesSound
<1> QED BY <1>4, <1>5 DEF Sound

(* The first entry is through: its taps have been called.                   *)
LEMMA ReachedWithout ==
  ASSUME NEW q \in Seq(EntryType), NEW e \in EntryType, NEW lg, NEW sn, NEW n, NEW k \in 0..Len(q),
         ReachedBy(<<e>> \o q, k + 1, lg, sn, n),
         \A t \in e.taps : Carried(e.tapDeliveries) \subseteq sn[t]
  PROVE  ReachedBy(q, k, lg, sn, n)
<1> DEFINE r == <<e>> \o q
<1>1. Len(q) \in Nat /\ r[1] = e /\ \A i \in 1..Len(q) : r[i + 1] = q[i]
  OBVIOUS
<1>2. ReachedBy(r, k + 1, lg, sn, n)
  OBVIOUS
<1> HIDE DEF r
<1> SUFFICES ASSUME NEW t \in lg[n].taps, n \notin sn[t]
             PROVE  \E j \in 1..k : t \in q[j].taps /\ n \in Carried(q[j].tapDeliveries)
  BY DEF ReachedBy
<1>3. PICK j \in 1..(k + 1) : t \in r[j].taps /\ n \in Carried(r[j].tapDeliveries)
  BY <1>2 DEF ReachedBy
<1>4. j # 1
  BY <1>1, <1>3
<1>5. j - 1 \in 1..k /\ j - 1 \in 1..Len(q) /\ (j - 1) + 1 = j
  BY <1>1, <1>4
<1>6. r[j] = q[j - 1]
  BY <1>1, <1>5
<1> QED BY <1>3, <1>5, <1>6

LEMMA FirstGone ==
  ASSUME NEW q \in Seq(EntryType), NEW e \in EntryType, NEW lg, NEW sn,
         EntriesSound(<<e>> \o q, lg, sn),
         \A t \in e.taps : Carried(e.tapDeliveries) \subseteq sn[t]
  PROVE  /\ EntriesSound(q, lg, sn)
         /\ \A n \in Carried(e.deliveries) : n \in 1..Len(lg) /\ Reached(lg, sn, n)
<1> DEFINE r == <<e>> \o q
<1>1. /\ Len(q) \in Nat /\ Len(r) = Len(q) + 1 /\ DOMAIN r = 1..(Len(q) + 1) /\ DOMAIN q = 1..Len(q)
      /\ r[1] = e /\ \A i \in 1..Len(q) : r[i + 1] = q[i]
  OBVIOUS
<1>2. \A n, k : k \in 0..Len(q) /\ ReachedBy(r, k + 1, lg, sn, n) => ReachedBy(q, k, lg, sn, n)
  BY ReachedWithout
<1>3. EntriesSound(r, lg, sn)
  OBVIOUS
<1> HIDE DEF r
<1>4. \A n \in 1..Len(lg) : ReachedBy(q, Len(q), lg, sn, n)
  <2> DEFINE l == Len(q)
  <2>1. \A n \in 1..Len(lg) : ReachedBy(r, Len(r), lg, sn, n)
    BY <1>3 DEF EntriesSound
  <2>2. l \in 0..Len(q) /\ Len(r) = l + 1
    BY <1>1
  <2> HIDE DEF l
  <2>3. \A n \in 1..Len(lg) : ReachedBy(q, l, lg, sn, n)
    BY <1>2, <2>1, <2>2
  <2> QED BY <2>3 DEF l
<1>5. ASSUME NEW i \in DOMAIN q
      PROVE  /\ \A n \in Carried(q[i].tapDeliveries) : Known(lg, n)
             /\ \A n \in Carried(q[i].deliveries) : n \in 1..Len(lg) /\ ReachedBy(q, i, lg, sn, n)
  <2>1. i \in 0..Len(q) /\ i + 1 \in DOMAIN r /\ r[i + 1] = q[i]
    BY <1>1
  <2> QED BY <1>2, <1>3, <2>1 DEF EntriesSound
<1>6. ASSUME NEW n \in Carried(e.deliveries) PROVE n \in 1..Len(lg) /\ Reached(lg, sn, n)
  <2>1. n \in 1..Len(lg) /\ ReachedBy(r, 1, lg, sn, n)
    BY <1>1, <1>3 DEF EntriesSound
  <2>2. ReachedBy(r, 0 + 1, lg, sn, n) /\ 0 \in 0..Len(q)
    BY <1>1, <2>1
  <2>3. ReachedBy(q, 0, lg, sn, n)
    BY <1>2, <2>2
  <2> QED BY <2>1, <2>3 DEF ReachedBy, Reached
<1> QED BY <1>4, <1>5, <1>6 DEF EntriesSound

(* Nobody's registration changes, and everyone is still promised the same.   *)
SameLanes(st, tt, E, F) ==
    \A s \in Subs : tt.sub[s].status = st.sub[s].status /\ Lane(tt.sub[s], F, s) = Lane(st.sub[s], E, s)

LEMMA SizeType ==
  ASSUME NEW r \in SubRecords
  PROVE  /\ SubscriberSize(r) \in Nat /\ Len(r.queue) \in Nat /\ r.reserved \in Nat
         /\ r.queue \in Seq(EventSeqs) /\ r.entry \in EventSeqs
         /\ r.queue = << >> <=> Len(r.queue) = 0
<1>1. r.reserved \in Nat /\ r.queue \in Seq(EventSeqs) /\ r.entry \in EventSeqs
  BY DEF SubRecords
<1> DEFINE q == r.queue
<1>2. Len(q) \in Nat /\ (q = << >> <=> Len(q) = 0)
  <2>1. q \in Seq(EventSeqs)
    BY <1>1
  <2> HIDE DEF q
  <2> QED BY <2>1
<1> QED BY <1>1, <1>2 DEF SubscriberSize

LEMMA GivenSound ==
  ASSUME NEW r \in SubRecords, NEW s \in Subs, NEW e \in EntryType, NEW q \in Seq(EntryType),
         SubscriberSound(r, s, <<e>> \o q)
  PROVE  SubscriberSound(GivenBy(r, s, e), s, q)
<1> DEFINE x == e.deliveries
           y == r.queue
           h == GatedIn(q, s)
           E == <<e>> \o q
<1>1. x \in Seq(EventSeqs) /\ y \in Seq(EventSeqs) /\ h \in Seq(EventSeqs)
  BY RecordTypes, SizeType, GatedTypes
<1>2. GatedIn(E, s) = Held(e, s) \o h
  BY GatedCons
<1>3. SubscriberSound(r, s, E)
  OBVIOUS
<1>4. /\ Len(q) \in Nat /\ DOMAIN E = 1..(Len(q) + 1) /\ DOMAIN q = 1..Len(q)
      /\ E[1] = e /\ \A i \in 1..Len(q) : E[i + 1] = q[i]
  OBVIOUS
<1> HIDE DEF E
<1>5. CASE s \in e.subs /\ Registered(r)
  <2> DEFINE g == Given(r, x)
  <2>1. GivenBy(r, s, e) = g
    BY <1>5 DEF GivenBy
  <2>2. /\ g.status = r.status /\ g.task = r.task /\ g.entry = r.entry /\ g.queue = y \o x
        /\ g.reserved = IF r.reserved >= Len(x) THEN r.reserved - Len(x) ELSE 0
    BY <1>1, GivenType
  <2> HIDE DEF g
  <2>3. r.reserved = Len(x \o h)
    BY <1>2, <1>3, <1>5 DEF SubscriberSound, Held
  <2> HIDE DEF x, y, h
  <2>4. /\ Len(x \o h) = Len(x) + Len(h) /\ Len(y \o x) = Len(y) + Len(x)
        /\ Len(x) \in Nat /\ Len(h) \in Nat /\ Len(y) \in Nat
    BY <1>1
  <2>5. g.reserved = Len(h) /\ Len(g.queue) = Len(y) + Len(x)
    BY <2>2, <2>3, <2>4
  <2>6. SubscriberSize(g) = SubscriberSize(r)
    <3> DEFINE b == IF r.task # "none" THEN 1 ELSE 0
    <3>1. /\ b \in Nat /\ SubscriberSize(g) = Len(g.queue) + g.reserved + b
          /\ SubscriberSize(r) = Len(y) + r.reserved + b
      BY <2>2 DEF SubscriberSize, y
    <3> HIDE DEF b
    <3> QED BY <2>3, <2>4, <2>5, <3>1
  <2> QED BY <1>3, <1>5, <2>1, <2>2, <2>5, <2>6 DEF SubscriberSound, Registered, h
<1>6. CASE Registered(r) /\ s \notin e.subs
  <2>1. GatedIn(E, s) = h
    <3> HIDE DEF h
    <3> QED BY <1>1, <1>2, <1>6 DEF Held
  <2> QED BY <1>3, <1>6, <2>1 DEF SubscriberSound, Registered, GivenBy
<1>7. CASE ~Registered(r)
  <2>1. \A i \in DOMAIN q : i + 1 \in DOMAIN E /\ E[i + 1] = q[i]
    BY <1>4
  <2> QED BY <1>3, <1>7, <2>1 DEF SubscriberSound, Registered, GivenBy
<1> QED BY <1>5, <1>6, <1>7

LEMMA GivenLane ==
  ASSUME NEW r \in SubRecords, NEW s \in Subs, NEW e \in EntryType, NEW q \in Seq(EntryType)
  PROVE  /\ GivenBy(r, s, e).status = r.status
         /\ Lane(GivenBy(r, s, e), q, s) = Lane(r, <<e>> \o q, s)
         /\ InLane(GivenBy(r, s, e)) \subseteq InLane(r) \union Carried(e.deliveries)
<1> DEFINE x == e.deliveries
           y == r.queue
           h == GatedIn(q, s)
           E == <<e>> \o q
           c == IF r.task # "none" THEN <<r.entry>> ELSE << >>
<1>1. x \in Seq(EventSeqs) /\ y \in Seq(EventSeqs) /\ h \in Seq(EventSeqs) /\ r.entry \in EventSeqs
  BY RecordTypes, SizeType, GatedTypes
<1>2. GatedIn(E, s) = Held(e, s) \o h
  BY GatedCons
<1>3. c \in Seq(EventSeqs)
  BY <1>1
<1> HIDE DEF E, c, h
<1>4. CASE s \in e.subs /\ Registered(r)
  <2> DEFINE g == Given(r, x)
  <2>1. GivenBy(r, s, e) = g
    BY <1>4 DEF GivenBy
  <2>2. g.status = r.status /\ g.task = r.task /\ g.entry = r.entry /\ g.queue = y \o x
    <3> HIDE DEF x
    <3> QED BY <1>1, GivenType
  <2> HIDE DEF g, x
  <2>3. Lane(g, q, s) = c \o (y \o x) \o h
    BY <1>4, <2>2 DEF Lane, Registered, c, h
  <2>4. Lane(r, E, s) = c \o y \o (x \o h)
    BY <1>2, <1>4 DEF Lane, c, Held, x
  <2>5. InLane(g) = InLane(r) \union Carried(x)
    <3> HIDE DEF y
    <3>1. Carried(y \o x) = Carried(y) \union Carried(x)
      BY <1>1, CarriedBy
    <3> QED BY <2>2, <3>1 DEF InLane, y
  <2>6. c \o (y \o x) \o h = c \o y \o (x \o h)
    <3>1. c \in Seq(EventSeqs) /\ y \in Seq(EventSeqs) /\ x \in Seq(EventSeqs) /\ h \in Seq(EventSeqs)
      BY <1>1, <1>3 DEF x
    <3> DEFINE u == c \o y
    <3> HIDE DEF y, u
    <3>2. c \o (y \o x) = u \o x
      BY <3>1 DEF u
    <3>3. u \in Seq(EventSeqs)
      BY <3>1 DEF u
    <3>4. (u \o x) \o h = u \o (x \o h)
      BY <3>1, <3>3, Associates
    <3> QED BY <3>2, <3>4 DEF u
  <2> QED BY <2>1, <2>2, <2>3, <2>4, <2>5, <2>6 DEF E, x
<1>5. CASE Registered(r) /\ s \notin e.subs
  <2>1. GatedIn(E, s) = h
    BY <1>1, <1>2, <1>5 DEF Held
  <2> QED BY <1>5, <2>1 DEF GivenBy, Lane, E, h
<1>6. CASE ~Registered(r)
  BY <1>6 DEF GivenBy, Lane
<1> QED BY <1>4, <1>5, <1>6

LEMMA TapReleased ==
  ASSUME NEW r \in TapRecords, NEW t \in Taps, NEW e \in EntryType, NEW q \in Seq(EntryType),
         TapSound(r, t, <<e>> \o q)
  PROVE  TapSound(CalledOnce(r, t, e.taps), t, q)
<1> DEFINE E == <<e>> \o q
           n == Cardinality(ForTap(q, t))
<1>1. n \in Nat /\ Cardinality(ForTap(E, t)) = n + (IF t \in e.taps THEN 1 ELSE 0)
  BY CountFinite, CountCons
<1>2. TapSound(r, t, E)
  OBVIOUS
<1> HIDE DEF E
<1>3. /\ r.pending = n + (IF t \in e.taps THEN 1 ELSE 0)
      /\ r.status = "leaving" => r.pending > 0
      /\ r.status = "gone" => r.pending = 0
  BY <1>1, <1>2 DEF TapSound
<1>4. \A g : TapSound(g, t, q) <=>
              g.pending = n /\ (g.status = "leaving" => g.pending > 0)
                            /\ (g.status = "gone" => g.pending = 0)
  BY DEF TapSound
<1> HIDE DEF n
<1>5. CASE t \in e.taps
  <2> DEFINE g == ReleaseTap(r)
  <2>1. /\ g.pending = IF r.pending > 0 THEN r.pending - 1 ELSE 0
        /\ g.status = IF r.status = "leaving" /\ g.pending = 0 THEN "gone" ELSE r.status
    BY ReleaseTapType
  <2> HIDE DEF g
  <2>2. r.pending = n + 1
    BY <1>3, <1>5
  <2>3. g.pending = n /\ r.status # "gone"
    BY <1>1, <1>3, <2>1, <2>2
  <2>4. (g.status = "leaving" => g.pending > 0) /\ (g.status = "gone" => g.pending = 0)
    <3>1. g.status = "leaving" => g.pending # 0
      BY <2>1
    <3>2. g.status = "gone" => r.status = "leaving" /\ g.pending = 0
      BY <2>1, <2>3
    <3> QED BY <1>1, <2>3, <3>1, <3>2
  <2>5. TapSound(g, t, q)
    BY <1>4, <2>3, <2>4
  <2> QED BY <1>5, <2>5 DEF CalledOnce, g
<1>6. CASE t \notin e.taps
  <2>1. r.pending = n
    BY <1>1, <1>3, <1>6
  <2> QED BY <1>3, <1>4, <1>6, <2>1 DEF CalledOnce
<1> QED BY <1>5, <1>6

(* The first entry is released.                                             *)
LEMMA ReleaseKeeps ==
  ASSUME NEW st \in States, NEW e \in EntryType, NEW q \in Seq(EntryType), NEW lg, NEW sn,
         Sound(st, <<e>> \o q, lg, sn),
         \A t \in e.taps : Carried(e.tapDeliveries) \subseteq sn[t]
  PROVE  /\ ReleaseTo(ReleaseTaps(st, e.taps), e) \in States
         /\ ReleaseTo(ReleaseTaps(st, e.taps), e).queue = st.queue
         /\ ReleaseTo(ReleaseTaps(st, e.taps), e).task = st.task
         /\ Sound(ReleaseTo(ReleaseTaps(st, e.taps), e), q, lg, sn)
         /\ SameLanes(st, ReleaseTo(ReleaseTaps(st, e.taps), e), <<e>> \o q, q)
<1> DEFINE r1 == ReleaseTaps(st, e.taps)
           r == ReleaseTo(r1, e)
           E == <<e>> \o q
<1>1. e.taps \in SUBSET Taps
  BY RecordTypes
<1>2. /\ r1 \in States /\ r1.queue = st.queue /\ r1.task = st.task /\ r1.sub = st.sub
      /\ \A t \in Taps : r1.tap[t] = CalledOnce(st.tap[t], t, e.taps)
  BY <1>1, CalledType
<1> HIDE DEF r1
<1>3. /\ r \in States /\ r.queue = st.queue /\ r.task = st.task
      /\ r.tap = r1.tap /\ \A s \in Subs : r.sub[s] = GivenBy(st.sub[s], s, e)
  BY <1>2, ReleasedType
<1> HIDE DEF r
<1>4. Sound(st, E, lg, sn)
  OBVIOUS
<1>5. ASSUME NEW s \in Subs PROVE SubscriberSound(r.sub[s], s, q)
  <2>1. st.sub[s] \in SubRecords
    BY DEF States
  <2>2. SubscriberSound(st.sub[s], s, E)
    BY <1>4 DEF Sound
  <2> QED BY <1>3, <2>1, <2>2, GivenSound
<1>6. ASSUME NEW t \in Taps PROVE TapSound(r.tap[t], t, q)
  <2>1. st.tap[t] \in TapRecords
    BY DEF States
  <2>2. TapSound(st.tap[t], t, E)
    BY <1>4 DEF Sound
  <2> QED BY <1>2, <1>3, <2>1, <2>2, TapReleased
<1>7. EntriesSound(E, lg, sn) /\ LanesSound(st, lg, sn) /\ SeenSound(lg, sn)
  BY <1>4 DEF Sound
<1>8. /\ EntriesSound(q, lg, sn)
      /\ \A n \in Carried(e.deliveries) : n \in 1..Len(lg) /\ Reached(lg, sn, n)
  BY <1>7, FirstGone
<1>9. ASSUME NEW s \in Subs
      PROVE  /\ r.sub[s].status = st.sub[s].status /\ Lane(r.sub[s], q, s) = Lane(st.sub[s], E, s)
             /\ InLane(r.sub[s]) \subseteq InLane(st.sub[s]) \union Carried(e.deliveries)
  <2>1. st.sub[s] \in SubRecords
    BY DEF States
  <2> QED BY <1>3, <2>1, GivenLane
<1>10. LanesSound(r, lg, sn)
  BY <1>7, <1>8, <1>9 DEF LanesSound
<1>11. Sound(r, q, lg, sn)
  BY <1>5, <1>6, <1>7, <1>8, <1>10 DEF Sound
<1>12. SameLanes(st, r, E, q)
  BY <1>9 DEF SameLanes
<1> QED BY <1>3, <1>11, <1>12 DEF r, r1

(* An entry without taps.                                                   *)
LEMMA ReleaseTapless ==
  ASSUME NEW st \in States, NEW e \in EntryType, NEW q \in Seq(EntryType), NEW lg, NEW sn,
         Sound(st, <<e>> \o q, lg, sn), e.taps = {}
  PROVE  /\ ReleaseTo(st, e) \in States
         /\ ReleaseTo(st, e).queue = st.queue /\ ReleaseTo(st, e).task = st.task
         /\ ReleaseTo(st, e).tap = st.tap
         /\ Sound(ReleaseTo(st, e), q, lg, sn)
         /\ SameLanes(st, ReleaseTo(st, e), <<e>> \o q, q)
<1> DEFINE r1 == ReleaseTaps(st, e.taps)
<1>1. /\ ReleaseTo(r1, e) \in States /\ Sound(ReleaseTo(r1, e), q, lg, sn)
      /\ SameLanes(st, ReleaseTo(r1, e), <<e>> \o q, q)
  BY ReleaseKeeps
<1>2. r1 = st
  <2> DEFINE f == [t \in Taps |-> IF t \in e.taps THEN ReleaseTap(st.tap[t]) ELSE st.tap[t]]
  <2>1. r1 = [st EXCEPT !.tap = f]
    BY DEF ReleaseTaps
  <2>2. f = [t \in Taps |-> st.tap[t]]
    OBVIOUS
  <2>3. st.tap = f
    BY <2>2 DEF States
  <2> HIDE DEF f
  <2> QED BY <2>1, <2>3 DEF States
<1> HIDE DEF r1
<1> QED BY <1>1, <1>2, ReleasedType

(* What is left of a queue.                                                 *)
LEMMA RestOf ==
  ASSUME NEW q \in Seq(EntryType), NEW k \in Nat, k <= Len(q)
  PROVE  /\ SubSeq(q, k + 1, Len(q)) \in Seq(EntryType)
         /\ Len(SubSeq(q, k + 1, Len(q))) = Len(q) - k
         /\ k < Len(q) => SubSeq(q, k + 1, Len(q)) = <<q[k + 1]>> \o SubSeq(q, k + 2, Len(q))
<1>1. Len(q) \in Nat
  OBVIOUS
<1>2. SubSeq(q, k + 1, Len(q)) \in Seq(EntryType) /\ Len(SubSeq(q, k + 1, Len(q))) = Len(q) - k
  BY <1>1
<1>3. ASSUME k < Len(q)
      PROVE  SubSeq(q, k + 1, Len(q)) = <<q[k + 1]>> \o SubSeq(q, k + 2, Len(q))
  <2>1. k + 1 \in 1..Len(q) /\ Len(q) \in (k + 1)..Len(q) /\ (k + 1) + 1 = k + 2
    BY <1>1, <1>3
  <2> QED BY <2>1, SubSeqRecursiveFirst
<1> QED BY <1>2, <1>3

(* The entries without taps at the head of the queue are released.          *)
LEMMA PastKeeps ==
  ASSUME NEW st \in States, st.task = "none", NEW lg, NEW sn, Sound(st, st.queue, lg, sn)
  PROVE  /\ PastTapless(st) \in States /\ PastTapless(st).task = "none"
         /\ PastTapless(st).tap = st.tap
         /\ Len(PastTapless(st).queue) <= Len(st.queue)
         /\ Sound(PastTapless(st), PastTapless(st).queue, lg, sn)
         /\ SameLanes(st, PastTapless(st), st.queue, PastTapless(st).queue)
<1> DEFINE q == st.queue
           n == Tapless(st)
           rest == SubSeq(q, n + 1, Len(q))
           pre == SubSeq(q, 1, n)
           b == [st EXCEPT !.queue = rest]
<1>1. q \in Seq(EntryType)
  BY DEF States
<1>2. n \in 0..Len(q) /\ \A i \in 1..n : q[i].taps = {}
  BY TaplessIs
<1>3. PastTapless(st) = FoldLeft(ReleaseTo, b, pre)
  BY DEF PastTapless
<1>4. st.queue = q
  OBVIOUS
<1> HIDE DEF q, n
<1>5. Len(q) \in Nat /\ n \in Nat /\ n <= Len(q)
  BY <1>1, <1>2
<1>6. rest \in Seq(EntryType) /\ Len(rest) = Len(q) - n
  BY <1>1, <1>5, RestOf
<1>7. /\ pre \in Seq(EntryType) /\ Len(pre) = n /\ \A i \in 1..n : pre[i] = q[i] /\ q[i] \in EntryType
  BY <1>1, <1>5
<1> HIDE DEF rest, pre
<1>8. /\ b \in States /\ b.queue = rest /\ b.task = "none" /\ b.tap = st.tap /\ b.sub = st.sub
  BY <1>6 DEF States
<1> HIDE DEF b
<1>9. PICK g : /\ g[0] = b
               /\ \A k \in 1..Len(pre) : g[k] = ReleaseTo(g[k - 1], pre[k])
               /\ FoldLeft(ReleaseTo, b, pre) = g[Len(pre)]
  BY <1>7, <1>8, ReleasesInTurn, ReleasedType
<1> DEFINE R(k) == SubSeq(q, k + 1, Len(q))
           Good(k) == /\ g[k] \in States /\ g[k].queue = rest /\ g[k].task = "none"
                      /\ g[k].tap = st.tap
                      /\ Sound(g[k], R(k), lg, sn) /\ SameLanes(st, g[k], q, R(k))
           P == {k \in Nat : k <= n => Good(k)}
<1>10. 0 \in P
  <2>1. R(0) = q
    BY <1>1
  <2> HIDE DEF R
  <2>2. Sound(b, q, lg, sn)
    BY <1>4, <1>8, SoundSame
  <2>3. SameLanes(st, b, q, q)
    BY <1>8 DEF SameLanes
  <2> QED BY <1>8, <1>9, <2>1, <2>2, <2>3
<1>11. ASSUME NEW k \in Nat, k \in P PROVE k + 1 \in P
  <2> SUFFICES ASSUME k + 1 <= n PROVE Good(k + 1)
    OBVIOUS
  <2>1. k <= n /\ Good(k) /\ k + 1 \in 1..n /\ (k + 1) - 1 = k /\ k < Len(q) /\ k <= Len(q)
    BY <1>5, <1>11
  <2>2. g[k + 1] = ReleaseTo(g[k], q[k + 1]) /\ q[k + 1].taps = {} /\ q[k + 1] \in EntryType
    BY <1>2, <1>7, <1>9, <2>1
  <2>3. R(k) = <<q[k + 1]>> \o R(k + 1)
    <3>1. (k + 1) + 1 = k + 2
      OBVIOUS
    <3> QED BY <1>1, <2>1, <3>1, RestOf
  <2>4. R(k + 1) \in Seq(EntryType)
    BY <1>1, <1>5, <2>1, RestOf
  <2> DEFINE x == g[k]
             e == q[k + 1]
             F == R(k + 1)
             G == R(k)
  <2>5. /\ x \in States /\ e \in EntryType /\ F \in Seq(EntryType) /\ e.taps = {} /\ G = <<e>> \o F
        /\ Sound(x, G, lg, sn) /\ SameLanes(st, x, q, G) /\ x.queue = rest /\ x.task = "none"
        /\ x.tap = st.tap /\ g[k + 1] = ReleaseTo(x, e)
    BY <2>1, <2>2, <2>3, <2>4
  <2>6. Good(k + 1) <=> /\ g[k + 1] \in States /\ g[k + 1].queue = rest /\ g[k + 1].task = "none"
                        /\ g[k + 1].tap = st.tap
                        /\ Sound(g[k + 1], F, lg, sn) /\ SameLanes(st, g[k + 1], q, F)
    OBVIOUS
  <2> HIDE DEF x, e, F, G, Good, R, P
  <2>7. /\ ReleaseTo(x, e) \in States
        /\ ReleaseTo(x, e).queue = rest /\ ReleaseTo(x, e).task = "none"
        /\ ReleaseTo(x, e).tap = st.tap
        /\ Sound(ReleaseTo(x, e), F, lg, sn)
        /\ SameLanes(x, ReleaseTo(x, e), G, F)
    BY <2>5, ReleaseTapless
  <2>8. SameLanes(st, ReleaseTo(x, e), q, F)
    BY <2>5, <2>7 DEF SameLanes
  <2> QED BY <2>5, <2>6, <2>7, <2>8
<1> HIDE DEF P
<1>12. Good(n)
  <2>1. n \in P
    BY <1>5, <1>10, <1>11, Induct
  <2> QED BY <1>5, <2>1 DEF P
<1>13. R(n) = rest
  BY DEF rest
<1>14. PastTapless(st) = g[n]
  BY <1>3, <1>7, <1>9
<1> HIDE DEF R
<1> QED BY <1>4, <1>5, <1>6, <1>12, <1>13, <1>14

LEMMA StateTypes ==
  ASSUME NEW st \in States
  PROVE  /\ st.queue \in Seq(EntryType) /\ Len(st.queue) \in Nat /\ st.task \in TaskStates
         /\ st.entry \in EntryType /\ st.retry \in BOOLEAN
         /\ \A s \in Subs : st.sub[s] \in SubRecords
         /\ \A t \in Taps : st.tap[t] \in TapRecords
         /\ EntriesOf(st) \in Seq(EntryType)
         /\ EntriesOf(st) = IF st.task = "none" THEN st.queue ELSE <<st.entry>> \o st.queue
         /\ QueueSize(st) = Len(EntriesOf(st)) /\ QueueSize(st) \in Nat
<1> DEFINE q == st.queue
           e == st.entry
<1>1. /\ q \in Seq(EntryType) /\ e \in EntryType
      /\ st.task \in TaskStates /\ st.retry \in BOOLEAN
      /\ \A s \in Subs : st.sub[s] \in SubRecords
      /\ \A t \in Taps : st.tap[t] \in TapRecords
  BY DEF States
<1>2. /\ EntriesOf(st) = (IF st.task # "none" THEN <<e>> ELSE << >>) \o q
      /\ QueueSize(st) = Len(q) + (IF st.task # "none" THEN 1 ELSE 0)
  BY DEF EntriesOf, QueueSize
<1> HIDE DEF q, e
<1>3. /\ Len(q) \in Nat /\ <<e>> \o q \in Seq(EntryType) /\ << >> \o q = q
      /\ Len(<<e>> \o q) = Len(q) + 1
  BY <1>1
<1>4. CASE st.task = "none"
  <2>1. EntriesOf(st) = q /\ QueueSize(st) = Len(q)
    BY <1>2, <1>3, <1>4
  <2> QED BY <1>1, <1>3, <1>4, <2>1 DEF q, e
<1>5. CASE st.task # "none"
  <2>1. EntriesOf(st) = <<e>> \o q /\ QueueSize(st) = Len(q) + 1
    BY <1>2, <1>5
  <2>2. QueueSize(st) = Len(EntriesOf(st)) /\ QueueSize(st) \in Nat
    BY <1>3, <2>1
  <2> QED BY <1>1, <1>3, <1>5, <2>1, <2>2 DEF q, e
<1> QED BY <1>4, <1>5

(* What a step of the dispatcher's own does not change: the taps' records,   *)
(* the registrations, what is promised - and the work does not grow.        *)
Steps(st, tt) ==
    /\ tt \in States /\ tt.tap = st.tap
    /\ QueueSize(tt) <= QueueSize(st)
    /\ SameLanes(st, tt, EntriesOf(st), EntriesOf(tt))
    /\ tt.task = "done" => st.task = "done" /\ tt.entry = st.entry

LEMMA StartTapsKeeps ==
  ASSUME NEW st \in States, NEW lg, NEW sn, Sound(st, EntriesOf(st), lg, sn)
  PROVE  Steps(st, StartTaps(st)) /\ Sound(StartTaps(st), EntriesOf(StartTaps(st)), lg, sn)
<1> DEFINE p == PastTapless(st)
           r == StartTaps(st)
<1>1. CASE st.task # "none"
  <2>1. r = st
    BY <1>1 DEF StartTaps
  <2>2. QueueSize(st) \in Nat
    BY StateTypes
  <2> HIDE DEF r
  <2>3. Steps(st, st)
    BY <2>2 DEF Steps, SameLanes
  <2> QED BY <2>1, <2>3 DEF r
<1>2. CASE st.task = "none"
  <2>1. EntriesOf(st) = st.queue /\ QueueSize(st) = Len(st.queue) /\ Len(st.queue) \in Nat
    BY <1>2, StateTypes
  <2>2. /\ p \in States /\ p.task = "none" /\ p.tap = st.tap /\ Len(p.queue) <= Len(st.queue)
        /\ Sound(p, p.queue, lg, sn) /\ SameLanes(st, p, st.queue, p.queue)
    BY <1>2, <2>1, PastKeeps
  <2>3. r = IF p.queue = << >> THEN p
            ELSE IF ~available THEN [p EXCEPT !.retry = TRUE]
            ELSE [p EXCEPT !.queue = Tail(@), !.entry = Head(p.queue), !.task = "running"]
    BY <1>2 DEF StartTaps
  <2> HIDE DEF p, r
  <2>4. /\ r \in States /\ r.tap = p.tap /\ r.sub = p.sub /\ r.task # "done"
        /\ EntriesOf(r) = p.queue
    <3>1. EntriesOf(p) = p.queue /\ p.queue \in Seq(EntryType)
      BY <2>2, StateTypes
    <3>2. CASE p.queue = << >>
      BY <2>2, <2>3, <3>1, <3>2
    <3>3. CASE p.queue # << >> /\ ~available
      <4>1. r = [p EXCEPT !.retry = TRUE]
        BY <2>3, <3>3
      <4>2. r \in States /\ r.tap = p.tap /\ r.sub = p.sub /\ r.task = "none" /\ r.queue = p.queue
        BY <2>2, <4>1 DEF States
      <4> QED BY <4>2, StateTypes
    <3>4. CASE p.queue # << >> /\ available
      <4> DEFINE q == p.queue
      <4>1. /\ Tail(q) \in Seq(EntryType) /\ Head(q) \in EntryType /\ <<Head(q)>> \o Tail(q) = q
        BY <3>1, <3>4
      <4>2. r = [p EXCEPT !.queue = Tail(q), !.entry = Head(q), !.task = "running"]
        BY <2>3, <3>4
      <4> HIDE DEF q
      <4>3. /\ r \in States /\ r.tap = p.tap /\ r.sub = p.sub /\ r.task = "running"
            /\ r.queue = Tail(q) /\ r.entry = Head(q)
        BY <2>2, <4>1, <4>2 DEF States, TaskStates
      <4> QED BY <4>1, <4>3, StateTypes DEF q
    <3> QED BY <3>2, <3>3, <3>4
  <2>5. Sound(r, EntriesOf(r), lg, sn)
    BY <2>2, <2>4, SoundSame
  <2>6. SameLanes(st, r, st.queue, p.queue)
    BY <2>2, <2>4 DEF SameLanes
  <2>7. QueueSize(r) <= QueueSize(st)
    BY <2>1, <2>2, <2>4, StateTypes
  <2> QED BY <2>1, <2>2, <2>4, <2>5, <2>6, <2>7 DEF Steps, r
<1> QED BY <1>1, <1>2

LEMMA StartedSubscriber ==
  ASSUME NEW r \in SubRecords, NEW s \in Subs, NEW E \in Seq(EntryType), SubscriberSound(r, s, E)
  PROVE  /\ StartSubscriber(r) \in SubRecords
         /\ SubscriberSound(StartSubscriber(r), s, E)
         /\ InLane(StartSubscriber(r)) \subseteq InLane(r)
         /\ StartSubscriber(r).status = r.status
         /\ Lane(StartSubscriber(r), E, s) = Lane(r, E, s)
<1> DEFINE q == r.queue
           u == StartSubscriber(r)
<1>1. q \in Seq(EventSeqs) /\ Len(q) \in Nat /\ (q = << >> <=> Len(q) = 0) /\ r.reserved \in Nat
  BY SizeType
<1>2. CASE r.task = "none" /\ q # << >> /\ available
  <2>1. u = [r EXCEPT !.queue = Tail(q), !.entry = Head(q), !.task = "running"]
    BY <1>2 DEF StartSubscriber
  <2>2. /\ Carried(q) = ToSet(Head(q)) \union Carried(Tail(q))
        /\ Head(q) \in EventSeqs /\ Tail(q) \in Seq(EventSeqs)
        /\ Len(Tail(q)) = Len(q) - 1 /\ Len(q) \in Nat \ {0} /\ <<Head(q)>> \o Tail(q) = q
    BY <1>1, <1>2, InLaneHead
  <2> DEFINE x == Head(q)
             y == Tail(q)
  <2> HIDE DEF u, x, y
  <2>3. /\ u \in SubRecords /\ u.status = r.status /\ u.reserved = r.reserved /\ u.queue = y
        /\ u.entry = x /\ u.task = "running"
    BY <2>1, <2>2 DEF SubRecords, TaskStates, x, y
  <2>4. InLane(u) \subseteq InLane(r)
    BY <2>2, <2>3 DEF InLane, x, y
  <2>5. SubscriberSize(u) = SubscriberSize(r)
    <3>1. SubscriberSize(u) = Len(y) + r.reserved + 1 /\ SubscriberSize(r) = Len(q) + r.reserved + 0
      BY <1>2, <2>3 DEF SubscriberSize
    <3> QED BY <1>1, <2>2, <3>1 DEF y
  <2>6. r.status \in {"on", "leaving"}
    BY <1>2 DEF SubscriberSound, Registered
  <2>7. SubscriberSound(u, s, E)
    BY <2>3, <2>5, <2>6 DEF SubscriberSound, Registered
  <2>8. Lane(u, E, s) = Lane(r, E, s)
    <3>1. GatedIn(E, s) \in Seq(EventSeqs)
      BY GatedTypes
    <3>2. Lane(u, E, s) = <<x>> \o y \o GatedIn(E, s) /\ Lane(r, E, s) = << >> \o q \o GatedIn(E, s)
      BY <1>2, <2>3, <2>6 DEF Lane, Registered
    <3>3. << >> \o q = q /\ <<x>> \o y = q
      BY <1>1, <2>2 DEF x, y
    <3> QED BY <3>2, <3>3
  <2> QED BY <2>3, <2>4, <2>7, <2>8 DEF u
<1>3. CASE ~(r.task = "none" /\ q # << >> /\ available)
  <2>1. RemoveIfDone(r) = r
    BY <1>1 DEF SubscriberSound, RemoveIfDone
  <2>2. u = r
    BY <1>3, <2>1 DEF StartSubscriber
  <2> QED BY <2>2
<1> QED BY <1>2, <1>3

LEMMA StartSubscribersKeeps ==
  ASSUME NEW st \in States, NEW lg, NEW sn, Sound(st, EntriesOf(st), lg, sn)
  PROVE  /\ Steps(st, StartSubscribers(st))
         /\ Sound(StartSubscribers(st), EntriesOf(StartSubscribers(st)), lg, sn)
<1> DEFINE f == [s \in Subs |-> StartSubscriber(st.sub[s])]
           b == st.retry \/ (/\ ~available
                             /\ \E s \in Subs : st.sub[s].task = "none" /\ st.sub[s].queue # << >>)
           r == StartSubscribers(st)
           E == EntriesOf(st)
<1>1. r = [st EXCEPT !.sub = f, !.retry = b]
  BY DEF StartSubscribers
<1>2. E \in Seq(EntryType) /\ \A s \in Subs : st.sub[s] \in SubRecords /\ SubscriberSound(st.sub[s], s, E)
  BY StateTypes DEF Sound
<1>3. \A s \in Subs : /\ f[s] \in SubRecords
                      /\ SubscriberSound(f[s], s, E) /\ InLane(f[s]) \subseteq InLane(st.sub[s])
                      /\ f[s].status = st.sub[s].status /\ Lane(f[s], E, s) = Lane(st.sub[s], E, s)
  BY <1>2, StartedSubscriber
<1>4. f \in [Subs -> SubRecords] /\ b \in BOOLEAN
  BY <1>3, StateTypes
<1>5. Sound(st, E, lg, sn)
  OBVIOUS
<1> HIDE DEF f, b, r
<1>6. /\ r \in States /\ r.tap = st.tap /\ r.sub = f /\ r.queue = st.queue /\ r.task = st.task
      /\ r.entry = st.entry
  BY <1>1, <1>4 DEF States
<1>7. EntriesOf(r) = E /\ QueueSize(r) = QueueSize(st) /\ QueueSize(st) \in Nat
  BY <1>6, StateTypes DEF EntriesOf, QueueSize
<1> HIDE DEF E
<1>8. Sound(r, E, lg, sn)
  BY <1>3, <1>5, <1>6, SubsChange
<1>9. SameLanes(st, r, E, E)
  BY <1>3, <1>6 DEF SameLanes
<1> QED BY <1>6, <1>7, <1>8, <1>9 DEF Steps, E, r

(* maybe_start_dispatches/1 keeps everything sound.                         *)
LEMMA StartKeeps ==
  ASSUME NEW st \in States, NEW lg, NEW sn, Sound(st, EntriesOf(st), lg, sn)
  PROVE  /\ Steps(st, StartDispatches(st))
         /\ Sound(StartDispatches(st), EntriesOf(StartDispatches(st)), lg, sn)
<1> DEFINE p == StartTaps(st)
           r == StartSubscribers(p)
<1>1. Steps(st, p) /\ Sound(p, EntriesOf(p), lg, sn)
  BY StartTapsKeeps
<1>2. p \in States
  BY <1>1 DEF Steps
<1>3. StartDispatches(st) = r
  BY DEF StartDispatches
<1> HIDE DEF p
<1>4. Steps(p, r) /\ Sound(r, EntriesOf(r), lg, sn)
  BY <1>1, <1>2, StartSubscribersKeeps
<1> HIDE DEF r
<1>5. r \in States
  BY <1>4 DEF Steps
<1>6. QueueSize(st) \in Nat /\ QueueSize(p) \in Nat /\ QueueSize(r) \in Nat
  BY <1>2, <1>5, StateTypes
<1>7. Steps(st, r)
  BY <1>1, <1>4, <1>6 DEF Steps, SameLanes
<1> QED BY <1>3, <1>4, <1>7

(* A subscriber that was dropped.                                           *)
Dropped == [NewSubscriber EXCEPT !.status = "gone"]

LEMMA DroppedSound ==
  ASSUME NEW s \in Subs, NEW E
  PROVE  /\ Dropped \in SubRecords /\ Dropped.status = "gone" /\ InLane(Dropped) = {}
         /\ SubscriberSound(Dropped, s, E) /\ Lane(Dropped, E, s) = << >>
<1>1. << >> \in EventSeqs /\ << >> \in Seq(EventSeqs)
  BY DEF EventSeqs
<1>2. Dropped = [status |-> "gone", reserved |-> 0, queue |-> << >>, task |-> "none", entry |-> << >>]
  BY DEF Dropped, NewSubscriber
<1>3. /\ Dropped \in SubRecords /\ Dropped.status = "gone" /\ Dropped.reserved = 0
      /\ Dropped.queue = << >> /\ Dropped.task = "none" /\ Dropped.entry = << >>
  BY <1>1, <1>2 DEF SubRecords, Statuses, TaskStates
<1> DEFINE p == Dropped
<1> HIDE DEF p
<1>4. /\ p.status = "gone" /\ p.reserved = 0 /\ p.queue = << >> /\ p.task = "none" /\ p.entry = << >>
  BY <1>3 DEF p
<1>5. Len(p.queue) = 0
  BY <1>4
<1>6. SubscriberSize(p) = 0
  BY <1>4, <1>5 DEF SubscriberSize
<1>7. InLane(p) = {}
  <2>1. ToSet(<< >>) = {}
    BY DEF ToSet
  <2>2. Carried(<< >>) = {}
    BY <2>1 DEF Carried
  <2> QED BY <1>4, <2>1, <2>2 DEF InLane
<1>8. MaxQueue \in Nat
  BY EmitterAssumption
<1>9. SubscriberSound(p, s, E) /\ Lane(p, E, s) = << >>
  BY <1>4, <1>6, <1>8 DEF SubscriberSound, Registered, Lane
<1> QED BY <1>3, <1>7, <1>9 DEF p

LEMMA LaneParts ==
  ASSUME NEW r \in SubRecords, NEW E \in Seq(EntryType), NEW s \in Subs, Registered(r)
  PROVE  \E c \in Seq(EventSeqs) :
            /\ c = (IF r.task # "none" THEN <<r.entry>> ELSE << >>) \o r.queue
            /\ Lane(r, E, s) = c \o GatedIn(E, s)
<1> DEFINE y == r.queue
           z == IF r.task # "none" THEN <<r.entry>> ELSE << >>
<1>1. r.entry \in EventSeqs /\ y \in Seq(EventSeqs)
  BY SizeType
<1>2. z \in Seq(EventSeqs)
  BY <1>1
<1>3. Lane(r, E, s) = z \o y \o GatedIn(E, s)
  BY DEF Lane
<1> HIDE DEF y, z
<1>4. z \o y \in Seq(EventSeqs)
  BY <1>1, <1>2
<1> QED BY <1>3, <1>4 DEF y, z

(* More is on its way: reserved and queued.                                 *)
LEMMA Grow ==
  ASSUME NEW r \in SubRecords, NEW x \in Seq(EventSeqs), r.status = "on", HasRoom(r, x),
         NEW p \in {[r EXCEPT !.reserved = @ + Len(x)], [r EXCEPT !.queue = @ \o x]}
  PROVE  /\ p \in SubRecords /\ p.status = "on" /\ p.task = r.task /\ p.entry = r.entry
         /\ SubscriberSize(p) <= MaxQueue
<1> DEFINE n == r.reserved
           y == r.queue
           b == IF r.task # "none" THEN 1 ELSE 0
           m == n + Len(x)
           z == y \o x
<1>1. n \in Nat /\ y \in Seq(EventSeqs) /\ Len(y) \in Nat /\ b \in Nat
  BY SizeType
<1>2. Len(y) + n + b + Len(x) <= MaxQueue
  BY DEF HasRoom, SubscriberSize
<1>3. p = [r EXCEPT !.reserved = m] \/ p = [r EXCEPT !.queue = z]
  OBVIOUS
<1> HIDE DEF y
<1>4. Len(x) \in Nat /\ z \in Seq(EventSeqs) /\ Len(z) = Len(y) + Len(x)
  BY <1>1
<1>5. m \in Nat
  BY <1>1, <1>4
<1>6. CASE p = [r EXCEPT !.reserved = m]
  <2> HIDE DEF m
  <2>1. /\ p \in SubRecords /\ p.status = "on" /\ p.task = r.task /\ p.entry = r.entry
        /\ p.reserved = m /\ p.queue = r.queue
    BY <1>5, <1>6 DEF SubRecords
  <2>2. SubscriberSize(p) = Len(y) + m + b
    BY <2>1 DEF SubscriberSize, y
  <2> HIDE DEF b, n
  <2>3. SubscriberSize(p) <= MaxQueue
    BY <1>1, <1>2, <1>4, <2>2, EmitterAssumption DEF m
  <2> QED BY <2>1, <2>3
<1>7. CASE p = [r EXCEPT !.queue = z]
  <2> HIDE DEF z
  <2>1. /\ p \in SubRecords /\ p.status = "on" /\ p.task = r.task /\ p.entry = r.entry
        /\ p.reserved = n /\ p.queue = z
    BY <1>4, <1>7 DEF SubRecords
  <2>2. SubscriberSize(p) = Len(z) + n + b
    BY <2>1 DEF SubscriberSize
  <2> HIDE DEF b, n
  <2>3. SubscriberSize(p) <= MaxQueue
    BY <1>1, <1>2, <1>4, <2>2, EmitterAssumption
  <2> QED BY <2>1, <2>3
<1> QED BY <1>3, <1>6, <1>7

(* One entry more, at the end, and it is for the subscriber.                *)
LEMMA ReservedSound ==
  ASSUME NEW r \in SubRecords, NEW s \in Subs, NEW q \in Seq(EntryType), NEW e \in EntryType,
         SubscriberSound(r, s, q), s \in e.subs, r.status = "on", HasRoom(r, e.deliveries)
  PROVE  /\ Prepared(r, e.deliveries, TRUE) \in SubRecords
         /\ Prepared(r, e.deliveries, TRUE).status = "on"
         /\ SubscriberSound(Prepared(r, e.deliveries, TRUE), s, Append(q, e))
         /\ InLane(Prepared(r, e.deliveries, TRUE)) = InLane(r)
         /\ Lane(Prepared(r, e.deliveries, TRUE), Append(q, e), s) = Lane(r, q, s) \o e.deliveries
<1> DEFINE h == GatedIn(q, s)
           E == Append(q, e)
           x == e.deliveries
           m == r.reserved + Len(x)
           p == [r EXCEPT !.reserved = m]
<1>1. r.reserved \in Nat /\ h \in Seq(EventSeqs) /\ x \in Seq(EventSeqs) /\ Len(x) \in Nat /\ m \in Nat
  BY SizeType, GatedTypes, RecordTypes
<1>2. GatedIn(E, s) = h \o x
  BY GatedAppend DEF Held
<1>3. Prepared(r, x, TRUE) = p
  BY DEF Prepared
<1>4. E \in Seq(EntryType) /\ Registered(r)
  BY DEF Registered
<1>5. /\ p \in SubRecords /\ p.status = "on" /\ p.task = r.task /\ p.entry = r.entry
      /\ SubscriberSize(p) <= MaxQueue
  BY <1>1, Grow
<1> HIDE DEF m, E
<1>6. p.reserved = m /\ p.queue = r.queue
  BY <1>1 DEF SubRecords
<1>7. r.reserved = Len(h)
  BY <1>4 DEF SubscriberSound
<1> HIDE DEF h, x, p
<1>8. m = Len(h \o x)
  BY <1>1, <1>7 DEF m
<1>9. SubscriberSound(p, s, E)
  <2>1. r.task = "none" => r.entry = << >>
    BY DEF SubscriberSound
  <2> QED BY <1>2, <1>5, <1>6, <1>8, <2>1 DEF SubscriberSound, Registered
<1>10. Lane(p, E, s) = Lane(r, q, s) \o x
  <2>1. PICK c \in Seq(EventSeqs) :
          c = (IF r.task # "none" THEN <<r.entry>> ELSE << >>) \o r.queue /\ Lane(r, q, s) = c \o h
    BY <1>4, LaneParts DEF h
  <2>2. Registered(p)
    BY <1>5 DEF Registered
  <2>3. Lane(p, E, s) = c \o (h \o x)
    BY <1>2, <1>5, <1>6, <2>1, <2>2 DEF Lane
  <2>4. c \o (h \o x) = (c \o h) \o x
    BY <1>1, <2>1, Associates
  <2> QED BY <2>1, <2>3, <2>4
<1>11. InLane(p) = InLane(r)
  BY <1>5, <1>6 DEF InLane
<1> QED BY <1>3, <1>5, <1>9, <1>10, <1>11 DEF E, x

(* .. and it is not.                                                        *)
LEMMA PassedBySound ==
  ASSUME NEW r \in SubRecords, NEW s \in Subs, NEW q \in Seq(EntryType), NEW e \in EntryType,
         SubscriberSound(r, s, q), s \notin e.subs
  PROVE  SubscriberSound(r, s, Append(q, e)) /\ Lane(r, Append(q, e), s) = Lane(r, q, s)
<1> DEFINE h == GatedIn(q, s)
           E == Append(q, e)
<1>1. /\ Len(q) \in Nat /\ DOMAIN q = 1..Len(q) /\ DOMAIN E = 1..(Len(q) + 1)
      /\ E[Len(q) + 1] = e /\ \A i \in 1..Len(q) : E[i] = q[i]
  OBVIOUS
<1>2. GatedIn(E, s) = h \o << >>
  BY GatedAppend DEF Held
<1>3. h \in Seq(EventSeqs)
  BY GatedTypes
<1> HIDE DEF E, h
<1>4. GatedIn(E, s) = h
  BY <1>2, <1>3
<1>5. r.status = "new" => \A i \in DOMAIN E : s \notin E[i].subs
  <2> SUFFICES ASSUME r.status = "new", NEW i \in DOMAIN E PROVE s \notin E[i].subs
    OBVIOUS
  <2>1. i \in DOMAIN q \/ i = Len(q) + 1
    BY <1>1
  <2>2. \A j \in DOMAIN q : s \notin q[j].subs
    BY DEF SubscriberSound
  <2> QED BY <1>1, <2>1, <2>2
<1>6. SubscriberSound(r, s, E)
  BY <1>4, <1>5 DEF SubscriberSound, h
<1>7. Lane(r, E, s) = Lane(r, q, s)
  BY <1>4 DEF h, Lane
<1> QED BY <1>6, <1>7 DEF E

(* Deliveries that nothing holds back.                                      *)
LEMMA QueuedSound ==
  ASSUME NEW r \in SubRecords, NEW s \in Subs, SubscriberSound(r, s, << >>),
         NEW x \in Seq(EventSeqs), r.status = "on", HasRoom(r, x)
  PROVE  /\ Prepared(r, x, FALSE) \in SubRecords /\ Prepared(r, x, FALSE).status = "on"
         /\ SubscriberSound(Prepared(r, x, FALSE), s, << >>)
         /\ InLane(Prepared(r, x, FALSE)) = InLane(r) \union Carried(x)
         /\ Lane(Prepared(r, x, FALSE), << >>, s) = Lane(r, << >>, s) \o x
<1> DEFINE y == r.queue
           z == y \o x
           p == [r EXCEPT !.queue = z]
           E == << >>
<1>1. y \in Seq(EventSeqs) /\ r.reserved \in Nat
  BY SizeType
<1>2. z \in Seq(EventSeqs) /\ Carried(z) = Carried(y) \union Carried(x)
  <2> HIDE DEF y
  <2>1. z \in Seq(EventSeqs)
    BY <1>1
  <2>2. Carried(z) = Carried(y) \union Carried(x)
    BY <1>1, CarriedBy
  <2> QED BY <2>1, <2>2
<1>3. Prepared(r, x, FALSE) = p
  BY DEF Prepared
<1>4. E \in Seq(EntryType) /\ GatedIn(E, s) = << >> /\ Registered(r)
  BY GatedEmpty DEF Registered
<1>5. /\ p \in SubRecords /\ p.status = "on" /\ p.task = r.task /\ p.entry = r.entry
      /\ SubscriberSize(p) <= MaxQueue
  BY Grow
<1> HIDE DEF z, E
<1>6. p.reserved = r.reserved /\ p.queue = z
  BY <1>2 DEF SubRecords
<1> HIDE DEF p
<1>7. SubscriberSound(p, s, E)
  <2>1. SubscriberSound(r, s, E)
    BY DEF E
  <2> QED BY <1>4, <1>5, <1>6, <2>1 DEF SubscriberSound, Registered
<1>8. Lane(p, E, s) = Lane(r, E, s) \o x
  <2>1. PICK c \in Seq(EventSeqs) :
          /\ c = (IF r.task # "none" THEN <<r.entry>> ELSE << >>) \o y
          /\ Lane(r, E, s) = c \o GatedIn(E, s)
    BY <1>4, LaneParts
  <2> DEFINE w == IF r.task # "none" THEN <<r.entry>> ELSE << >>
  <2>2. r.entry \in EventSeqs
    BY SizeType
  <2>3. w \in Seq(EventSeqs)
    BY <2>2
  <2>4. Lane(r, E, s) = c \o << >> /\ c = w \o y
    BY <1>4, <2>1
  <2>5. Registered(p)
    BY <1>5 DEF Registered
  <2>6. Lane(p, E, s) = w \o z \o << >>
    BY <1>4, <1>5, <1>6, <2>5 DEF Lane
  <2> HIDE DEF w, y
  <2>7. w \o z = (w \o y) \o x /\ w \o z \in Seq(EventSeqs)
    <3>1. w \o (y \o x) = (w \o y) \o x
      BY <1>1, <2>3
    <3>2. w \o z \in Seq(EventSeqs)
      BY <1>2, <2>3
    <3> QED BY <3>1, <3>2 DEF z
  <2> DEFINE v == w \o z
  <2> HIDE DEF v
  <2>8. v \o << >> = v /\ c \o << >> = c
    <3>1. v \in Seq(EventSeqs)
      BY <2>7 DEF v
    <3> QED BY <3>1
  <2> QED BY <2>4, <2>6, <2>7, <2>8 DEF v
<1>9. InLane(p) = InLane(r) \union Carried(x)
  BY <1>2, <1>5, <1>6 DEF InLane
<1> QED BY <1>3, <1>5, <1>7, <1>8, <1>9 DEF E

(* The log grows by the emission of x to some taps; y goes to subscribers.   *)
Grown(taps, x, y, lg, lh) ==
    /\ LogIn(lg, lh)
    /\ \A n \in 1..Len(lh) : n \in 1..Len(lg) \/ (lh[n].taps = taps /\ n \in Carried(x))
    /\ \A n \in Carried(x) : Known(lh, n)
    /\ \A n \in Carried(y) : n \in 1..Len(lh)

LEMMA EntriesGrow ==
  ASSUME NEW E \in Seq(EntryType), NEW e \in EntryType, NEW lg, NEW lh, NEW sn,
         EntriesSound(E, lg, sn), Grown(e.taps, e.tapDeliveries, e.deliveries, lg, lh)
  PROVE  EntriesSound(Append(E, e), lh, sn)
<1> DEFINE F == Append(E, e)
           l == Len(E)
<1>1. /\ l \in Nat /\ DOMAIN E = 1..l /\ DOMAIN F = 1..(l + 1) /\ Len(F) = l + 1
      /\ F[l + 1] = e /\ \A i \in 1..l : F[i] = E[i]
  OBVIOUS
<1> HIDE DEF F
<1>2. ASSUME NEW n \in 1..Len(lg), NEW i \in 0..l, NEW k \in Nat, i <= k, ReachedBy(E, i, lg, sn, n)
      PROVE  ReachedBy(F, k, lh, sn, n)
  <2> SUFFICES ASSUME NEW t \in lh[n].taps, n \notin sn[t]
               PROVE  \E j \in 1..k : t \in F[j].taps /\ n \in Carried(F[j].tapDeliveries)
    BY DEF ReachedBy
  <2>1. t \in lg[n].taps
    BY DEF Grown, LogIn
  <2>2. PICK j \in 1..i : t \in E[j].taps /\ n \in Carried(E[j].tapDeliveries)
    BY <1>2, <2>1 DEF ReachedBy
  <2>3. j \in 1..k /\ j \in 1..l
    BY <1>1, <1>2
  <2> QED BY <1>1, <2>2, <2>3
<1>3. ASSUME NEW n \in 1..Len(lh) PROVE ReachedBy(F, l + 1, lh, sn, n)
  <2>1. CASE n \in 1..Len(lg)
    <3>1. ReachedBy(E, l, lg, sn, n)
      BY <2>1 DEF EntriesSound
    <3>2. l \in 0..l /\ l + 1 \in Nat /\ l <= l + 1
      BY <1>1
    <3> QED BY <1>2, <2>1, <3>1, <3>2
  <2>2. CASE n \notin 1..Len(lg)
    <3>1. lh[n].taps = e.taps /\ n \in Carried(e.tapDeliveries)
      BY <2>2 DEF Grown
    <3>2. l + 1 \in 1..(l + 1)
      BY <1>1
    <3> QED BY <1>1, <3>1, <3>2 DEF ReachedBy
  <2> QED BY <2>1, <2>2
<1>4. ASSUME NEW i \in DOMAIN F
      PROVE  /\ \A n \in Carried(F[i].tapDeliveries) : Known(lh, n)
             /\ \A n \in Carried(F[i].deliveries) : n \in 1..Len(lh) /\ ReachedBy(F, i, lh, sn, n)
  <2>1. CASE i = l + 1
    BY <1>1, <1>3, <2>1 DEF Grown
  <2>2. CASE i # l + 1
    <3>1. i \in 1..l /\ i \in DOMAIN E /\ F[i] = E[i] /\ i \in 0..l /\ i \in Nat /\ i <= i
      BY <1>1, <2>2
    <3>2. /\ \A n \in Carried(E[i].tapDeliveries) : Known(lg, n)
          /\ \A n \in Carried(E[i].deliveries) : n \in 1..Len(lg) /\ ReachedBy(E, i, lg, sn, n)
      BY <3>1 DEF EntriesSound
    <3>3. \A n : Known(lg, n) => Known(lh, n)
      BY DEF Known, Grown, LogIn
    <3>4. \A n \in 1..Len(lg) : n \in 1..Len(lh)
      BY DEF Grown, LogIn
    <3> QED BY <1>2, <3>1, <3>2, <3>3, <3>4
  <2> QED BY <2>1, <2>2
<1> QED BY <1>1, <1>3, <1>4 DEF EntriesSound, F

LEMMA GrownLanes ==
  ASSUME NEW st, NEW lg, NEW lh, NEW sn, LogIn(lg, lh), LanesSound(st, lg, sn), SeenSound(lg, sn)
  PROVE  LanesSound(st, lh, sn) /\ SeenSound(lh, sn)
  BY DEF LanesSound, SeenSound, LogIn, Reached, Known

(* What a dispatch does to everyone's lane.                                 *)
Promised(st, tt, E, F, y) ==
    \A s \in Subs :
        \/ /\ st.sub[s].status # "on" \/ y = << >>
           /\ tt.sub[s].status = st.sub[s].status /\ Lane(tt.sub[s], F, s) = Lane(st.sub[s], E, s)
        \/ /\ st.sub[s].status = "on" /\ y # << >>
           /\ tt.sub[s].status = "on" /\ Lane(tt.sub[s], F, s) = Lane(st.sub[s], E, s) \o y
        \/ /\ st.sub[s].status = "on" /\ y # << >>
           /\ tt.sub[s].status = "gone" /\ Lane(tt.sub[s], F, s) = << >>

NewEntry(st, x, y) ==
    [taps |-> ActiveTaps(st), tapDeliveries |-> x,
     subs |-> {s \in ActiveSubs(st) : y # << >> /\ HasRoom(st.sub[s], y)}, deliveries |-> y]
PreparedSubs(st, y, gated) ==
    [s \in Subs |-> IF y = << >> THEN st.sub[s] ELSE Prepared(st.sub[s], y, gated)]
WithEntry(st, x, y) ==
    [st EXCEPT !.queue = Append(@, NewEntry(st, x, y)), !.sub = PreparedSubs(st, y, TRUE),
               !.tap = [t \in Taps |-> IF t \in ActiveTaps(st) THEN AddPending(@[t]) ELSE @[t]]]
Without(st, y) == [st EXCEPT !.sub = PreparedSubs(st, y, FALSE)]

LEMMA NewEntryType ==
  ASSUME NEW st \in States, NEW x \in Seq(EventSeqs), NEW y \in Seq(EventSeqs)
  PROVE  /\ NewEntry(st, x, y) \in EntryType /\ NewEntry(st, x, y).taps = ActiveTaps(st)
         /\ NewEntry(st, x, y).tapDeliveries = x /\ NewEntry(st, x, y).deliveries = y
         /\ \A s \in Subs : s \in NewEntry(st, x, y).subs <=>
                               st.sub[s].status = "on" /\ y # << >> /\ HasRoom(st.sub[s], y)
  BY DEF NewEntry, EntryType, ActiveTaps, ActiveSubs

LEMMA EnqueuedIs ==
  ASSUME NEW st \in States, NEW x, NEW y
  PROVE  Enqueued(st, x, y) =
           IF ~TapWork(st, x) /\ ~SubWork(st, y) THEN st
           ELSE StartDispatches(IF Gated(st, x, y) THEN WithEntry(st, x, y) ELSE Without(st, y))
<1>1. CASE y = << >>
  <2>1. \A gated : PreparedSubs(st, y, gated) = st.sub
    BY <1>1 DEF PreparedSubs, States
  <2>2. Without(st, y) = st
    BY <2>1 DEF Without, States
  <2>3. WithEntry(st, x, y) =
          [st EXCEPT !.queue = Append(@, NewEntry(st, x, y)),
                     !.tap = [t \in Taps |-> IF t \in ActiveTaps(st) THEN AddPending(@[t]) ELSE @[t]]]
    BY <2>1 DEF WithEntry, States
  <2> QED BY <1>1, <2>2, <2>3 DEF Enqueued, NewEntry
<1>2. CASE y # << >>
  <2>1. \A gated : PreparedSubs(st, y, gated) = [s \in Subs |-> Prepared(st.sub[s], y, gated)]
    BY <1>2 DEF PreparedSubs
  <2> DEFINE p == [st EXCEPT !.sub = [s \in Subs |-> Prepared(st.sub[s], y, TRUE)]]
  <2>2. CASE Gated(st, x, y)
    <3>1. p.queue = st.queue /\ p.tap = st.tap
      BY DEF States
    <3>2. WithEntry(st, x, y) =
            [p EXCEPT !.queue = Append(@, NewEntry(st, x, y)),
                      !.tap = [t \in Taps |-> IF t \in ActiveTaps(st) THEN AddPending(@[t]) ELSE @[t]]]
      BY <2>1 DEF WithEntry, States
    <3> QED BY <1>2, <2>2, <3>2 DEF Enqueued, NewEntry
  <2>3. CASE ~Gated(st, x, y)
    <3>1. Without(st, y) = [st EXCEPT !.sub = [s \in Subs |-> Prepared(st.sub[s], y, FALSE)]]
      BY <2>1 DEF Without
    <3>2. Gated(st, x, y) = FALSE
      BY <2>3 DEF Gated
    <3>3. Without(st, y) = [st EXCEPT !.sub = [s \in Subs |-> Prepared(st.sub[s], y, Gated(st, x, y))]]
      BY <3>1, <3>2
    <3> QED BY <1>2, <2>3, <3>3 DEF Enqueued
  <2> QED BY <2>2, <2>3
<1> QED BY <1>1, <1>2

LEMMA AddPendingType ==
  ASSUME NEW r \in TapRecords
  PROVE  /\ AddPending(r) \in TapRecords /\ AddPending(r).pending = r.pending + 1
         /\ AddPending(r).status = r.status /\ r.pending \in Nat
  BY DEF AddPending, TapRecords

(* The dispatch is queued behind the others.                                *)
LEMMA WithEntryKeeps ==
  ASSUME NEW st \in States, NEW x \in Seq(EventSeqs), NEW y \in Seq(EventSeqs),
         NEW lg, NEW lh, NEW sn, Sound(st, EntriesOf(st), lg, sn),
         Grown(ActiveTaps(st), x, y, lg, lh)
  PROVE  /\ WithEntry(st, x, y) \in States
         /\ WithEntry(st, x, y).task = st.task /\ WithEntry(st, x, y).entry = st.entry
         /\ QueueSize(WithEntry(st, x, y)) = QueueSize(st) + 1
         /\ Sound(WithEntry(st, x, y), EntriesOf(WithEntry(st, x, y)), lh, sn)
         /\ Promised(st, WithEntry(st, x, y), EntriesOf(st), EntriesOf(WithEntry(st, x, y)), y)
<1> DEFINE e == NewEntry(st, x, y)
           E == EntriesOf(st)
           q == st.queue
           F == Append(E, e)
           f == PreparedSubs(st, y, TRUE)
           g == [t \in Taps |-> IF t \in ActiveTaps(st) THEN AddPending(st.tap[t]) ELSE st.tap[t]]
           r == WithEntry(st, x, y)
<1>1. /\ e \in EntryType /\ e.taps = ActiveTaps(st) /\ e.tapDeliveries = x /\ e.deliveries = y
      /\ \A s \in Subs : s \in e.subs <=> st.sub[s].status = "on" /\ y # << >> /\ HasRoom(st.sub[s], y)
  BY NewEntryType
<1>2. /\ q \in Seq(EntryType) /\ E \in Seq(EntryType) /\ st.entry \in EntryType
      /\ E = (IF st.task # "none" THEN <<st.entry>> ELSE << >>) \o q
      /\ QueueSize(st) = Len(E) /\ QueueSize(st) \in Nat
      /\ \A s \in Subs : st.sub[s] \in SubRecords
      /\ \A t \in Taps : st.tap[t] \in TapRecords
  BY StateTypes DEF EntriesOf
<1>3. r = [st EXCEPT !.queue = Append(q, e), !.sub = f, !.tap = g]
  BY DEF WithEntry
<1>4. Sound(st, E, lg, sn) /\ Grown(e.taps, e.tapDeliveries, e.deliveries, lg, lh)
  BY <1>1
<1> HIDE DEF e
<1>5. ASSUME NEW s \in Subs
      PROVE  /\ f[s] \in SubRecords /\ SubscriberSound(f[s], s, F)
             /\ InLane(f[s]) \subseteq InLane(st.sub[s])
             /\ \/ /\ st.sub[s].status # "on" \/ y = << >>
                   /\ f[s].status = st.sub[s].status /\ Lane(f[s], F, s) = Lane(st.sub[s], E, s)
                \/ /\ st.sub[s].status = "on" /\ y # << >>
                   /\ f[s].status = "on" /\ Lane(f[s], F, s) = Lane(st.sub[s], E, s) \o y
                \/ /\ st.sub[s].status = "on" /\ y # << >>
                   /\ f[s].status = "gone" /\ Lane(f[s], F, s) = << >>
  <2>1. f[s] = IF y = << >> THEN st.sub[s] ELSE Prepared(st.sub[s], y, TRUE)
    BY DEF PreparedSubs
  <2>2. st.sub[s] \in SubRecords /\ SubscriberSound(st.sub[s], s, E)
    BY <1>2, <1>4 DEF Sound
  <2> HIDE DEF f, E, F
  <2> DEFINE u == st.sub[s]
  <2> HIDE DEF u
  <2>3. CASE s \in e.subs
    <3>1. u.status = "on" /\ y # << >> /\ HasRoom(u, e.deliveries) /\ f[s] = Prepared(u, e.deliveries, TRUE)
      BY <1>1, <2>1, <2>3 DEF u
    <3>2. u \in SubRecords /\ SubscriberSound(u, s, E) /\ E \in Seq(EntryType)
      BY <1>2, <2>2 DEF u
    <3> DEFINE v == Prepared(u, e.deliveries, TRUE)
    <3>3. /\ v \in SubRecords /\ v.status = "on" /\ SubscriberSound(v, s, F)
          /\ InLane(v) = InLane(u) /\ Lane(v, F, s) = Lane(u, E, s) \o e.deliveries
      <4>1. e \in EntryType /\ u.status = "on" /\ HasRoom(u, e.deliveries)
        BY <1>1, <3>1
      <4> QED BY <2>3, <3>2, <4>1, ReservedSound DEF F
    <3>4. f[s] = v
      BY <3>1
    <3> HIDE DEF v
    <3> QED BY <1>1, <3>1, <3>3, <3>4 DEF u
  <2>4. CASE s \notin e.subs /\ u.status = "on" /\ y # << >>
    <3>1. ~HasRoom(u, y)
      BY <1>1, <2>4 DEF u
    <3>2. f[s] = Dropped
      BY <2>1, <2>4, <3>1 DEF u, Prepared, Dropped
    <3> QED BY <2>4, <3>2, DroppedSound DEF u
  <2>5. CASE s \notin e.subs /\ (u.status # "on" \/ y = << >>)
    <3>1. f[s] = u
      BY <2>1, <2>5 DEF u, Prepared
    <3>2. SubscriberSound(u, s, F) /\ Lane(u, F, s) = Lane(u, E, s)
      BY <1>1, <1>2, <2>2, <2>5, PassedBySound DEF F, u
    <3> QED BY <2>2, <2>5, <3>1, <3>2 DEF u
  <2> QED BY <2>3, <2>4, <2>5
<1>6. ASSUME NEW t \in Taps PROVE g[t] \in TapRecords /\ TapSound(g[t], t, F)
  <2>1. st.tap[t] \in TapRecords /\ TapSound(st.tap[t], t, E)
    BY <1>2, <1>4 DEF Sound
  <2>2. g[t] = IF t \in ActiveTaps(st) THEN AddPending(st.tap[t]) ELSE st.tap[t]
    OBVIOUS
  <2>3. t \in ActiveTaps(st) <=> st.tap[t].status = "on"
    BY DEF ActiveTaps
  <2> DEFINE u == st.tap[t]
             n == Cardinality(ForTap(E, t))
  <2> HIDE DEF g, u, F, E
  <2>4. n \in Nat /\ Cardinality(ForTap(F, t)) = n + (IF t \in e.taps THEN 1 ELSE 0)
    BY <1>1, <1>2, CountFinite, CountAppend DEF F
  <2>5. u.pending = n /\ u \in TapRecords /\ (t \in e.taps <=> u.status = "on")
    BY <1>1, <2>1, <2>3 DEF u, TapSound
  <2>6. \A v : TapSound(v, t, F) <=>
               v.pending = Cardinality(ForTap(F, t)) /\ (v.status = "leaving" => v.pending > 0)
                            /\ (v.status = "gone" => v.pending = 0)
    BY DEF TapSound
  <2> HIDE DEF n
  <2>7. CASE u.status = "on"
    <3>1. g[t] = AddPending(u)
      BY <2>2, <2>3, <2>7 DEF u
    <3>2. g[t] \in TapRecords /\ g[t].pending = n + 1 /\ g[t].status = "on"
      BY <2>5, <2>7, <3>1, AddPendingType
    <3>3. Cardinality(ForTap(F, t)) = n + 1
      BY <2>4, <2>5, <2>7
    <3> QED BY <2>6, <3>2, <3>3
  <2>8. CASE u.status # "on"
    <3>1. g[t] = u
      BY <2>2, <2>3, <2>8 DEF u
    <3>2. Cardinality(ForTap(F, t)) = n
      BY <2>4, <2>5, <2>8
    <3>3. (u.status = "leaving" => u.pending > 0) /\ (u.status = "gone" => u.pending = 0)
      BY <2>1 DEF u, TapSound
    <3> QED BY <2>5, <2>6, <3>1, <3>2, <3>3
  <2> QED BY <2>7, <2>8
<1>7. f \in [Subs -> SubRecords] /\ g \in [Taps -> TapRecords]
  <2>1. DOMAIN f = Subs /\ f = [s \in Subs |-> f[s]]
    BY DEF PreparedSubs
  <2>2. g = [t \in Taps |-> g[t]]
    OBVIOUS
  <2> HIDE DEF f, g
  <2> QED BY <1>5, <1>6, <2>1, <2>2
<1> DEFINE c == IF st.task # "none" THEN <<st.entry>> ELSE << >>
<1>8. Append(q, e) \in Seq(EntryType) /\ c \o Append(q, e) = F /\ Len(F) = Len(E) + 1
  <2>1. c \in Seq(EntryType)
    BY <1>2
  <2>2. E = c \o q
    BY <1>2
  <2> HIDE DEF c, E, q
  <2>3. c \o Append(q, e) = Append(c \o q, e)
    BY <1>1, <1>2, <2>1
  <2>4. Append(q, e) \in Seq(EntryType) /\ Len(Append(E, e)) = Len(E) + 1
    BY <1>1, <1>2
  <2> QED BY <2>2, <2>3, <2>4
<1> HIDE DEF f, g, r
<1>9. /\ r \in States /\ r.queue = Append(q, e) /\ r.sub = f /\ r.tap = g
      /\ r.task = st.task /\ r.entry = st.entry
  BY <1>3, <1>7, <1>8 DEF States
<1>10. EntriesOf(r) = F /\ QueueSize(r) = QueueSize(st) + 1
  <2>1. EntriesOf(r) = F
    BY <1>8, <1>9 DEF EntriesOf
  <2>2. QueueSize(r) = Len(F)
    BY <1>9, <2>1, StateTypes
  <2> QED BY <1>2, <1>8, <2>1, <2>2
<1> HIDE DEF c, E, F
<1>11. EntriesSound(F, lh, sn)
  <2>1. EntriesSound(E, lg, sn)
    BY <1>4 DEF Sound
  <2> QED BY <1>1, <1>2, <1>4, <2>1, EntriesGrow DEF F
<1>12. LanesSound(r, lh, sn) /\ SeenSound(lh, sn)
  <2>1. LanesSound(st, lh, sn) /\ SeenSound(lh, sn)
    BY <1>4, GrownLanes DEF Sound, Grown
  <2> QED BY <1>5, <1>9, <2>1 DEF LanesSound
<1>13. Sound(r, F, lh, sn)
  BY <1>5, <1>6, <1>9, <1>11, <1>12 DEF Sound
<1>14. Promised(st, r, E, F, y)
  BY <1>5, <1>9 DEF Promised
<1> QED BY <1>9, <1>10, <1>13, <1>14 DEF r, E

(* Nothing is under way, and no tap is called: the subscribers get it.      *)
LEMMA WithoutKeeps ==
  ASSUME NEW st \in States, NEW x \in Seq(EventSeqs), NEW y \in Seq(EventSeqs),
         NEW lg, NEW lh, NEW sn, Sound(st, EntriesOf(st), lg, sn),
         Grown(ActiveTaps(st), x, y, lg, lh),
         ~Gated(st, x, y), SubWork(st, y)
  PROVE  /\ Without(st, y) \in States
         /\ Without(st, y).task = st.task /\ Without(st, y).entry = st.entry
         /\ QueueSize(Without(st, y)) = QueueSize(st)
         /\ Sound(Without(st, y), EntriesOf(Without(st, y)), lh, sn)
         /\ Promised(st, Without(st, y), EntriesOf(st), EntriesOf(Without(st, y)), y)
<1> DEFINE f == PreparedSubs(st, y, FALSE)
           r == Without(st, y)
           E == EntriesOf(st)
<1>1. /\ y # << >> /\ ~(QueueSize(st) > 0) /\ ~TapWork(st, x)
  BY DEF Gated, SubWork
<1>2. E = << >> /\ st.task = "none" /\ st.queue = << >>
  <2>1. QueueSize(st) = Len(E) /\ QueueSize(st) \in Nat /\ E \in Seq(EntryType)
    BY StateTypes
  <2> HIDE DEF E
  <2>2. E = << >>
    BY <1>1, <2>1
  <2>3. st.task = "none"
    <3>1. st.queue \in Seq(EntryType) /\ Len(st.queue) \in Nat
      BY StateTypes
    <3>2. st.task # "none" => QueueSize(st) = Len(st.queue) + 1
      BY DEF QueueSize
    <3> QED BY <1>1, <3>1, <3>2
  <2> QED BY <2>2, <2>3, StateTypes DEF E
<1>3. ActiveTaps(st) = {} \/ Carried(x) = {}
  <2>1. ActiveTaps(st) = {} \/ x = << >>
    BY <1>1 DEF TapWork
  <2> QED BY <2>1, CarriedBy
<1>4. Sound(st, E, lg, sn) /\ LogIn(lg, lh)
  BY DEF Grown
<1> HIDE DEF E
<1>5. Sound(st, E, lh, sn)
  <2>1. \A n \in 1..Len(lh) : n \in 1..Len(lg) \/ lh[n].taps = {}
    BY <1>3 DEF Grown
  <2> QED BY <1>4, <2>1, LogGrows
<1>6. ASSUME NEW s \in Subs
      PROVE  /\ f[s] \in SubRecords /\ SubscriberSound(f[s], s, << >>)
             /\ InLane(f[s]) \subseteq InLane(st.sub[s]) \union Carried(y)
             /\ \/ /\ st.sub[s].status # "on" \/ y = << >>
                   /\ f[s].status = st.sub[s].status
                   /\ Lane(f[s], << >>, s) = Lane(st.sub[s], << >>, s)
                \/ /\ st.sub[s].status = "on" /\ y # << >>
                   /\ f[s].status = "on" /\ Lane(f[s], << >>, s) = Lane(st.sub[s], << >>, s) \o y
                \/ /\ st.sub[s].status = "on" /\ y # << >>
                   /\ f[s].status = "gone" /\ Lane(f[s], << >>, s) = << >>
  <2>1. f[s] = Prepared(st.sub[s], y, FALSE)
    BY <1>1 DEF PreparedSubs
  <2> DEFINE u == st.sub[s]
  <2>2. u \in SubRecords /\ SubscriberSound(u, s, << >>)
    BY <1>2, <1>5, StateTypes DEF Sound
  <2> HIDE DEF f, u
  <2>3. CASE u.status = "on" /\ HasRoom(u, y)
    <3>1. /\ f[s] \in SubRecords /\ f[s].status = "on" /\ SubscriberSound(f[s], s, << >>)
          /\ InLane(f[s]) = InLane(u) \union Carried(y)
          /\ Lane(f[s], << >>, s) = Lane(u, << >>, s) \o y
      BY <2>1, <2>2, <2>3, QueuedSound DEF u
    <3> QED BY <1>1, <2>3, <3>1 DEF u
  <2>4. CASE u.status = "on" /\ ~HasRoom(u, y)
    <3>1. f[s] = Dropped
      BY <2>1, <2>4 DEF u, Prepared, Dropped
    <3> QED BY <1>1, <2>4, <3>1, DroppedSound DEF u
  <2>5. CASE u.status # "on"
    <3>1. f[s] = u
      BY <2>1, <2>5 DEF u, Prepared
    <3> QED BY <2>2, <2>5, <3>1 DEF u
  <2> QED BY <2>3, <2>4, <2>5
<1>7. f \in [Subs -> SubRecords] /\ r = [st EXCEPT !.sub = f]
  <2>1. DOMAIN f = Subs /\ f = [s \in Subs |-> f[s]] /\ r = [st EXCEPT !.sub = f]
    BY DEF PreparedSubs, Without
  <2> HIDE DEF f
  <2> QED BY <1>6, <2>1
<1> HIDE DEF f, r
<1>8. /\ r \in States /\ r.queue = st.queue /\ r.sub = f /\ r.tap = st.tap
      /\ r.task = st.task /\ r.entry = st.entry
  BY <1>7 DEF States
<1>9. EntriesOf(r) = << >> /\ QueueSize(r) = QueueSize(st)
  <2>1. EntriesOf(r) = E /\ QueueSize(r) = QueueSize(st)
    BY <1>8 DEF EntriesOf, QueueSize, E
  <2> QED BY <1>2, <2>1
<1>10. LanesSound(r, lh, sn)
  <2>1. ASSUME NEW n \in Carried(y) PROVE n \in 1..Len(lh) /\ Reached(lh, sn, n)
    <3>1. n \in 1..Len(lh)
      BY DEF Grown
    <3>2. ReachedBy(<< >>, 0, lh, sn, n)
      <4>1. \A m \in 1..Len(lh) : ReachedBy(E, Len(E), lh, sn, m)
        BY <1>5 DEF Sound, EntriesSound
      <4>2. E = << >> /\ Len(E) = 0
        BY <1>2
      <4> QED BY <3>1, <4>1, <4>2
    <3> QED BY <3>1, <3>2 DEF ReachedBy, Reached
  <2>2. LanesSound(st, lh, sn)
    BY <1>5 DEF Sound
  <2> QED BY <1>6, <1>8, <2>1, <2>2 DEF LanesSound
<1>11. Sound(r, << >>, lh, sn)
  BY <1>2, <1>5, <1>6, <1>8, <1>10 DEF Sound
<1>12. Promised(st, r, << >>, << >>, y)
  BY <1>6, <1>8 DEF Promised
<1> QED BY <1>2, <1>8, <1>9, <1>11, <1>12 DEF r, E

(* A dispatch that is not refused keeps everything sound.                   *)
LEMMA EnqueueKeeps ==
  ASSUME NEW st \in States, NEW x \in Seq(EventSeqs), NEW y \in Seq(EventSeqs),
         NEW lg, NEW lh, NEW sn, Sound(st, EntriesOf(st), lg, sn),
         Grown(ActiveTaps(st), x, y, lg, lh), ~Refused(st, x, y), QueueSize(st) <= MaxQueue
  PROVE  /\ Enqueued(st, x, y) \in States
         /\ QueueSize(Enqueued(st, x, y)) <= MaxQueue
         /\ Sound(Enqueued(st, x, y), EntriesOf(Enqueued(st, x, y)), lh, sn)
         /\ Promised(st, Enqueued(st, x, y), EntriesOf(st), EntriesOf(Enqueued(st, x, y)), y)
         /\ Enqueued(st, x, y).task = "done" =>
              st.task = "done" /\ Enqueued(st, x, y).entry = st.entry
<1> DEFINE r == Enqueued(st, x, y)
           p == IF Gated(st, x, y) THEN WithEntry(st, x, y) ELSE Without(st, y)
<1>0. MaxQueue \in Nat /\ QueueSize(st) \in Nat
  BY EmitterAssumption, StateTypes
<1>1. r = IF ~TapWork(st, x) /\ ~SubWork(st, y) THEN st ELSE StartDispatches(p)
  BY EnqueuedIs
<1>2. CASE ~TapWork(st, x) /\ ~SubWork(st, y)
  <2>1. ActiveTaps(st) = {} \/ Carried(x) = {}
    BY <1>2, CarriedBy DEF TapWork
  <2>2. \A n \in 1..Len(lh) : n \in 1..Len(lg) \/ lh[n].taps = {}
    BY <2>1 DEF Grown
  <2>3. Sound(st, EntriesOf(st), lh, sn)
    BY <2>2, LogGrows DEF Grown
  <2>4. Promised(st, st, EntriesOf(st), EntriesOf(st), y)
    BY <1>2 DEF Promised, SubWork, ActiveSubs
  <2> QED BY <1>1, <1>2, <2>3, <2>4
<1>3. CASE TapWork(st, x) \/ SubWork(st, y)
  <2>1. /\ p \in States /\ p.task = st.task /\ p.entry = st.entry
        /\ QueueSize(p) <= MaxQueue
        /\ Sound(p, EntriesOf(p), lh, sn) /\ Promised(st, p, EntriesOf(st), EntriesOf(p), y)
    <3>1. CASE Gated(st, x, y)
      <4>1. QueueSize(st) + 1 <= MaxQueue
        BY <1>0, <3>1 DEF Refused
      <4> QED BY <3>1, <4>1, WithEntryKeeps
    <3>2. CASE ~Gated(st, x, y)
      <4>1. SubWork(st, y)
        BY <1>3, <3>2 DEF Gated
      <4> QED BY <3>2, <4>1, WithoutKeeps
    <3> QED BY <3>1, <3>2
  <2>2. r = StartDispatches(p)
    BY <1>1, <1>3
  <2> HIDE DEF p, r
  <2>3. Steps(p, r) /\ Sound(r, EntriesOf(r), lh, sn)
    BY <2>1, <2>2, StartKeeps
  <2>4. r \in States /\ QueueSize(r) <= QueueSize(p) /\ SameLanes(p, r, EntriesOf(p), EntriesOf(r))
    BY <2>3 DEF Steps
  <2>5. QueueSize(r) <= MaxQueue
    <3>1. QueueSize(p) \in Nat /\ QueueSize(r) \in Nat
      BY <2>1, <2>4, StateTypes
    <3> QED BY <1>0, <2>1, <2>4, <3>1
  <2>6. Promised(st, r, EntriesOf(st), EntriesOf(r), y)
    BY <2>1, <2>4 DEF Promised, SameLanes
  <2>7. r.task = "done" => st.task = "done" /\ r.entry = st.entry
    BY <2>1, <2>3 DEF Steps
  <2> QED BY <2>3, <2>4, <2>5, <2>6, <2>7 DEF r
<1> QED BY <1>2, <1>3

-----------------------------------------------------------------------------
(* The buffer.                                                              *)
LEMMA WaitingType ==
  ASSUME NEW b \in BufferType
  PROVE  /\ b.plain \in EventSeqs /\ b.upsert \in EventSeqs /\ b.chats \in EventSeqs
         /\ Len(b.plain) \in Nat /\ Len(b.upsert) \in Nat /\ Len(b.chats) \in Nat
         /\ SizeOf(b) \in Nat /\ WaitingIn(b) \subseteq Events
<1> DEFINE x == b.plain
           y == b.upsert
           z == b.chats
<1>1. x \in Seq(Events) /\ y \in Seq(Events) /\ z \in Seq(Events)
  BY DEF BufferType, EventSeqs
<1>2. SizeOf(b) = Len(x) + Len(y) + Len(z) /\ WaitingIn(b) = ToSet(x) \union ToSet(y) \union ToSet(z)
  BY DEF SizeOf, WaitingIn
<1> HIDE DEF x, y, z
<1>3. Len(x) \in Nat /\ Len(y) \in Nat /\ Len(z) \in Nat
  BY <1>1
<1>4. ToSet(x) \subseteq Events /\ ToSet(y) \subseteq Events /\ ToSet(z) \subseteq Events
  BY <1>1, ToSetSimple
<1>5. SizeOf(b) \in Nat
  BY <1>2, <1>3
<1>6. WaitingIn(b) \subseteq Events
  BY <1>2, <1>4
<1> QED BY <1>1, <1>3, <1>5, <1>6 DEF x, y, z, EventSeqs

LEMMA EmptyBuffer ==
  /\ << >> \in EventSeqs /\ NothingBuffered \in BufferType
  /\ WaitingIn(NothingBuffered) = {} /\ SizeOf(NothingBuffered) = 0
<1>1. << >> \in EventSeqs /\ ToSet(<< >>) = {} /\ Len(<< >>) = 0
  BY DEF EventSeqs, ToSet
<1> DEFINE b == NothingBuffered
<1>2. b.plain = << >> /\ b.upsert = << >> /\ b.chats = << >> /\ b \in BufferType
  BY <1>1 DEF NothingBuffered, BufferType
<1> QED BY <1>1, <1>2 DEF WaitingIn, SizeOf

(* The kinds of events; one more is buffered.                               *)
LEMMA Buffers ==
  ASSUME NEW b \in BufferType, NEW kind \in Kinds, kind # "direct", NEW n \in Events
  PROVE  /\ Buffered(b, kind, n) \in BufferType
         /\ WaitingIn(Buffered(b, kind, n)) \subseteq WaitingIn(b) \union {n}
         /\ n \in WaitingIn(Buffered(b, kind, n))
         /\ SizeOf(Buffered(b, kind, n)) <= SizeOf(b) + 1
         /\ \A m \in WaitingIn(b) :
               m \in WaitingIn(Buffered(b, kind, n)) \/ (kind = "plain" /\ m \in ToSet(b.plain))
         /\ \/ ToSet(Buffered(b, kind, n).plain) = ToSet(b.plain)
            \/ kind = "plain" /\ ToSet(Buffered(b, kind, n).plain) = {n}
<1> DEFINE x == b.plain
           y == b.upsert
           z == b.chats
           r == Buffered(b, kind, n)
<1>1. /\ x \in EventSeqs /\ y \in EventSeqs /\ z \in EventSeqs
      /\ Len(x) \in Nat /\ Len(y) \in Nat /\ Len(z) \in Nat
  BY WaitingType
<1>2. SizeOf(b) = Len(x) + Len(y) + Len(z) /\ WaitingIn(b) = ToSet(x) \union ToSet(y) \union ToSet(z)
  BY DEF SizeOf, WaitingIn
<1>3. \A s \in EventSeqs : /\ Append(s, n) \in EventSeqs /\ Len(Append(s, n)) = Len(s) + 1
                           /\ ToSet(Append(s, n)) = ToSet(s) \union {n}
  BY ToSetAppend DEF EventSeqs
<1>4. <<n>> \in EventSeqs /\ Len(<<n>>) = 1 /\ ToSet(<<n>>) = {n}
  BY DEF EventSeqs, ToSet
<1>5. CASE Upsert(kind)
  <2>1. r = [b EXCEPT !.upsert = Append(y, n)]
    BY <1>5 DEF Buffered
  <2>2. r \in BufferType /\ r.plain = x /\ r.upsert = Append(y, n) /\ r.chats = z
    BY <1>1, <1>3, <2>1 DEF BufferType
  <2> HIDE DEF r, x, y, z
  <2>3. SizeOf(r) = Len(x) + (Len(y) + 1) + Len(z)
    BY <1>1, <1>3, <2>2 DEF SizeOf
  <2>4. WaitingIn(r) = ToSet(x) \union (ToSet(y) \union {n}) \union ToSet(z)
    BY <1>1, <1>3, <2>2 DEF WaitingIn
  <2>5. ToSet(r.plain) = ToSet(b.plain)
    BY <2>2 DEF x
  <2> QED BY <1>1, <1>2, <2>2, <2>3, <2>4, <2>5 DEF r
<1>6. CASE ~Upsert(kind) /\ kind \in {"chats", "held"}
  <2>1. r = [b EXCEPT !.chats = Append(z, n)]
    BY <1>6 DEF Buffered
  <2>2. r \in BufferType /\ r.plain = x /\ r.upsert = y /\ r.chats = Append(z, n)
    BY <1>1, <1>3, <2>1 DEF BufferType
  <2> HIDE DEF r, x, y, z
  <2>3. SizeOf(r) = Len(x) + Len(y) + (Len(z) + 1)
    BY <1>1, <1>3, <2>2 DEF SizeOf
  <2>4. WaitingIn(r) = ToSet(x) \union ToSet(y) \union (ToSet(z) \union {n})
    BY <1>1, <1>3, <2>2 DEF WaitingIn
  <2>5. ToSet(r.plain) = ToSet(b.plain)
    BY <2>2 DEF x
  <2> QED BY <1>1, <1>2, <2>2, <2>3, <2>4, <2>5 DEF r
<1>7. CASE ~Upsert(kind) /\ kind \notin {"chats", "held"}
  <2>1. r = [b EXCEPT !.plain = <<n>>]
    BY <1>7 DEF Buffered
  <2>2. r \in BufferType /\ r.plain = <<n>> /\ r.upsert = y /\ r.chats = z
    BY <1>1, <1>4, <2>1 DEF BufferType
  <2>0. kind = "plain"
    BY <1>7, EmitterAssumption DEF Upsert
  <2> HIDE DEF r, x, y, z
  <2>3. SizeOf(r) = 1 + Len(y) + Len(z)
    BY <1>4, <2>2 DEF SizeOf
  <2>4. WaitingIn(r) = {n} \union ToSet(y) \union ToSet(z)
    BY <1>4, <2>2 DEF WaitingIn
  <2>5. ToSet(r.plain) = {n} /\ ToSet(b.plain) = ToSet(x)
    BY <1>4, <2>2 DEF x
  <2> QED BY <1>1, <1>2, <2>0, <2>2, <2>3, <2>4, <2>5 DEF r
<1> QED BY <1>5, <1>6, <1>7

LEMMA Joined ==
  ASSUME NEW s \in Seq(Events), NEW t \in Seq(Events)
  PROVE  /\ s \o t \in Seq(Events) /\ Len(s \o t) = Len(s) + Len(t)
         /\ ToSet(s \o t) = ToSet(s) \union ToSet(t)
<1>1. s \o t \in Seq(Events) /\ Len(s \o t) = Len(s) + Len(t)
  OBVIOUS
<1> QED BY <1>1, ToSetConcat

(* What a flush hands on, drops and keeps.                                  *)
LEMMA Flushes ==
  ASSUME buffered \in BufferType, seed \in {"unset", "true", "false"}
  PROVE  /\ Payload \in EventSeqs /\ Len(Payload) <= SizeOf(buffered)
         /\ FlushDeliveries \in Seq(EventSeqs)
         /\ FlushDeliveries = << >> \/ (Payload # << >> /\ FlushDeliveries = <<Payload>>)
         /\ Carried(FlushDeliveries) \subseteq WaitingIn(buffered)
         /\ KeptByFlush \in BufferType /\ SizeOf(KeptByFlush) <= SizeOf(buffered)
         /\ GoneByFlush \union WaitingIn(KeptByFlush) = WaitingIn(buffered)
         /\ ToSet(KeptByFlush.plain) = {}
<1> DEFINE x == buffered.plain
           y == buffered.upsert
           z == buffered.chats
           c(v) == ChatsThat(v)
<1>1. /\ x \in EventSeqs /\ y \in EventSeqs /\ z \in EventSeqs
      /\ Len(x) \in Nat /\ Len(y) \in Nat /\ Len(z) \in Nat
  BY WaitingType
<1>2. SizeOf(buffered) = Len(x) + Len(y) + Len(z) /\ WaitingIn(buffered) = ToSet(x) \union ToSet(y) \union ToSet(z)
  BY DEF SizeOf, WaitingIn
<1>3. \A v : /\ c(v) \in EventSeqs /\ Len(c(v)) <= Len(z)
             /\ ToSet(c(v)) = {n \in ToSet(z) : Verdict(n) = v}
  BY <1>1, Chosen
<1>4. \A n : Verdict(n) \in {"true", "unset", "false"}
  BY DEF Verdict
<1>5. ToSet(c("true")) \union ToSet(c("false")) \union ToSet(c("unset")) = ToSet(z)
  BY <1>3, <1>4
<1> DEFINE f == c("true")
           u == c("unset")
<1>6. /\ f \in EventSeqs /\ Len(f) <= Len(z) /\ ToSet(f) \subseteq ToSet(z)
      /\ u \in EventSeqs /\ Len(u) <= Len(z)
  BY <1>3
<1> HIDE DEF x, y, z, c, f, u
<1>7. /\ x \o y \o f \in EventSeqs /\ Len(x \o y \o f) = Len(x) + Len(y) + Len(f)
      /\ ToSet(x \o y \o f) = ToSet(x) \union ToSet(y) \union ToSet(f) /\ Len(f) \in Nat
  <2>1. x \in Seq(Events) /\ y \in Seq(Events) /\ f \in Seq(Events)
    BY <1>1, <1>6 DEF EventSeqs
  <2> DEFINE w == x \o y
  <2>2. w \in Seq(Events) /\ Len(w) = Len(x) + Len(y) /\ ToSet(w) = ToSet(x) \union ToSet(y)
    BY <2>1, Joined
  <2>3. x \o y \o f = w \o f
    OBVIOUS
  <2> HIDE DEF w
  <2>4. /\ w \o f \in Seq(Events) /\ Len(w \o f) = Len(w) + Len(f)
        /\ ToSet(w \o f) = ToSet(w) \union ToSet(f)
    BY <2>1, <2>2, Joined
  <2>5. Len(f) \in Nat
    BY <2>1
  <2> QED BY <2>2, <2>3, <2>4, <2>5 DEF EventSeqs
<1>8. Payload = x \o y \o f
  BY DEF Payload, x, y, f, c
<1>9. Payload \in EventSeqs /\ Len(Payload) <= SizeOf(buffered)
  BY <1>1, <1>2, <1>6, <1>7, <1>8
<1>10. ToSet(Payload) = ToSet(x) \union ToSet(y) \union ToSet(f)
  BY <1>7, <1>8
<1>11. FlushDeliveries = IF Payload = << >> THEN << >> ELSE <<Payload>>
  BY DEF FlushDeliveries
<1> DEFINE p == Payload
<1> HIDE DEF p
<1>12. p \in EventSeqs /\ FlushDeliveries = (IF p = << >> THEN << >> ELSE <<p>>)
  BY <1>9, <1>11 DEF p
<1>13. /\ FlushDeliveries \in Seq(EventSeqs)
       /\ Carried(FlushDeliveries) \subseteq ToSet(p)
  <2>1. << >> \in Seq(EventSeqs) /\ <<p>> \in Seq(EventSeqs)
    BY <1>12
  <2>2. Carried(<< >>) = {} /\ Carried(<<p>>) = ToSet(p)
    BY <2>1, CarriedBy
  <2> QED BY <1>12, <2>1, <2>2
<1> DEFINE b == KeptByFlush
<1>14. b.plain = << >> /\ b.upsert = << >> /\ b.chats = u /\ b \in BufferType
  <2>1. << >> \in EventSeqs
    BY EmptyBuffer
  <2>2. b = [upsert |-> << >>, chats |-> u, plain |-> << >>]
    BY DEF KeptByFlush, NothingBuffered, u, c
  <2> HIDE DEF b
  <2> QED BY <1>6, <2>1, <2>2 DEF BufferType
<1> HIDE DEF b
<1>15. SizeOf(b) <= SizeOf(buffered)
  <2>1. SizeOf(b) = Len(<< >>) + Len(<< >>) + Len(u)
    BY <1>14 DEF SizeOf
  <2>2. Len(u) \in Nat
    BY <1>6 DEF EventSeqs
  <2>3. Len(<< >>) = 0
    OBVIOUS
  <2> QED BY <1>1, <1>2, <1>6, <2>1, <2>2, <2>3
<1>16. WaitingIn(b) = ToSet(u) /\ ToSet(b.plain) = {}
  <2>1. ToSet(<< >>) = {}
    BY DEF ToSet
  <2> QED BY <1>14, <2>1 DEF WaitingIn
<1>17. GoneByFlush = ToSet(Payload) \union ToSet(c("false"))
  BY DEF GoneByFlush, c
<1>18. GoneByFlush \union WaitingIn(b) = WaitingIn(buffered)
  BY <1>2, <1>5, <1>10, <1>16, <1>17 DEF f, u
<1> QED BY <1>2, <1>6, <1>9, <1>10, <1>11, <1>13, <1>14, <1>15, <1>16, <1>18 DEF p, b

-----------------------------------------------------------------------------
(* What a step does to the dispatcher.                                      *)
LEMMA SoundParts ==
  ASSUME NEW st, NEW lg, NEW sn, DispatchSound(st, lg, sn)
  PROVE  /\ st \in States /\ QueueSize(st) <= MaxQueue /\ QueueSize(st) \in Nat /\ MaxQueue \in Nat
         /\ Sound(st, EntriesOf(st), lg, sn) /\ TaskSound(st, sn)
         /\ EntriesOf(st) \in Seq(EntryType)
         /\ \A s \in Subs : /\ st.sub[s] \in SubRecords
                            /\ SubscriberSound(st.sub[s], s, EntriesOf(st))
         /\ \A t \in Taps : st.tap[t] \in TapRecords /\ TapSound(st.tap[t], t, EntriesOf(st))
<1>1. st \in States /\ QueueSize(st) <= MaxQueue /\ Sound(st, EntriesOf(st), lg, sn) /\ TaskSound(st, sn)
  BY DEF DispatchSound
<1> QED BY <1>1, StateTypes, EmitterAssumption DEF Sound

(* Dispatches are started.                                                  *)
LEMMA RestartKeeps ==
  ASSUME NEW st, NEW lg, NEW sn, DispatchSound(st, lg, sn)
  PROVE  /\ DispatchSound(StartDispatches(st), lg, sn)
         /\ SameLanes(st, StartDispatches(st), EntriesOf(st), EntriesOf(StartDispatches(st)))
<1> DEFINE r == StartDispatches(st)
<1>1. /\ st \in States /\ QueueSize(st) <= MaxQueue /\ QueueSize(st) \in Nat /\ MaxQueue \in Nat
      /\ Sound(st, EntriesOf(st), lg, sn) /\ TaskSound(st, sn)
  BY SoundParts
<1>2. Steps(st, r) /\ Sound(r, EntriesOf(r), lg, sn)
  BY <1>1, StartKeeps
<1> HIDE DEF r
<1>3. /\ r \in States /\ QueueSize(r) <= QueueSize(st)
      /\ SameLanes(st, r, EntriesOf(st), EntriesOf(r))
      /\ r.task = "done" => st.task = "done" /\ r.entry = st.entry
  BY <1>2 DEF Steps
<1>4. QueueSize(r) <= MaxQueue
  <2>1. QueueSize(r) \in Nat
    BY <1>3, StateTypes
  <2> QED BY <1>1, <1>3, <2>1
<1>5. TaskSound(r, sn)
  BY <1>1, <1>3 DEF TaskSound
<1> QED BY <1>2, <1>3, <1>4, <1>5 DEF DispatchSound, r

(* A dispatch that is not refused.                                          *)
LEMMA DispatchKeeps ==
  ASSUME NEW st, NEW x \in Seq(EventSeqs), NEW y \in Seq(EventSeqs),
         NEW lg, NEW lh, NEW sn, DispatchSound(st, lg, sn),
         Grown(ActiveTaps(st), x, y, lg, lh), ~Refused(st, x, y)
  PROVE  /\ DispatchSound(Enqueued(st, x, y), lh, sn)
         /\ Promised(st, Enqueued(st, x, y), EntriesOf(st), EntriesOf(Enqueued(st, x, y)), y)
<1> DEFINE r == Enqueued(st, x, y)
<1>1. /\ st \in States /\ QueueSize(st) <= MaxQueue
      /\ Sound(st, EntriesOf(st), lg, sn) /\ TaskSound(st, sn)
  BY SoundParts
<1>2. /\ r \in States /\ QueueSize(r) <= MaxQueue /\ Sound(r, EntriesOf(r), lh, sn)
      /\ Promised(st, r, EntriesOf(st), EntriesOf(r), y)
      /\ r.task = "done" => st.task = "done" /\ r.entry = st.entry
  BY <1>1, EnqueueKeeps
<1> HIDE DEF r
<1>3. TaskSound(r, sn)
  BY <1>1, <1>2 DEF TaskSound
<1> QED BY <1>2, <1>3 DEF DispatchSound, r

(* A refused emission.                                                      *)
LEMMA LogKeeps ==
  ASSUME NEW st, NEW lg, NEW lh, NEW sn, DispatchSound(st, lg, sn), LogIn(lg, lh),
         \A n \in 1..Len(lh) : n \in 1..Len(lg) \/ lh[n].taps = {}
  PROVE  DispatchSound(st, lh, sn)
<1>1. Sound(st, EntriesOf(st), lh, sn)
  BY SoundParts, LogGrows
<1> QED BY <1>1, SoundParts DEF DispatchSound

LEMMA SameEntries ==
  ASSUME NEW st, NEW tt, tt.queue = st.queue, tt.task = st.task, tt.entry = st.entry
  PROVE  EntriesOf(tt) = EntriesOf(st) /\ QueueSize(tt) = QueueSize(st)
  BY DEF EntriesOf, QueueSize

SetSub(st, s, r) == [st EXCEPT !.sub[s] = r]
SetTap(st, t, r) == [st EXCEPT !.tap[t] = r]

(* The record of one subscriber, or of one tap, changes.                    *)
LEMMA OneSubscriber ==
  ASSUME NEW st, NEW lg, NEW sn, DispatchSound(st, lg, sn), NEW s \in Subs, NEW r \in SubRecords,
         SubscriberSound(r, s, EntriesOf(st)), InLane(r) \subseteq InLane(st.sub[s]),
         NEW tt, tt = SetSub(st, s, r)
  PROVE  /\ DispatchSound(tt, lg, sn)
         /\ EntriesOf(tt) = EntriesOf(st)
         /\ tt.sub[s] = r
         /\ \A u \in Subs \ {s} : tt.sub[u] = st.sub[u]
<1> DEFINE E == EntriesOf(st)
<1>1. /\ st \in States /\ Sound(st, E, lg, sn)
      /\ \A u \in Subs : SubscriberSound(st.sub[u], u, E)
  BY SoundParts
<1>2. /\ tt \in States /\ tt.queue = st.queue /\ tt.task = st.task /\ tt.entry = st.entry
      /\ tt.tap = st.tap /\ tt.sub[s] = r /\ \A u \in Subs \ {s} : tt.sub[u] = st.sub[u]
  BY <1>1 DEF States, SetSub
<1>3. EntriesOf(tt) = E /\ QueueSize(tt) = QueueSize(st)
  BY <1>2, SameEntries
<1> HIDE DEF E
<1>4. Sound(tt, E, lg, sn)
  <2>1. SubscriberSound(r, s, E) /\ InLane(r) \subseteq InLane(st.sub[s])
    BY DEF E
  <2>2. \A u \in Subs : SubscriberSound(tt.sub[u], u, E) /\ InLane(tt.sub[u]) \subseteq InLane(st.sub[u])
    BY <1>1, <1>2, <2>1
  <2> QED BY <1>1, <1>2, <2>2, SubsChange
<1>5. TaskSound(tt, sn)
  BY <1>2, SoundParts DEF TaskSound
<1>6. DispatchSound(tt, lg, sn)
  BY <1>2, <1>3, <1>4, <1>5, SoundParts DEF DispatchSound
<1> QED BY <1>2, <1>3, <1>6 DEF E

LEMMA OneTap ==
  ASSUME NEW st, NEW lg, NEW sn, DispatchSound(st, lg, sn), NEW t \in Taps, NEW r \in TapRecords,
         TapSound(r, t, EntriesOf(st)),
         NEW tt, tt = SetTap(st, t, r)
  PROVE  /\ DispatchSound(tt, lg, sn)
         /\ EntriesOf(tt) = EntriesOf(st)
         /\ tt.sub = st.sub
<1> DEFINE E == EntriesOf(st)
<1>1. st \in States /\ Sound(st, E, lg, sn)
  BY SoundParts
<1>2. /\ tt \in States /\ tt.queue = st.queue /\ tt.task = st.task /\ tt.entry = st.entry
      /\ tt.sub = st.sub /\ tt.tap[t] = r /\ \A u \in Taps \ {t} : tt.tap[u] = st.tap[u]
  BY <1>1 DEF States, SetTap
<1>3. EntriesOf(tt) = E /\ QueueSize(tt) = QueueSize(st)
  BY <1>2, SameEntries
<1> HIDE DEF E
<1>4. Sound(tt, E, lg, sn)
  <2>1. \A u \in Taps : TapSound(tt.tap[u], u, E)
    BY <1>1, <1>2 DEF E, Sound
  <2>2. LanesSound(tt, lg, sn)
    BY <1>1, <1>2 DEF Sound, LanesSound
  <2> QED BY <1>1, <1>2, <2>1, <2>2 DEF Sound
<1>5. TaskSound(tt, sn)
  BY <1>2, SoundParts DEF TaskSound
<1>6. DispatchSound(tt, lg, sn)
  BY <1>2, <1>3, <1>4, <1>5, SoundParts DEF DispatchSound
<1> QED BY <1>2, <1>3, <1>6 DEF E

(* The dispatcher's own task changes: nobody's record does.                 *)
LEMMA TaskChange ==
  ASSUME NEW st, NEW lg, NEW sn, DispatchSound(st, lg, sn), NEW tt \in States,
         tt.sub = st.sub, tt.tap = st.tap, EntriesOf(tt) = EntriesOf(st), TaskSound(tt, sn)
  PROVE  DispatchSound(tt, lg, sn) /\ SameLanes(st, tt, EntriesOf(st), EntriesOf(tt))
<1>1. Sound(tt, EntriesOf(tt), lg, sn)
  BY SoundParts, SoundSame
<1>2. QueueSize(tt) = QueueSize(st)
  BY StateTypes, SoundParts
<1>3. SameLanes(st, tt, EntriesOf(st), EntriesOf(tt))
  BY DEF SameLanes
<1> QED BY <1>1, <1>2, <1>3, SoundParts DEF DispatchSound

-----------------------------------------------------------------------------
(* The results and the deaths of tasks.                                     *)
LEMMA NoEntryType == NoEntry \in EntryType
<1>1. << >> \in Seq(EventSeqs)
  OBVIOUS
<1> QED BY <1>1 DEF NoEntry, EntryType

LEMMA CompleteTapsKeeps ==
  ASSUME NEW st, NEW lg, NEW sn, DispatchSound(st, lg, sn), st.task = "done", NEW tt,
         tt = StartDispatches([ReleaseTo(ReleaseTaps(st, st.entry.taps), st.entry)
                                 EXCEPT !.task = "none", !.entry = NoEntry])
  PROVE  DispatchSound(tt, lg, sn) /\ SameLanes(st, tt, EntriesOf(st), EntriesOf(tt))
<1> DEFINE e == st.entry
           q == st.queue
           r == ReleaseTo(ReleaseTaps(st, e.taps), e)
           p == [r EXCEPT !.task = "none", !.entry = NoEntry]
<1>1. /\ st \in States /\ e \in EntryType /\ q \in Seq(EntryType) /\ Len(q) \in Nat
      /\ Sound(st, EntriesOf(st), lg, sn) /\ EntriesOf(st) = <<e>> \o q
      /\ \A t \in e.taps : Carried(e.tapDeliveries) \subseteq sn[t]
  BY SoundParts, StateTypes DEF TaskSound
<1>2. /\ r \in States /\ r.queue = q /\ Sound(r, q, lg, sn)
      /\ SameLanes(st, r, <<e>> \o q, q)
  <2> HIDE DEF e, q
  <2>1. Sound(st, <<e>> \o q, lg, sn)
    BY <1>1
  <2> QED BY <1>1, <2>1, ReleaseKeeps DEF q
<1> HIDE DEF r
<1>3. /\ p \in States /\ p.queue = q /\ p.task = "none" /\ p.sub = r.sub /\ p.tap = r.tap
  BY <1>2, NoEntryType DEF States, TaskStates
<1>4. tt = StartDispatches(p)
  BY DEF r
<1> HIDE DEF p
<1>5. EntriesOf(p) = q /\ QueueSize(p) = Len(q) /\ QueueSize(st) = Len(q) + 1
  <2>1. EntriesOf(p) = q
    BY <1>3, StateTypes
  <2>2. QueueSize(p) = Len(q) /\ QueueSize(st) = Len(q) + 1
    BY <1>1, <1>3 DEF QueueSize
  <2> QED BY <2>1, <2>2
<1>6. DispatchSound(p, lg, sn)
  <2>1. Sound(p, EntriesOf(p), lg, sn)
    BY <1>2, <1>3, <1>5, SoundSame
  <2>2. TaskSound(p, sn)
    BY <1>3 DEF TaskSound
  <2>3. QueueSize(p) <= MaxQueue
    BY <1>1, <1>5, SoundParts
  <2> QED BY <1>3, <2>1, <2>2, <2>3 DEF DispatchSound
<1>7. SameLanes(st, p, EntriesOf(st), EntriesOf(p))
  BY <1>1, <1>2, <1>3, <1>5 DEF SameLanes
<1>8. DispatchSound(tt, lg, sn) /\ SameLanes(p, tt, EntriesOf(p), EntriesOf(tt))
  BY <1>4, <1>6, RestartKeeps
<1> QED BY <1>7, <1>8 DEF SameLanes

LEMMA FailTapsKeeps ==
  ASSUME NEW st, NEW lg, NEW sn, DispatchSound(st, lg, sn), st.task = "down", NEW tt,
         tt = StartDispatches([st EXCEPT !.queue = <<st.entry>> \o @, !.task = "none",
                                         !.entry = NoEntry])
  PROVE  DispatchSound(tt, lg, sn) /\ SameLanes(st, tt, EntriesOf(st), EntriesOf(tt))
<1> DEFINE e == st.entry
           q == st.queue
           w == <<e>> \o q
           p == [st EXCEPT !.queue = w, !.task = "none", !.entry = NoEntry]
<1>1. /\ st \in States /\ e \in EntryType /\ q \in Seq(EntryType)
      /\ EntriesOf(st) = <<e>> \o q
  BY SoundParts, StateTypes
<1>2. w \in Seq(EntryType)
  <2> HIDE DEF e, q
  <2> QED BY <1>1
<1>3. EntriesOf(st) = w /\ tt = StartDispatches(p)
  BY <1>1
<1> HIDE DEF w
<1>4. p \in States /\ p.queue = w /\ p.task = "none" /\ p.sub = st.sub /\ p.tap = st.tap
  BY <1>1, <1>2, NoEntryType DEF States, TaskStates
<1> HIDE DEF p
<1>5. EntriesOf(p) = EntriesOf(st) /\ TaskSound(p, sn)
  BY <1>3, <1>4, StateTypes DEF TaskSound
<1>6. DispatchSound(p, lg, sn) /\ SameLanes(st, p, EntriesOf(st), EntriesOf(p))
  BY <1>4, <1>5, TaskChange
<1>7. DispatchSound(tt, lg, sn) /\ SameLanes(p, tt, EntriesOf(p), EntriesOf(tt))
  BY <1>3, <1>6, RestartKeeps
<1> QED BY <1>6, <1>7 DEF SameLanes

LEMMA RetryKeeps ==
  ASSUME NEW st, NEW lg, NEW sn, DispatchSound(st, lg, sn), NEW tt,
         tt = StartDispatches([st EXCEPT !.retry = FALSE])
  PROVE  DispatchSound(tt, lg, sn) /\ SameLanes(st, tt, EntriesOf(st), EntriesOf(tt))
<1> DEFINE p == [st EXCEPT !.retry = FALSE]
<1>1. /\ p \in States /\ p.queue = st.queue /\ p.task = st.task /\ p.entry = st.entry
      /\ p.sub = st.sub /\ p.tap = st.tap
  <2>1. st \in States
    BY SoundParts
  <2> QED BY <2>1 DEF States
<1> HIDE DEF p
<1>2. EntriesOf(p) = EntriesOf(st) /\ TaskSound(p, sn)
  BY <1>1, SoundParts DEF EntriesOf, TaskSound
<1>3. DispatchSound(p, lg, sn) /\ SameLanes(st, p, EntriesOf(st), EntriesOf(p))
  BY <1>1, <1>2, TaskChange
<1>4. DispatchSound(tt, lg, sn) /\ SameLanes(p, tt, EntriesOf(p), EntriesOf(tt))
  BY <1>3, RestartKeeps DEF p
<1> QED BY <1>3, <1>4 DEF SameLanes

(* A subscriber's task is done, or is dead and will be run again.           *)
Rested(r) == [r EXCEPT !.task = "none", !.entry = << >>]

LEMMA DoneSubscriber ==
  ASSUME NEW r \in SubRecords, NEW s \in Subs, NEW E \in Seq(EntryType),
         SubscriberSound(r, s, E), r.task = "done"
  PROVE  /\ RemoveIfDone(Rested(r)) \in SubRecords
         /\ SubscriberSound(RemoveIfDone(Rested(r)), s, E)
         /\ InLane(RemoveIfDone(Rested(r))) \subseteq InLane(r)
         /\ RemoveIfDone(Rested(r)).status = "on" <=> r.status = "on"
         /\ RemoveIfDone(Rested(r)).status # "new"
         /\ r.entry \in EventSeqs /\ Lane(RemoveIfDone(Rested(r)), E, s) \in Seq(EventSeqs)
         /\ Lane(r, E, s) = <<r.entry>> \o Lane(RemoveIfDone(Rested(r)), E, s)
<1> DEFINE q == r.queue
           h == GatedIn(E, s)
           u == Rested(r)
           v == RemoveIfDone(u)
<1>1. /\ q \in Seq(EventSeqs) /\ Len(q) \in Nat /\ (q = << >> <=> Len(q) = 0) /\ r.reserved \in Nat
      /\ h \in Seq(EventSeqs) /\ r.entry \in EventSeqs
  BY SizeType, GatedTypes
<1>2. Registered(r) /\ r.reserved = Len(h)
  BY DEF SubscriberSound
<1>3. << >> \in EventSeqs
  BY DEF EventSeqs
<1>4. /\ u \in SubRecords /\ u.status = r.status /\ u.reserved = r.reserved /\ u.queue = q
      /\ u.task = "none" /\ u.entry = << >>
  BY <1>3 DEF Rested, SubRecords, TaskStates
<1>5. SubscriberSize(u) = Len(q) + r.reserved /\ SubscriberSize(r) = Len(q) + r.reserved + 1
  BY <1>1, <1>4 DEF SubscriberSize
<1>6. Lane(r, E, s) = <<r.entry>> \o q \o h
  BY <1>2 DEF Lane
<1>7. <<r.entry>> \o q \o h = <<r.entry>> \o (q \o h) /\ q \o h \in Seq(EventSeqs)
  <2> DEFINE x == r.entry
  <2> HIDE DEF q, h, x
  <2>1. x \in EventSeqs /\ q \in Seq(EventSeqs) /\ h \in Seq(EventSeqs)
    BY <1>1 DEF x
  <2>2. <<x>> \o q \o h = <<x>> \o (q \o h) /\ q \o h \in Seq(EventSeqs)
    BY <2>1
  <2> QED BY <2>2 DEF x
<1>8. Carried(q) \subseteq InLane(r)
  BY DEF InLane
<1>9. ToSet(<< >>) = {}
  BY DEF ToSet
<1> HIDE DEF u
<1>10. CASE r.status = "leaving" /\ SubscriberSize(u) = 0
  <2>1. v = Dropped
    BY <1>4, <1>10 DEF RemoveIfDone, Dropped
  <2>2. q = << >> /\ Len(h) = 0
    BY <1>1, <1>2, <1>5, <1>10
  <2>3. q \o h = << >>
    <3> HIDE DEF q, h
    <3> QED BY <1>1, <2>2
  <2>4. << >> \in Seq(EventSeqs)
    OBVIOUS
  <2> HIDE DEF v
  <2> QED BY <1>1, <1>6, <1>7, <1>10, <2>1, <2>3, <2>4, DroppedSound DEF u, v
<1>11. CASE ~(r.status = "leaving" /\ SubscriberSize(u) = 0)
  <2>1. v = u
    BY <1>4, <1>11 DEF RemoveIfDone
  <2>2. SubscriberSound(u, s, E)
    <3>1. SubscriberSize(u) <= MaxQueue
      <4>1. SubscriberSize(r) <= MaxQueue /\ MaxQueue \in Nat
        BY EmitterAssumption DEF SubscriberSound
      <4> QED BY <1>1, <1>5, <4>1
    <3>2. u.status = "leaving" => SubscriberSize(u) > 0
      BY <1>1, <1>4, <1>5, <1>11
    <3> QED BY <1>2, <1>4, <3>1, <3>2 DEF SubscriberSound, Registered
  <2>3. Lane(u, E, s) = q \o h
    <3>1. Lane(u, E, s) = << >> \o q \o h
      BY <1>2, <1>4 DEF Lane, Registered
    <3> HIDE DEF q, h
    <3> QED BY <1>1, <3>1
  <2>4. InLane(u) \subseteq InLane(r)
    BY <1>4, <1>8, <1>9 DEF InLane
  <2> HIDE DEF v
  <2> QED BY <1>1, <1>2, <1>4, <1>6, <1>7, <2>1, <2>2, <2>3, <2>4 DEF u, v, Registered
<1> QED BY <1>10, <1>11

LEMMA DownSubscriber ==
  ASSUME NEW r \in SubRecords, NEW s \in Subs, NEW E \in Seq(EntryType),
         SubscriberSound(r, s, E), r.task = "down"
  PROVE  /\ Requeued(r) \in SubRecords /\ SubscriberSound(Requeued(r), s, E)
         /\ InLane(Requeued(r)) \subseteq InLane(r) /\ Requeued(r).status = r.status
         /\ Lane(Requeued(r), E, s) = Lane(r, E, s)
<1> DEFINE q == r.queue
           x == r.entry
           h == GatedIn(E, s)
           w == <<x>> \o q
           u == Requeued(r)
<1>1. /\ q \in Seq(EventSeqs) /\ Len(q) \in Nat /\ r.reserved \in Nat
      /\ h \in Seq(EventSeqs) /\ x \in EventSeqs /\ << >> \in EventSeqs
  BY SizeType, GatedTypes DEF EventSeqs
<1>2. Registered(r) /\ r.reserved = Len(h)
  BY DEF SubscriberSound
<1>3. w \in Seq(EventSeqs) /\ Len(w) = Len(q) + 1 /\ << >> \o w \o h = w \o h /\ <<x>> \in Seq(EventSeqs)
  <2> HIDE DEF q, h, x
  <2> QED BY <1>1
<1>4. u = [r EXCEPT !.queue = w, !.task = "none", !.entry = << >>]
  BY DEF Requeued
<1>5. Lane(r, E, s) = w \o h
  BY <1>2 DEF Lane
<1>6. Carried(w) = ToSet(x) \union Carried(q)
  BY <1>1, <1>3, CarriedBy
<1> HIDE DEF w, u
<1>7. /\ u \in SubRecords /\ u.status = r.status /\ u.reserved = r.reserved /\ u.queue = w
      /\ u.task = "none" /\ u.entry = << >>
  BY <1>1, <1>3, <1>4 DEF SubRecords, TaskStates
<1>8. SubscriberSize(u) = SubscriberSize(r)
  <2>1. SubscriberSize(u) = Len(w) + r.reserved + 0
    BY <1>7 DEF SubscriberSize
  <2>2. SubscriberSize(r) = Len(q) + r.reserved + 1
    BY DEF SubscriberSize
  <2>3. Len(w) = Len(q) + 1 /\ Len(q) \in Nat /\ r.reserved \in Nat
    BY <1>1, <1>3
  <2> DEFINE l == Len(w)
             m == Len(q)
             n == r.reserved
  <2> HIDE DEF l, m, n
  <2>4. SubscriberSize(u) = l + n + 0 /\ SubscriberSize(r) = m + n + 1 /\ l = m + 1 /\ m \in Nat /\ n \in Nat
    BY <2>1, <2>2, <2>3 DEF l, m, n
  <2> QED BY <2>4
<1>9. SubscriberSound(u, s, E)
  BY <1>2, <1>7, <1>8 DEF SubscriberSound, Registered
<1>10. Lane(u, E, s) = w \o h
  BY <1>2, <1>3, <1>7 DEF Lane, Registered
<1>11. InLane(u) \subseteq InLane(r)
  BY <1>6, <1>7 DEF InLane, ToSet
<1> QED BY <1>5, <1>7, <1>9, <1>10, <1>11 DEF u

-----------------------------------------------------------------------------
(* Nothing is held back for who is in no entry.                             *)
LEMMA GatedNone ==
  ASSUME NEW q \in Seq(EntryType), NEW u \in Subs, \A i \in DOMAIN q : u \notin q[i].subs
  PROVE  GatedIn(q, u) = << >>
<1>1. PICK g : /\ g[0] = << >>
               /\ \A k \in 1..Len(q) : g[k] = AddHeld(g[k - 1], q[k], u)
               /\ GatedIn(q, u) = g[Len(q)]
  BY GatesInTurn
<1>2. Len(q) \in Nat /\ DOMAIN q = 1..Len(q)
  OBVIOUS
<1> DEFINE P == {k \in Nat : k <= Len(q) => g[k] = << >>}
<1>3. 0 \in P
  BY <1>1
<1>4. ASSUME NEW k \in Nat, k \in P PROVE k + 1 \in P
  <2> SUFFICES ASSUME k + 1 <= Len(q) PROVE g[k + 1] = << >>
    OBVIOUS
  <2>1. k + 1 \in 1..Len(q) /\ k <= Len(q) /\ (k + 1) - 1 = k
    BY <1>2
  <2>2. g[k + 1] = AddHeld(g[k], q[k + 1], u)
    BY <1>1, <2>1
  <2>3. g[k] = << >> /\ u \notin q[k + 1].subs
    BY <1>2, <1>4, <2>1
  <2> QED BY <2>2, <2>3 DEF AddHeld
<1>5. \A n \in Nat : n \in P
  <2> HIDE DEF P
  <2> QED BY <1>3, <1>4, Induct
<1> QED BY <1>1, <1>2, <1>5

LEMMA JoinSound ==
  ASSUME NEW r \in SubRecords, NEW s \in Subs, NEW E \in Seq(EntryType),
         SubscriberSound(r, s, E), r.status = "new"
  PROVE  /\ [r EXCEPT !.status = "on"] \in SubRecords
         /\ SubscriberSound([r EXCEPT !.status = "on"], s, E)
         /\ InLane([r EXCEPT !.status = "on"]) = InLane(r)
         /\ [r EXCEPT !.status = "on"].status = "on"
         /\ Lane([r EXCEPT !.status = "on"], E, s) = << >> /\ Lane(r, E, s) = << >>
<1> DEFINE u == [r EXCEPT !.status = "on"]
<1>1. /\ r.reserved = 0 /\ r.queue = << >> /\ r.task = "none" /\ r.entry = << >>
      /\ \A i \in DOMAIN E : s \notin E[i].subs /\ SubscriberSize(r) <= MaxQueue
  BY DEF SubscriberSound, Registered
<1>2. /\ u \in SubRecords /\ u.status = "on" /\ u.reserved = 0 /\ u.queue = << >>
      /\ u.task = "none" /\ u.entry = << >>
  BY <1>1 DEF SubRecords, Statuses
<1> HIDE DEF u
<1>3. GatedIn(E, s) = << >> /\ Len(<< >>) = 0
  BY <1>1, GatedNone
<1>4. SubscriberSize(u) <= MaxQueue
  <2>1. SubscriberSize(u) = 0
    BY <1>2, <1>3 DEF SubscriberSize
  <2> QED BY <2>1, EmitterAssumption
<1>5. SubscriberSound(u, s, E)
  BY <1>2, <1>3, <1>4 DEF SubscriberSound, Registered
<1>6. Lane(u, E, s) = << >> /\ Lane(r, E, s) = << >>
  <2>1. << >> \o << >> \o << >> = << >>
    OBVIOUS
  <2> QED BY <1>2, <1>3, <2>1 DEF Lane, Registered
<1>7. InLane(u) = InLane(r)
  BY <1>1, <1>2 DEF InLane
<1> QED BY <1>2, <1>5, <1>6, <1>7 DEF u

LEMMA LeaveSound ==
  ASSUME NEW r \in SubRecords, NEW s \in Subs, NEW E \in Seq(EntryType),
         SubscriberSound(r, s, E), r.status = "on"
  PROVE  /\ RemoveIfDone([r EXCEPT !.status = "leaving"]) \in SubRecords
         /\ SubscriberSound(RemoveIfDone([r EXCEPT !.status = "leaving"]), s, E)
         /\ InLane(RemoveIfDone([r EXCEPT !.status = "leaving"])) \subseteq InLane(r)
         /\ RemoveIfDone([r EXCEPT !.status = "leaving"]).status \notin {"on", "new"}
         /\ Lane(RemoveIfDone([r EXCEPT !.status = "leaving"]), E, s) = Lane(r, E, s)
<1> DEFINE q == r.queue
           h == GatedIn(E, s)
           u == [r EXCEPT !.status = "leaving"]
           v == RemoveIfDone(u)
<1>1. /\ q \in Seq(EventSeqs) /\ Len(q) \in Nat /\ (q = << >> <=> Len(q) = 0) /\ r.reserved \in Nat
      /\ h \in Seq(EventSeqs) /\ Registered(r) /\ r.reserved = Len(h)
      /\ SubscriberSize(r) <= MaxQueue /\ SubscriberSize(r) \in Nat
  BY SizeType, GatedTypes DEF SubscriberSound, Registered
<1>2. /\ u \in SubRecords /\ u.status = "leaving" /\ u.reserved = r.reserved /\ u.queue = q
      /\ u.task = r.task /\ u.entry = r.entry
  BY DEF SubRecords, Statuses
<1> HIDE DEF u
<1>3. SubscriberSize(u) = SubscriberSize(r) /\ InLane(u) = InLane(r)
  BY <1>2 DEF SubscriberSize, InLane
<1>4. CASE SubscriberSize(u) = 0
  <2>1. v = Dropped
    BY <1>2, <1>4 DEF RemoveIfDone, Dropped
  <2>2. r.task = "none" /\ Len(q) = 0 /\ Len(h) = 0
    <3>1. SubscriberSize(r) = Len(q) + r.reserved + (IF r.task # "none" THEN 1 ELSE 0)
      BY DEF SubscriberSize
    <3> DEFINE l == Len(q)
               n == r.reserved
    <3> HIDE DEF l, n
    <3>2. 0 = l + n + (IF r.task # "none" THEN 1 ELSE 0) /\ l \in Nat /\ n \in Nat
      BY <1>1, <1>3, <1>4, <3>1 DEF l, n
    <3>3. r.task = "none" /\ l = 0 /\ n = 0
      BY <3>2
    <3> QED BY <1>1, <3>3 DEF l, n
  <2>3. q = << >> /\ h = << >>
    <3> HIDE DEF q, h
    <3> QED BY <1>1, <2>2
  <2>4. Lane(r, E, s) = << >>
    <3>1. << >> \o << >> \o << >> = << >>
      OBVIOUS
    <3> QED BY <1>1, <2>2, <2>3, <3>1 DEF Lane
  <2> HIDE DEF v
  <2> QED BY <2>1, <2>4, DroppedSound DEF u, v
<1>5. CASE SubscriberSize(u) # 0
  <2>1. v = u
    BY <1>5 DEF RemoveIfDone
  <2>2. SubscriberSound(u, s, E)
    <3>1. SubscriberSize(u) > 0
      BY <1>1, <1>3, <1>5
    <3>2. r.task = "none" => r.entry = << >>
      BY DEF SubscriberSound
    <3> QED BY <1>1, <1>2, <1>3, <3>1, <3>2 DEF SubscriberSound, Registered
  <2>3. Lane(u, E, s) = Lane(r, E, s)
    BY <1>1, <1>2 DEF Lane, Registered
  <2> HIDE DEF v
  <2> QED BY <1>2, <1>3, <2>1, <2>2, <2>3 DEF u, v
<1> QED BY <1>4, <1>5

(* The task of a subscriber goes on, or dies.                               *)
LEMMA TaskOn ==
  ASSUME NEW r \in SubRecords, NEW s \in Subs, NEW E \in Seq(EntryType),
         SubscriberSound(r, s, E), r.task # "none", NEW v \in TaskStates \ {"none"}
  PROVE  /\ [r EXCEPT !.task = v] \in SubRecords
         /\ SubscriberSound([r EXCEPT !.task = v], s, E)
         /\ InLane([r EXCEPT !.task = v]) = InLane(r)
         /\ [r EXCEPT !.task = v].status = r.status
         /\ Lane([r EXCEPT !.task = v], E, s) = Lane(r, E, s)
<1> DEFINE u == [r EXCEPT !.task = v]
<1>1. /\ u \in SubRecords /\ u.status = r.status /\ u.reserved = r.reserved /\ u.queue = r.queue
      /\ u.task = v /\ u.entry = r.entry
  BY DEF SubRecords
<1> HIDE DEF u
<1>2. /\ SubscriberSize(u) = SubscriberSize(r) /\ InLane(u) = InLane(r)
      /\ Lane(u, E, s) = Lane(r, E, s)
  BY <1>1 DEF SubscriberSize, InLane, Lane, Registered
<1>3. SubscriberSound(u, s, E)
  BY <1>1, <1>2 DEF SubscriberSound, Registered
<1> QED BY <1>1, <1>2, <1>3 DEF u

(* A tap comes or goes.                                                     *)
LEMMA TapComes ==
  ASSUME NEW r \in TapRecords, NEW t, NEW E, TapSound(r, t, E), r.status = "new"
  PROVE  [r EXCEPT !.status = "on"] \in TapRecords /\ TapSound([r EXCEPT !.status = "on"], t, E)
  BY DEF TapRecords, Statuses, TapSound

LEMMA TapGoes ==
  ASSUME NEW r \in TapRecords, NEW t, NEW E, TapSound(r, t, E), r.status = "on"
  PROVE  /\ RemoveTapIfDone([r EXCEPT !.status = "leaving"]) \in TapRecords
         /\ TapSound(RemoveTapIfDone([r EXCEPT !.status = "leaving"]), t, E)
<1> DEFINE u == [r EXCEPT !.status = "leaving"]
<1>1. u \in TapRecords /\ u.status = "leaving" /\ u.pending = r.pending /\ r.pending \in Nat
  BY DEF TapRecords, Statuses
<1>2. r.pending = Cardinality(ForTap(E, t))
  BY DEF TapSound
<1> HIDE DEF u
<1>3. CASE r.pending = 0
  <2> DEFINE w == [u EXCEPT !.status = "gone"]
  <2>1. w \in TapRecords /\ w.status = "gone" /\ w.pending = 0
    BY <1>1, <1>3 DEF TapRecords, Statuses
  <2>2. RemoveTapIfDone(u) = w
    BY <1>1, <1>3 DEF RemoveTapIfDone
  <2> HIDE DEF w
  <2> QED BY <1>2, <1>3, <2>1, <2>2 DEF u, TapSound
<1>4. CASE r.pending # 0
  <2>1. RemoveTapIfDone(u) = u
    BY <1>1, <1>4 DEF RemoveTapIfDone
  <2>2. u.pending > 0
    BY <1>1, <1>4
  <2> QED BY <1>1, <1>2, <2>1, <2>2 DEF u, TapSound
<1> QED BY <1>3, <1>4

-----------------------------------------------------------------------------
(* The task of the taps calls its taps; then it is done, or dies.           *)
CalledBy(st, sn, sm) ==
    \A t \in Taps : sm[t] = IF t \in st.entry.taps /\ st.tap[t].status # "gone"
                            THEN sn[t] \union Carried(st.entry.tapDeliveries) ELSE sn[t]

LEMMA CalledKeeps ==
  ASSUME NEW st, NEW lg, NEW sn, DispatchSound(st, lg, sn), st.task # "none", NEW sm,
         CalledBy(st, sn, sm), \A n \in 1..Len(lg) : lg[n].taps \subseteq Taps
  PROVE  /\ Sound(st, EntriesOf(st), lg, sm)
         /\ \A t \in st.entry.taps : Carried(st.entry.tapDeliveries) \subseteq sm[t]
<1> DEFINE e == st.entry
           q == st.queue
           E == <<e>> \o q
<1>1. /\ st \in States /\ e \in EntryType /\ q \in Seq(EntryType) /\ EntriesOf(st) = E
      /\ Sound(st, EntriesOf(st), lg, sn)
      /\ \A t \in Taps : st.tap[t] \in TapRecords /\ TapSound(st.tap[t], t, EntriesOf(st))
  BY SoundParts, StateTypes
<1>2. E \in Seq(EntryType) /\ 1 \in DOMAIN E /\ E[1] = e
  <2> HIDE DEF e, q
  <2> QED BY <1>1
<1>3. e.taps \subseteq Taps
  BY <1>1, RecordTypes
<1> HIDE DEF E
<1>4. \A n \in Carried(e.tapDeliveries) : Known(lg, n)
  <2>1. EntriesSound(E, lg, sn)
    BY <1>1 DEF Sound
  <2> QED BY <1>2, <2>1 DEF EntriesSound
<1>5. ASSUME NEW t \in e.taps PROVE st.tap[t].status # "gone"
  <2>1. t \in Taps /\ TapSound(st.tap[t], t, E)
    BY <1>1, <1>3
  <2>2. 1 \in ForTap(E, t)
    BY <1>2 DEF ForTap
  <2>3. Cardinality(ForTap(E, t)) # 0
    <3>1. IsFiniteSet(ForTap(E, t))
      BY <1>2, CountFinite
    <3> QED BY <2>2, <3>1, FS_EmptySet
  <2> QED BY <2>1, <2>3 DEF TapSound
<1>6. \A t \in e.taps : Carried(e.tapDeliveries) \subseteq sm[t]
  BY <1>3, <1>5 DEF CalledBy
<1>7. SeenSound(lg, sm)
  <2>1. SeenSound(lg, sn)
    BY <1>1 DEF Sound
  <2>2. \A t \in Taps : sm[t] \subseteq sn[t] \union Carried(e.tapDeliveries)
    BY DEF CalledBy
  <2> QED BY <1>4, <2>1, <2>2 DEF SeenSound
<1>8. \A t \in Taps : sn[t] \subseteq sm[t]
  BY DEF CalledBy
<1>9. Sound(st, E, lg, sm)
  BY <1>1, <1>7, <1>8, SeenGrows
<1> QED BY <1>1, <1>6, <1>9

(* Its task is v now; the taps have seen sm.                                *)
LEMMA TaskGoesOn ==
  ASSUME NEW st, NEW lg, NEW sn, DispatchSound(st, lg, sn), st.task # "none",
         NEW v \in TaskStates \ {"none"}, NEW sm, Sound(st, EntriesOf(st), lg, sm),
         v = "done" => \A t \in st.entry.taps : Carried(st.entry.tapDeliveries) \subseteq sm[t],
         NEW tt, tt = [st EXCEPT !.task = v]
  PROVE  DispatchSound(tt, lg, sm) /\ SameLanes(st, tt, EntriesOf(st), EntriesOf(tt))
<1>0. st \in States
  BY SoundParts
<1>1. /\ tt \in States /\ tt.queue = st.queue /\ tt.task = v /\ tt.entry = st.entry
      /\ tt.sub = st.sub /\ tt.tap = st.tap
  BY <1>0 DEF States
<1>2. EntriesOf(tt) = EntriesOf(st)
  BY <1>1 DEF EntriesOf
<1>3. TaskSound(tt, sm)
  BY <1>1 DEF TaskSound
<1>4. Sound(tt, EntriesOf(tt), lg, sm)
  BY <1>1, <1>2, SoundSame
<1>5. QueueSize(tt) <= MaxQueue
  <2>1. QueueSize(tt) = QueueSize(st)
    BY <1>0, <1>1, <1>2, StateTypes
  <2> QED BY <2>1, SoundParts
<1>6. SameLanes(st, tt, EntriesOf(st), EntriesOf(tt))
  BY <1>1, <1>2 DEF SameLanes
<1> QED BY <1>1, <1>3, <1>4, <1>5, <1>6 DEF DispatchSound

LEMMA RunTapsKeeps ==
  ASSUME NEW st, NEW lg, NEW sn, DispatchSound(st, lg, sn), st.task # "none",
         NEW v \in TaskStates \ {"none"}, NEW sm, CalledBy(st, sn, sm),
         \A n \in 1..Len(lg) : lg[n].taps \subseteq Taps, NEW tt, tt = [st EXCEPT !.task = v]
  PROVE  DispatchSound(tt, lg, sm) /\ SameLanes(st, tt, EntriesOf(st), EntriesOf(tt))
<1>1. /\ Sound(st, EntriesOf(st), lg, sm)
      /\ \A t \in st.entry.taps : Carried(st.entry.tapDeliveries) \subseteq sm[t]
  BY CalledKeeps
<1> QED BY <1>1, TaskGoesOn

(* The task dies before it calls anybody.                                   *)
LEMMA DeadTapsKeep ==
  ASSUME NEW st, NEW lg, NEW sn, DispatchSound(st, lg, sn), st.task # "none",
         NEW tt, tt = [st EXCEPT !.task = "down"]
  PROVE  DispatchSound(tt, lg, sn) /\ SameLanes(st, tt, EntriesOf(st), EntriesOf(tt))
<1>1. Sound(st, EntriesOf(st), lg, sn) /\ "down" \in TaskStates \ {"none"} /\ "down" # "done"
  BY SoundParts DEF TaskStates
<1> QED BY <1>1, TaskGoesOn

(* All subscribers' tasks die.                                              *)
LEMMA KillSubscribers ==
  ASSUME NEW st, NEW lg, NEW sn, DispatchSound(st, lg, sn), NEW tt,
         tt = [st EXCEPT !.sub = [s \in Subs |-> KillTask(st.sub[s])]]
  PROVE  /\ DispatchSound(tt, lg, sn) /\ SameLanes(st, tt, EntriesOf(st), EntriesOf(tt))
         /\ tt.task = st.task /\ tt.entry = st.entry /\ tt.tap = st.tap
<1> DEFINE f == [s \in Subs |-> KillTask(st.sub[s])]
           E == EntriesOf(st)
<1>1. /\ st \in States /\ Sound(st, E, lg, sn) /\ E \in Seq(EntryType)
      /\ \A s \in Subs : st.sub[s] \in SubRecords /\ SubscriberSound(st.sub[s], s, E)
  BY SoundParts
<1> HIDE DEF E
<1>2. ASSUME NEW s \in Subs
      PROVE  /\ f[s] \in SubRecords /\ SubscriberSound(f[s], s, E) /\ InLane(f[s]) \subseteq InLane(st.sub[s])
             /\ f[s].status = st.sub[s].status /\ Lane(f[s], E, s) = Lane(st.sub[s], E, s)
  <2> DEFINE r == st.sub[s]
  <2>1. f[s] = KillTask(r) /\ r \in SubRecords /\ SubscriberSound(r, s, E)
    BY <1>1
  <2> HIDE DEF r, f
  <2>2. CASE r.task = "running"
    <3>1. f[s] = [r EXCEPT !.task = "down"] /\ "down" \in TaskStates \ {"none"} /\ r.task # "none"
      BY <2>1, <2>2 DEF KillTask, Killed, TaskStates
    <3> QED BY <1>1, <2>1, <3>1, TaskOn DEF r
  <2>3. CASE r.task # "running"
    <3>1. f[s] = r
      BY <2>1, <2>3 DEF KillTask, Killed, SubRecords
    <3> QED BY <2>1, <3>1 DEF r
  <2> QED BY <2>2, <2>3
<1>3. f \in [Subs -> SubRecords]
  <2>1. f = [s \in Subs |-> f[s]]
    OBVIOUS
  <2> HIDE DEF f
  <2> QED BY <1>2, <2>1
<1>4. tt = [st EXCEPT !.sub = f]
  OBVIOUS
<1> HIDE DEF f
<1>5. /\ tt \in States /\ tt.queue = st.queue /\ tt.task = st.task /\ tt.entry = st.entry
      /\ tt.sub = f /\ tt.tap = st.tap
  BY <1>1, <1>3, <1>4 DEF States
<1>6. EntriesOf(tt) = E /\ QueueSize(tt) = QueueSize(st)
  BY <1>5, SameEntries DEF E
<1>7. Sound(tt, E, lg, sn)
  BY <1>1, <1>2, <1>5, SubsChange
<1>8. TaskSound(tt, sn)
  BY <1>5, SoundParts DEF TaskSound
<1>9. SameLanes(st, tt, E, E)
  BY <1>2, <1>5 DEF SameLanes
<1> QED BY <1>5, <1>6, <1>7, <1>8, <1>9, SoundParts DEF DispatchSound, E

-----------------------------------------------------------------------------
(* The steps of the specification.  First what the invariant says.          *)
LEMMA LogTypes ==
  ASSUME NEW lg \in LogType
  PROVE  Len(lg) \in Nat /\ \A n \in 1..Len(lg) : lg[n].taps \subseteq Taps
<1> DEFINE R == [kind : Kinds, ok : BOOLEAN, taps : SUBSET Taps]
<1>1. lg \in Seq(R)
  BY DEF LogType
<1> HIDE DEF R
<1>2. Len(lg) \in Nat /\ \A n \in 1..Len(lg) : lg[n] \in R
  BY <1>1
<1> QED BY <1>2 DEF R

LEMMA InvParts ==
  ASSUME Inv
  PROVE  /\ DispatchSound(d, log, seen) /\ d \in States
         /\ EntriesOf(d) \in Seq(EntryType)
         /\ \A s \in Subs : /\ d.sub[s] \in SubRecords
                            /\ SubscriberSound(d.sub[s], s, EntriesOf(d))
                            /\ handled[s] \in Seq(EventSeqs)
         /\ \A t \in Taps : d.tap[t] \in TapRecords /\ TapSound(d.tap[t], t, EntriesOf(d))
         /\ \A n \in 1..Len(log) : log[n].taps \subseteq Taps
         /\ seen \in [Taps -> SUBSET Events] /\ handled \in [Subs -> Seq(EventSeqs)]
         /\ Len(log) \in Nat /\ Len(log) <= MaxEmits
         /\ buffered \in BufferType /\ posted \subseteq Events
<1>1. DispatchSound(d, log, seen) /\ HistoryTypes /\ BufferSound(buffered, posted, log)
  BY DEF Inv
<1>2. /\ d \in States /\ EntriesOf(d) \in Seq(EntryType)
      /\ \A s \in Subs : d.sub[s] \in SubRecords /\ SubscriberSound(d.sub[s], s, EntriesOf(d))
      /\ \A t \in Taps : d.tap[t] \in TapRecords /\ TapSound(d.tap[t], t, EntriesOf(d))
  BY <1>1, SoundParts
<1>3. /\ seen \in [Taps -> SUBSET Events] /\ handled \in [Subs -> Seq(EventSeqs)]
      /\ log \in LogType /\ Len(log) <= MaxEmits
  BY <1>1 DEF HistoryTypes
<1>4. Len(log) \in Nat /\ \A n \in 1..Len(log) : log[n].taps \subseteq Taps
  BY <1>3, LogTypes
<1>5. buffered \in BufferType /\ posted \subseteq Events
  BY <1>1 DEF BufferSound
<1> QED BY <1>1, <1>2, <1>3, <1>4, <1>5

LEMMA CalledIs ==
  ASSUME Inv, d.task # "none"
  PROVE  CalledBy(d, seen, Called) /\ Called \in [Taps -> SUBSET Events]
<1>1. \A t \in Taps : Called[t] = IF t \in d.entry.taps /\ d.tap[t].status # "gone"
                                  THEN seen[t] \union Carried(d.entry.tapDeliveries) ELSE seen[t]
  BY DEF Called, Carried
<1>2. Carried(d.entry.tapDeliveries) \subseteq Events
  <2>1. d.entry \in EntryType
    BY InvParts, StateTypes
  <2>2. d.entry.tapDeliveries \in Seq(EventSeqs)
    BY <2>1, RecordTypes
  <2> QED BY <2>2, CarriedBy
<1>3. \A t \in Taps : seen[t] \subseteq Events
  BY InvParts
<1>4. Called = [t \in Taps |-> Called[t]]
  BY DEF Called
<1>5. \A t \in Taps : Called[t] \in SUBSET Events
  BY <1>1, <1>2, <1>3
<1> QED BY <1>1, <1>4, <1>5 DEF CalledBy

(* What the lanes are, and that they do not change.                         *)
LaneOf(st) == [s \in Subs |-> Lane(st.sub[s], EntriesOf(st), s)]

LEMMA QuietLanes ==
  ASSUME NEW st, NEW tt, SameLanes(st, tt, EntriesOf(st), EntriesOf(tt))
  PROVE  ActiveSubs(tt) = ActiveSubs(st) /\ LaneOf(tt) = LaneOf(st)
  BY DEF SameLanes, ActiveSubs, LaneOf

(* The steps of tasks and registrations leave the buffer alone.             *)
LEMMA TasksFrame ==
  ASSUME Inv, UNCHANGED dispatchOnly, DispatchSound(d', log, seen'),
         available' \in BOOLEAN, faults' \in 0..MaxFaults, seen' \in [Taps -> SUBSET Events],
         handled' \in [Subs -> Seq(EventSeqs)],
         \A s \in Subs : d'.sub[s].status = "new" => handled'[s] = << >>
  PROVE  Inv'
<1>1. /\ buffering' = buffering /\ bufferCount' = bufferCount /\ buffered' = buffered
      /\ seed' = seed /\ timer' = timer /\ message' = message /\ functions' = functions
      /\ log' = log /\ posted' = posted
  BY DEF dispatchOnly, bufferVars
<1>2. ControlTypes'
  <2>1. ControlTypes
    BY DEF Inv
  <2> QED BY <1>1, <2>1 DEF ControlTypes
<1>3. HistoryTypes'
  <2>1. HistoryTypes
    BY DEF Inv
  <2> QED BY <1>1, <2>1 DEF HistoryTypes
<1>4. BufferSound(buffered', posted', log') /\ NoneLost(buffered', posted', log')
  <2>1. BufferSound(buffered, posted, log) /\ NoneLost(buffered, posted, log)
    BY DEF Inv
  <2> QED BY <1>1, <2>1
<1>5. HandledSound'
  BY DEF HandledSound
<1>6. DispatchSound(d', log', seen')
  BY <1>1
<1> QED BY <1>2, <1>3, <1>4, <1>5, <1>6 DEF Inv

LEMMA QuietFrame ==
  ASSUME Inv, UNCHANGED <<dispatchOnly, handled>>, DispatchSound(d', log, seen'),
         SameLanes(d, d', EntriesOf(d), EntriesOf(d')),
         available' \in BOOLEAN, faults' \in 0..MaxFaults, seen' \in [Taps -> SUBSET Events]
  PROVE  Inv' /\ ActiveSubs(d') = ActiveSubs(d) /\ LaneOf(d') = LaneOf(d) /\ handled' = handled
<1>1. UNCHANGED dispatchOnly /\ handled' = handled
  OBVIOUS
<1>2. \A s \in Subs : d'.sub[s].status = d.sub[s].status
  BY DEF SameLanes
<1>3. \A s \in Subs : d'.sub[s].status = "new" => handled'[s] = << >>
  BY <1>1, <1>2 DEF Inv, HandledSound
<1>4. handled' \in [Subs -> Seq(EventSeqs)]
  BY <1>1, InvParts
<1>5. Inv'
  BY <1>1, <1>3, <1>4, TasksFrame
<1> QED BY <1>1, <1>5, QuietLanes

(* The steps that leave the dispatcher and the buffered events alone.       *)
LEMMA ControlFrame ==
  ASSUME Inv, UNCHANGED <<d, buffered, history>>, ControlTypes'
  PROVE  Inv' /\ ActiveSubs(d') = ActiveSubs(d) /\ LaneOf(d') = LaneOf(d) /\ handled' = handled
<1>1. /\ d' = d /\ buffered' = buffered /\ log' = log /\ posted' = posted /\ seen' = seen
      /\ handled' = handled
  BY DEF history
<1>2. HistoryTypes' /\ HandledSound'
  <2>1. HistoryTypes /\ HandledSound
    BY DEF Inv
  <2> QED BY <1>1, <2>1 DEF HistoryTypes, HandledSound
<1>3. /\ DispatchSound(d', log', seen')
      /\ BufferSound(buffered', posted', log') /\ NoneLost(buffered', posted', log')
  BY <1>1 DEF Inv
<1> QED BY <1>1, <1>2, <1>3 DEF Inv

-----------------------------------------------------------------------------
(* Tasks.                                                                   *)
Quiet == Inv' /\ ActiveSubs(d') = ActiveSubs(d) /\ LaneOf(d') = LaneOf(d) /\ handled' = handled

LEMMA DispatcherSound == ASSUME Inv PROVE DispatchSound(d, log, seen)
  BY DEF Inv

LEMMA RunTapsStep == ASSUME Inv, RunTaps PROVE Quiet
<1>1. /\ d.task = "running" /\ d' = [d EXCEPT !.task = "done"] /\ seen' = Called
      /\ UNCHANGED dispatchOnly /\ available' = available /\ faults' = faults /\ handled' = handled
  BY DEF RunTaps
<1>2. d.task # "none" /\ "done" \in TaskStates \ {"none"}
  BY <1>1 DEF TaskStates
<1>3. CalledBy(d, seen, seen') /\ seen' \in [Taps -> SUBSET Events]
  BY <1>1, <1>2, CalledIs
<1>4. DispatchSound(d', log, seen') /\ SameLanes(d, d', EntriesOf(d), EntriesOf(d'))
  BY <1>1, <1>2, <1>3, InvParts, RunTapsKeeps
<1>5. available \in BOOLEAN /\ faults \in 0..MaxFaults
  BY DEF Inv, ControlTypes
<1> QED BY <1>1, <1>3, <1>4, <1>5, QuietFrame DEF Quiet

(* Steps that change the dispatcher alone.                                  *)
LEMMA DispatcherFrame ==
  ASSUME Inv, UNCHANGED <<dispatchOnly, available, faults, seen, handled>>,
         DispatchSound(d', log, seen), SameLanes(d, d', EntriesOf(d), EntriesOf(d'))
  PROVE  Quiet
<1>1. /\ UNCHANGED <<dispatchOnly, handled>> /\ seen' = seen /\ available' = available /\ faults' = faults
  OBVIOUS
<1>2. available \in BOOLEAN /\ faults \in 0..MaxFaults /\ seen \in [Taps -> SUBSET Events]
  BY DEF Inv, ControlTypes, HistoryTypes
<1>3. DispatchSound(d', log, seen')
  BY <1>1
<1> QED BY <1>1, <1>2, <1>3, QuietFrame DEF Quiet

LEMMA CompleteTapsStep == ASSUME Inv, CompleteTaps PROVE Quiet
<1>1. /\ d.task = "done" /\ UNCHANGED <<dispatchOnly, available, faults, seen, handled>>
      /\ d' = StartDispatches([ReleaseTo(ReleaseTaps(d, d.entry.taps), d.entry)
                                 EXCEPT !.task = "none", !.entry = NoEntry])
  BY DEF CompleteTaps
<1>2. DispatchSound(d', log, seen) /\ SameLanes(d, d', EntriesOf(d), EntriesOf(d'))
  BY <1>1, DispatcherSound, CompleteTapsKeeps
<1> QED BY <1>1, <1>2, DispatcherFrame

LEMMA FailTapsStep == ASSUME Inv, FailTaps PROVE Quiet
<1>1. /\ d.task = "down" /\ UNCHANGED <<dispatchOnly, available, faults, seen, handled>>
      /\ d' = StartDispatches([d EXCEPT !.queue = <<d.entry>> \o @, !.task = "none",
                                        !.entry = NoEntry])
  BY DEF FailTaps
<1>2. DispatchSound(d', log, seen) /\ SameLanes(d, d', EntriesOf(d), EntriesOf(d'))
  BY <1>1, DispatcherSound, FailTapsKeeps
<1> QED BY <1>1, <1>2, DispatcherFrame

LEMMA RetryStep == ASSUME Inv, DispatchRetry PROVE Quiet
<1>1. /\ UNCHANGED <<dispatchOnly, available, faults, seen, handled>>
      /\ d' = StartDispatches([d EXCEPT !.retry = FALSE])
  BY DEF DispatchRetry
<1>2. DispatchSound(d', log, seen) /\ SameLanes(d, d', EntriesOf(d), EntriesOf(d'))
  BY <1>1, DispatcherSound, RetryKeeps
<1> QED BY <1>1, <1>2, DispatcherFrame

(* The record of a subscriber becomes r, with the same lane.                *)
LEMMA RecordChange ==
  ASSUME Inv, NEW s \in Subs, NEW r \in SubRecords, SubscriberSound(r, s, EntriesOf(d)),
         InLane(r) \subseteq InLane(d.sub[s]), NEW tt, tt = SetSub(d, s, r)
  PROVE  /\ DispatchSound(tt, log, seen) /\ EntriesOf(tt) = EntriesOf(d) /\ tt.sub[s] = r
         /\ \A u \in Subs \ {s} : tt.sub[u] = d.sub[u]
         /\ r.status = d.sub[s].status /\ Lane(r, EntriesOf(d), s) = Lane(d.sub[s], EntriesOf(d), s)
              => SameLanes(d, tt, EntriesOf(d), EntriesOf(tt))
<1>1. /\ DispatchSound(tt, log, seen) /\ EntriesOf(tt) = EntriesOf(d) /\ tt.sub[s] = r
      /\ \A u \in Subs \ {s} : tt.sub[u] = d.sub[u]
  BY DispatcherSound, OneSubscriber
<1> QED BY <1>1 DEF SameLanes

LEMMA RunSubscriberStep == ASSUME Inv, NEW s \in Subs, RunSubscriber(s) PROVE Quiet
<1> DEFINE r == [d.sub[s] EXCEPT !.task = "done"]
<1>1. /\ d.sub[s].task = "running" /\ UNCHANGED <<dispatchOnly, available, faults, seen, handled>>
      /\ d' = SetSub(d, s, r)
  BY DEF RunSubscriber, SetSub
<1>2. /\ d.sub[s] \in SubRecords /\ SubscriberSound(d.sub[s], s, EntriesOf(d))
      /\ EntriesOf(d) \in Seq(EntryType) /\ "done" \in TaskStates \ {"none"}
  BY InvParts DEF TaskStates
<1>3. /\ r \in SubRecords /\ SubscriberSound(r, s, EntriesOf(d)) /\ InLane(r) = InLane(d.sub[s])
      /\ r.status = d.sub[s].status
      /\ Lane(r, EntriesOf(d), s) = Lane(d.sub[s], EntriesOf(d), s)
  BY <1>1, <1>2, TaskOn
<1> HIDE DEF r
<1>4. DispatchSound(d', log, seen) /\ SameLanes(d, d', EntriesOf(d), EntriesOf(d'))
  BY <1>1, <1>3, RecordChange
<1> QED BY <1>1, <1>4, DispatcherFrame

LEMMA FailSubscriberStep == ASSUME Inv, NEW s \in Subs, FailSubscriber(s) PROVE Quiet
<1> DEFINE r == Requeued(d.sub[s])
           p == SetSub(d, s, r)
<1>1. /\ d.sub[s].task = "down" /\ UNCHANGED <<dispatchOnly, available, faults, seen, handled>>
      /\ d' = StartDispatches(p)
  BY DEF FailSubscriber, SetSub
<1>2. /\ d.sub[s] \in SubRecords /\ SubscriberSound(d.sub[s], s, EntriesOf(d))
      /\ EntriesOf(d) \in Seq(EntryType)
  BY InvParts
<1>3. /\ r \in SubRecords /\ SubscriberSound(r, s, EntriesOf(d)) /\ InLane(r) \subseteq InLane(d.sub[s])
      /\ r.status = d.sub[s].status
      /\ Lane(r, EntriesOf(d), s) = Lane(d.sub[s], EntriesOf(d), s)
  BY <1>1, <1>2, DownSubscriber
<1> HIDE DEF r
<1>4. DispatchSound(p, log, seen) /\ SameLanes(d, p, EntriesOf(d), EntriesOf(p))
  BY <1>3, RecordChange
<1> HIDE DEF p
<1>5. DispatchSound(d', log, seen) /\ SameLanes(p, d', EntriesOf(p), EntriesOf(d'))
  BY <1>1, <1>4, RestartKeeps
<1>6. SameLanes(d, d', EntriesOf(d), EntriesOf(d'))
  BY <1>4, <1>5 DEF SameLanes
<1> QED BY <1>1, <1>5, <1>6, DispatcherFrame

(* The deaths.                                                              *)
LEMMA FaultsType ==
  ASSUME Inv, faults < MaxFaults, faults' = faults + 1
  PROVE  faults' \in 0..MaxFaults /\ available \in BOOLEAN /\ seen \in [Taps -> SUBSET Events]
<1>1. faults \in 0..MaxFaults /\ MaxFaults \in Nat
  BY EmitterAssumption DEF Inv, ControlTypes
<1>2. faults' \in 0..MaxFaults
  BY <1>1
<1> QED BY <1>2 DEF Inv, ControlTypes, HistoryTypes

LEMMA DeathStep == ASSUME Inv, TaskDies PROVE Quiet
<1>1. /\ faults < MaxFaults /\ faults' = faults + 1 /\ UNCHANGED <<dispatchOnly, available, handled>>
      /\ available' = available
  BY DEF TaskDies
<1>2. faults' \in 0..MaxFaults /\ available' \in BOOLEAN /\ seen \in [Taps -> SUBSET Events]
  BY <1>1, FaultsType
<1>3. CASE d.task = "running" /\ d' = [d EXCEPT !.task = "down"] /\ seen' \in {seen, Called}
  <2>1. d.task # "none" /\ "down" \in TaskStates \ {"none"}
    BY <1>3 DEF TaskStates
  <2>2. CASE seen' = seen
    <3>1. DispatchSound(d', log, seen) /\ SameLanes(d, d', EntriesOf(d), EntriesOf(d'))
      BY <1>3, <2>1, DispatcherSound, DeadTapsKeep
    <3> QED BY <1>1, <1>2, <2>2, <3>1, QuietFrame DEF Quiet
  <2>3. CASE seen' = Called
    <3>1. CalledBy(d, seen, seen') /\ seen' \in [Taps -> SUBSET Events]
      BY <2>1, <2>3, CalledIs
    <3>2. DispatchSound(d', log, seen') /\ SameLanes(d, d', EntriesOf(d), EntriesOf(d'))
      BY <1>3, <2>1, <3>1, InvParts, RunTapsKeeps
    <3> QED BY <1>1, <1>2, <3>1, <3>2, QuietFrame DEF Quiet
  <2> QED BY <1>3, <2>2, <2>3
<1>4. CASE /\ \E s \in Subs : d.sub[s].task = "running" /\ d' = [d EXCEPT !.sub[s].task = "down"]
           /\ seen' = seen
  <2>1. PICK s \in Subs : d.sub[s].task = "running" /\ d' = [d EXCEPT !.sub[s].task = "down"]
    BY <1>4
  <2> DEFINE r == [d.sub[s] EXCEPT !.task = "down"]
  <2>2. d' = SetSub(d, s, r)
    BY <2>1 DEF SetSub
  <2>3. /\ d.sub[s] \in SubRecords /\ SubscriberSound(d.sub[s], s, EntriesOf(d))
        /\ EntriesOf(d) \in Seq(EntryType) /\ "down" \in TaskStates \ {"none"}
    BY InvParts DEF TaskStates
  <2>4. /\ r \in SubRecords /\ SubscriberSound(r, s, EntriesOf(d)) /\ InLane(r) = InLane(d.sub[s])
        /\ r.status = d.sub[s].status
        /\ Lane(r, EntriesOf(d), s) = Lane(d.sub[s], EntriesOf(d), s)
    BY <2>1, <2>3, TaskOn
  <2> HIDE DEF r
  <2>5. DispatchSound(d', log, seen) /\ SameLanes(d, d', EntriesOf(d), EntriesOf(d'))
    BY <2>2, <2>4, RecordChange
  <2> QED BY <1>1, <1>2, <1>4, <2>5, QuietFrame DEF Quiet
<1> QED BY <1>3, <1>4 DEF TaskDies

LEMMA SupervisorDiesStep == ASSUME Inv, SupervisorDies PROVE Quiet
<1> DEFINE f == [s \in Subs |-> KillTask(d.sub[s])]
           p == [d EXCEPT !.sub = f]
<1>1. /\ faults < MaxFaults /\ faults' = faults + 1 /\ UNCHANGED <<dispatchOnly, handled>>
      /\ available' = FALSE /\ d' = [d EXCEPT !.task = Killed(@), !.sub = f]
      /\ seen' \in IF d.task = "running" THEN {seen, Called} ELSE {seen}
  BY DEF SupervisorDies
<1>2. faults' \in 0..MaxFaults /\ available' \in BOOLEAN /\ seen \in [Taps -> SUBSET Events]
  BY <1>1, FaultsType
<1>3. /\ DispatchSound(p, log, seen) /\ SameLanes(d, p, EntriesOf(d), EntriesOf(p))
      /\ p.task = d.task /\ p.entry = d.entry /\ p.tap = d.tap
  BY DispatcherSound, KillSubscribers
<1>4. d' = [p EXCEPT !.task = Killed(d.task)]
  BY <1>1, InvParts DEF States
<1> HIDE DEF p
<1>5. CASE d.task # "running"
  <2>1. Killed(d.task) = d.task /\ p \in States
    BY <1>3, <1>5, SoundParts DEF Killed
  <2>2. d' = p
    BY <1>3, <1>4, <2>1 DEF States
  <2> QED BY <1>1, <1>2, <1>3, <1>5, <2>2, QuietFrame DEF Quiet
<1>6. CASE d.task = "running"
  <2>1. d' = [p EXCEPT !.task = "down"] /\ p.task # "none" /\ "down" \in TaskStates \ {"none"}
    BY <1>3, <1>4, <1>6 DEF Killed, TaskStates
  <2>2. CASE seen' = seen
    <3>1. DispatchSound(d', log, seen) /\ SameLanes(p, d', EntriesOf(p), EntriesOf(d'))
      BY <1>3, <2>1, DeadTapsKeep
    <3>2. SameLanes(d, d', EntriesOf(d), EntriesOf(d'))
      BY <1>3, <3>1 DEF SameLanes
    <3> QED BY <1>1, <1>2, <2>2, <3>1, <3>2, QuietFrame DEF Quiet
  <2>3. CASE seen' = Called
    <3>1. CalledBy(d, seen, seen') /\ seen' \in [Taps -> SUBSET Events]
      BY <1>6, <2>3, CalledIs
    <3>2. CalledBy(p, seen, seen')
      BY <1>3, <3>1 DEF CalledBy
    <3>3. DispatchSound(d', log, seen') /\ SameLanes(p, d', EntriesOf(p), EntriesOf(d'))
      BY <1>3, <2>1, <3>2, InvParts, RunTapsKeeps
    <3>4. SameLanes(d, d', EntriesOf(d), EntriesOf(d'))
      BY <1>3, <3>3 DEF SameLanes
    <3> QED BY <1>1, <1>2, <3>1, <3>3, <3>4, QuietFrame DEF Quiet
  <2> QED BY <1>1, <1>6, <2>2, <2>3
<1> QED BY <1>5, <1>6

-----------------------------------------------------------------------------
(* Registrations, and the end of a subscriber's task: the lanes' own steps.  *)
LaneStep == Inv' /\ [Lanes!Next]_<<ActiveSubs(d), LaneOf(d), handled>>

LEMMA QuietIsStep == ASSUME Quiet PROVE LaneStep
  BY DEF Quiet, LaneStep

LEMMA TapStep ==
  ASSUME Inv, NEW t \in Taps, Tap(t) \/ Untap(t)
  PROVE  Quiet
<1> DEFINE r == IF d.tap[t].status = "new" THEN [d.tap[t] EXCEPT !.status = "on"]
                ELSE RemoveTapIfDone([d.tap[t] EXCEPT !.status = "leaving"])
<1>1. /\ d.tap[t].status \in {"new", "on"} /\ d' = SetTap(d, t, r)
      /\ UNCHANGED <<dispatchOnly, available, faults, seen, handled>>
  <2>1. CASE Tap(t)
    <3>1. /\ d.tap[t].status = "new" /\ d' = [d EXCEPT !.tap[t] = [d.tap[t] EXCEPT !.status = "on"]]
          /\ UNCHANGED <<dispatchOnly, available, faults, seen, handled>>
      BY <2>1 DEF Tap
    <3> QED BY <3>1 DEF SetTap
  <2>2. CASE Untap(t)
    <3>1. /\ d.tap[t].status = "on"
          /\ d' = [d EXCEPT !.tap[t] = RemoveTapIfDone([d.tap[t] EXCEPT !.status = "leaving"])]
          /\ UNCHANGED <<dispatchOnly, available, faults, seen, handled>>
      BY <2>2 DEF Untap
    <3> QED BY <3>1 DEF SetTap
  <2> QED BY <2>1, <2>2
<1>2. d.tap[t] \in TapRecords /\ TapSound(d.tap[t], t, EntriesOf(d))
  BY InvParts
<1>3. r \in TapRecords /\ TapSound(r, t, EntriesOf(d))
  BY <1>1, <1>2, TapComes, TapGoes
<1> HIDE DEF r
<1>4. DispatchSound(d', log, seen) /\ EntriesOf(d') = EntriesOf(d) /\ d'.sub = d.sub
  BY <1>1, <1>3, DispatcherSound, OneTap
<1>5. SameLanes(d, d', EntriesOf(d), EntriesOf(d'))
  BY <1>4 DEF SameLanes
<1> QED BY <1>1, <1>4, <1>5, DispatcherFrame

(* What changes when the record of one subscriber changes.                  *)
WithLane(st, s, z) == [LaneOf(st) EXCEPT ![s] = z]

OneChanged(st, tt, s, r) ==
    EntriesOf(tt) = EntriesOf(st) /\ tt.sub[s] = r /\ \A u \in Subs \ {s} : tt.sub[u] = st.sub[u]

LEMMA OneLane ==
  ASSUME NEW st, NEW tt, NEW s \in Subs, NEW r, OneChanged(st, tt, s, r)
  PROVE  /\ r.status = "on" => ActiveSubs(tt) = ActiveSubs(st) \union {s}
         /\ r.status # "on" => ActiveSubs(tt) = ActiveSubs(st) \ {s}
         /\ LaneOf(tt) = WithLane(st, s, Lane(r, EntriesOf(st), s))
         /\ LaneOf(st)[s] = Lane(st.sub[s], EntriesOf(st), s)
<1>0. EntriesOf(tt) = EntriesOf(st) /\ tt.sub[s] = r /\ \A u \in Subs \ {s} : tt.sub[u] = st.sub[u]
  BY DEF OneChanged
<1> DEFINE z == Lane(r, EntriesOf(st), s)
<1>1. /\ r.status = "on" => ActiveSubs(tt) = ActiveSubs(st) \union {s}
      /\ r.status # "on" => ActiveSubs(tt) = ActiveSubs(st) \ {s}
  BY <1>0 DEF ActiveSubs
<1>2. \A u \in Subs \ {s} : Lane(tt.sub[u], EntriesOf(tt), u) = Lane(st.sub[u], EntriesOf(st), u)
  BY <1>0
<1>3. LaneOf(tt) = WithLane(st, s, z)
  BY <1>0, <1>2 DEF LaneOf, WithLane
<1> QED BY <1>1, <1>3 DEF LaneOf

LEMMA SubscribeStep == ASSUME Inv, NEW s \in Subs, Subscribe(s) PROVE LaneStep
<1> DEFINE r == [d.sub[s] EXCEPT !.status = "on"]
           E == EntriesOf(d)
<1>1. /\ d.sub[s].status = "new" /\ UNCHANGED <<dispatchOnly, available, faults, seen, handled>>
      /\ d' = SetSub(d, s, r)
  BY DEF Subscribe, SetSub
<1>2. d.sub[s] \in SubRecords /\ SubscriberSound(d.sub[s], s, E) /\ E \in Seq(EntryType)
  BY InvParts
<1>3. /\ r \in SubRecords /\ SubscriberSound(r, s, E) /\ InLane(r) = InLane(d.sub[s])
      /\ r.status = "on" /\ Lane(r, E, s) = << >> /\ Lane(d.sub[s], E, s) = << >>
  BY <1>1, <1>2, JoinSound
<1> HIDE DEF r
<1>4. /\ DispatchSound(d', log, seen) /\ EntriesOf(d') = E /\ d'.sub[s] = r
      /\ \A u \in Subs \ {s} : d'.sub[u] = d.sub[u]
  BY <1>1, <1>3, RecordChange
<1>5. /\ ActiveSubs(d') = ActiveSubs(d) \union {s}
      /\ LaneOf(d') = WithLane(d, s, << >>) /\ LaneOf(d)[s] = << >>
  <2>1. OneChanged(d, d', s, r)
    BY <1>4 DEF OneChanged
  <2>2. /\ r.status = "on" => ActiveSubs(d') = ActiveSubs(d) \union {s}
        /\ r.status # "on" => ActiveSubs(d') = ActiveSubs(d) \ {s}
        /\ LaneOf(d') = WithLane(d, s, Lane(r, E, s)) /\ LaneOf(d)[s] = Lane(d.sub[s], E, s)
    BY <2>1, OneLane
  <2> QED BY <1>3, <2>2
<1>6. handled[s] = << >>
  BY <1>1 DEF Inv, HandledSound
<1>7. Inv'
  <2>1. \A u \in Subs : d'.sub[u].status = "new" => d.sub[u].status = "new"
    BY <1>3, <1>4
  <2>2. \A u \in Subs : d'.sub[u].status = "new" => handled'[u] = << >>
    BY <1>1, <2>1 DEF Inv, HandledSound
  <2>3. /\ available' \in BOOLEAN /\ faults' \in 0..MaxFaults /\ seen' \in [Taps -> SUBSET Events]
        /\ handled' \in [Subs -> Seq(EventSeqs)]
    BY <1>1 DEF Inv, ControlTypes, HistoryTypes
  <2>4. UNCHANGED dispatchOnly /\ DispatchSound(d', log, seen')
    BY <1>1, <1>4
  <2> QED BY <2>2, <2>3, <2>4, TasksFrame
<1>8. LaneOf(d') = LaneOf(d) /\ handled' = handled
  BY <1>1, <1>5 DEF LaneOf, WithLane
<1>9. s \notin ActiveSubs(d)
  BY <1>1 DEF ActiveSubs
<1>10. Lanes!Open(s)
  BY <1>5, <1>6, <1>8, <1>9 DEF Lanes!Open, LaneOf
<1> QED BY <1>7, <1>10 DEF LaneStep, Lanes!Next

LEMMA UnsubscribeStep == ASSUME Inv, NEW s \in Subs, Unsubscribe(s) PROVE LaneStep
<1> DEFINE r == RemoveIfDone([d.sub[s] EXCEPT !.status = "leaving"])
           E == EntriesOf(d)
<1>1. /\ d.sub[s].status = "on" /\ UNCHANGED <<dispatchOnly, available, faults, seen, handled>>
      /\ d' = SetSub(d, s, r)
  BY DEF Unsubscribe, SetSub
<1>2. d.sub[s] \in SubRecords /\ SubscriberSound(d.sub[s], s, E) /\ E \in Seq(EntryType)
  BY InvParts
<1>3. /\ r \in SubRecords /\ SubscriberSound(r, s, E) /\ InLane(r) \subseteq InLane(d.sub[s])
      /\ r.status \notin {"on", "new"} /\ Lane(r, E, s) = Lane(d.sub[s], E, s)
  BY <1>1, <1>2, LeaveSound
<1> HIDE DEF r
<1>4. /\ DispatchSound(d', log, seen) /\ EntriesOf(d') = E /\ d'.sub[s] = r
      /\ \A u \in Subs \ {s} : d'.sub[u] = d.sub[u]
  BY <1>1, <1>3, RecordChange
<1>5. /\ ActiveSubs(d') = ActiveSubs(d) \ {s}
      /\ LaneOf(d') = WithLane(d, s, Lane(d.sub[s], E, s))
      /\ LaneOf(d)[s] = Lane(d.sub[s], E, s)
  <2>1. OneChanged(d, d', s, r)
    BY <1>4 DEF OneChanged
  <2>2. /\ r.status = "on" => ActiveSubs(d') = ActiveSubs(d) \union {s}
        /\ r.status # "on" => ActiveSubs(d') = ActiveSubs(d) \ {s}
        /\ LaneOf(d') = WithLane(d, s, Lane(r, E, s)) /\ LaneOf(d)[s] = Lane(d.sub[s], E, s)
    BY <2>1, OneLane
  <2> QED BY <1>3, <2>2
<1>6. Inv'
  <2>1. \A u \in Subs : d'.sub[u].status = "new" => d.sub[u].status = "new"
    BY <1>3, <1>4
  <2>2. \A u \in Subs : d'.sub[u].status = "new" => handled'[u] = << >>
    BY <1>1, <2>1 DEF Inv, HandledSound
  <2>3. /\ available' \in BOOLEAN /\ faults' \in 0..MaxFaults /\ seen' \in [Taps -> SUBSET Events]
        /\ handled' \in [Subs -> Seq(EventSeqs)]
    BY <1>1 DEF Inv, ControlTypes, HistoryTypes
  <2>4. UNCHANGED dispatchOnly /\ DispatchSound(d', log, seen')
    BY <1>1, <1>4
  <2> QED BY <2>2, <2>3, <2>4, TasksFrame
<1>7. LaneOf(d') = LaneOf(d) /\ handled' = handled
  BY <1>1, <1>5 DEF LaneOf, WithLane
<1>8. Lanes!Close(s)
  BY <1>5, <1>7 DEF Lanes!Close, LaneOf
<1> QED BY <1>6, <1>8 DEF LaneStep, Lanes!Next

LEMMA CompleteSubscriberStep == ASSUME Inv, NEW s \in Subs, CompleteSubscriber(s) PROVE LaneStep
<1> DEFINE x == d.sub[s]
           r == RemoveIfDone(Rested(x))
           p == SetSub(d, s, r)
           E == EntriesOf(d)
<1>1. /\ x.task = "done" /\ UNCHANGED <<dispatchOnly, available, faults, seen>>
      /\ handled' = [handled EXCEPT ![s] = Append(@, x.entry)]
      /\ d' = StartDispatches(p)
  BY DEF CompleteSubscriber, SetSub, Rested
<1>2. /\ x \in SubRecords /\ SubscriberSound(x, s, E) /\ E \in Seq(EntryType)
      /\ handled[s] \in Seq(EventSeqs)
  BY InvParts
<1> DEFINE l == Lane(r, E, s)
<1>3. /\ r \in SubRecords /\ SubscriberSound(r, s, E) /\ InLane(r) \subseteq InLane(x)
      /\ r.status = "on" <=> x.status = "on"
      /\ r.status # "new" /\ x.entry \in EventSeqs /\ l \in Seq(EventSeqs)
      /\ Lane(x, E, s) = <<x.entry>> \o l
  <2> HIDE DEF x, r, E
  <2> QED BY <1>1, <1>2, DoneSubscriber DEF r
<1> HIDE DEF r
<1>4. /\ DispatchSound(p, log, seen) /\ EntriesOf(p) = E /\ p.sub[s] = r
      /\ \A u \in Subs \ {s} : p.sub[u] = d.sub[u]
  BY <1>3, RecordChange
<1> HIDE DEF p
<1>5. /\ DispatchSound(d', log, seen) /\ SameLanes(p, d', EntriesOf(p), EntriesOf(d'))
      /\ ActiveSubs(d') = ActiveSubs(p) /\ LaneOf(d') = LaneOf(p)
  BY <1>1, <1>4, RestartKeeps, QuietLanes
<1>6. /\ r.status = "on" => ActiveSubs(p) = ActiveSubs(d) \union {s}
      /\ r.status # "on" => ActiveSubs(p) = ActiveSubs(d) \ {s}
      /\ LaneOf(p) = WithLane(d, s, l)
      /\ LaneOf(d)[s] = <<x.entry>> \o l
  <2>1. OneChanged(d, p, s, r)
    BY <1>4 DEF OneChanged
  <2>2. /\ r.status = "on" => ActiveSubs(p) = ActiveSubs(d) \union {s}
        /\ r.status # "on" => ActiveSubs(p) = ActiveSubs(d) \ {s}
        /\ LaneOf(p) = WithLane(d, s, Lane(r, E, s)) /\ LaneOf(d)[s] = Lane(d.sub[s], E, s)
    BY <2>1, OneLane
  <2> QED BY <1>3, <2>2
<1>7. ActiveSubs(p) = ActiveSubs(d)
  BY <1>3, <1>6 DEF ActiveSubs
<1>8. Inv'
  <2>1. \A u \in Subs : d'.sub[u].status = "new" => u # s /\ d.sub[u].status = "new"
    BY <1>3, <1>4, <1>5 DEF SameLanes
  <2>2. handled \in [Subs -> Seq(EventSeqs)]
    BY DEF Inv, HistoryTypes
  <2>3. \A u \in Subs : d'.sub[u].status = "new" => handled'[u] = << >>
    BY <1>1, <2>1, <2>2 DEF Inv, HandledSound
  <2>4. Append(handled[s], x.entry) \in Seq(EventSeqs)
    <3> DEFINE h == handled[s]
               y == x.entry
    <3>1. h \in Seq(EventSeqs) /\ y \in EventSeqs
      BY <1>2, <1>3
    <3> HIDE DEF h, y
    <3>2. Append(h, y) \in Seq(EventSeqs)
      BY <3>1
    <3> QED BY <3>2 DEF h, y
  <2>5. /\ available' \in BOOLEAN /\ faults' \in 0..MaxFaults /\ seen' \in [Taps -> SUBSET Events]
    BY <1>1 DEF Inv, ControlTypes, HistoryTypes
  <2>6. handled' \in [Subs -> Seq(EventSeqs)]
    BY <1>1, <2>2, <2>4
  <2>7. UNCHANGED dispatchOnly /\ DispatchSound(d', log, seen')
    BY <1>1, <1>5
  <2> QED BY <2>3, <2>5, <2>6, <2>7, TasksFrame
<1>9. /\ LaneOf(d)[s] # << >> /\ Head(LaneOf(d)[s]) = x.entry /\ Tail(LaneOf(d)[s]) = l
  <2> DEFINE y == x.entry
             m == l
  <2>1. y \in EventSeqs /\ m \in Seq(EventSeqs) /\ LaneOf(d)[s] = <<y>> \o m
    BY <1>3, <1>6
  <2> HIDE DEF y, m
  <2>2. <<y>> \o m # << >> /\ Head(<<y>> \o m) = y /\ Tail(<<y>> \o m) = m
    BY <2>1
  <2> QED BY <2>1, <2>2 DEF y, m
<1>10. Lanes!Handle(s)
  <2>1. /\ LaneOf(d)[s] # << >>
        /\ handled' = [handled EXCEPT ![s] = Append(@, Head(LaneOf(d)[s]))]
        /\ LaneOf(d') = [LaneOf(d) EXCEPT ![s] = Tail(@)]
        /\ ActiveSubs(d') = ActiveSubs(d)
    <3>1. LaneOf(d') = [LaneOf(d) EXCEPT ![s] = l]
      BY <1>5, <1>6 DEF WithLane
    <3> HIDE DEF x, l
    <3> QED BY <1>1, <1>5, <1>7, <1>9, <3>1
  <2> QED BY <2>1 DEF Lanes!Handle, LaneOf
<1> QED BY <1>8, <1>10 DEF LaneStep, Lanes!Next

-----------------------------------------------------------------------------
(* Buffering on and off, seeds, timers, and the supervisor's return.        *)
LEMMA TimerTypes ==
  ASSUME timer \in [Timers -> {"nil", "armed", "spent"}]
  PROVE  /\ NoTimers \in [Timers -> {"nil", "armed", "spent"}]
         /\ Cancelled \in [Timers -> {"nil", "armed", "spent"}]
         /\ \A x \in Timers, v \in {"nil", "armed", "spent"} :
               /\ [timer EXCEPT ![x] = v] \in [Timers -> {"nil", "armed", "spent"}]
               /\ [Cancelled EXCEPT ![x] = v] \in [Timers -> {"nil", "armed", "spent"}]
         /\ "buffer" \in Timers /\ "flush" \in Timers
  BY DEF NoTimers, Cancelled, Timers

LEMMA CountTypes ==
  ASSUME NEW n \in 0..MaxBuffers
  PROVE  /\ n < MaxBuffers => n + 1 \in 0..MaxBuffers
         /\ n > 0 => n - 1 \in 0..MaxBuffers
         /\ 0 \in 0..MaxBuffers
  BY EmitterAssumption

LEMMA ControlStep ==
  ASSUME Inv, \/ Buffer \/ BeginFunction \/ EndFunction
              \/ \E value \in {"true", "false"} : Seed(value)
              \/ \E x \in Timers : TimerFires(x)
  PROVE  Quiet
<1> USE DEF ControlTypes
<1>1. /\ ControlTypes /\ timer \in [Timers -> {"nil", "armed", "spent"}]
      /\ bufferCount \in 0..MaxBuffers /\ functions \in 0..MaxBuffers
  BY DEF Inv
<1>2. CASE Buffer \/ BeginFunction
  <2>1. /\ UNCHANGED <<d, buffered, seed, message, available, faults, history>>
        /\ bufferCount < MaxBuffers /\ buffering' = TRUE /\ bufferCount' = bufferCount + 1
        /\ timer' \in {timer, [timer EXCEPT !["buffer"] = "armed"]}
        /\ functions' = functions \/ (functions < MaxBuffers /\ functions' = functions + 1)
    BY <1>2 DEF Buffer, BeginFunction, StartBuffering
  <2>2. timer' \in [Timers -> {"nil", "armed", "spent"}]
    BY <1>1, <2>1, TimerTypes
  <2>3. bufferCount' \in 0..MaxBuffers /\ functions' \in 0..MaxBuffers
    BY <1>1, <2>1, CountTypes
  <2>4. ControlTypes'
    BY <1>1, <2>1, <2>2, <2>3
  <2> QED BY <2>1, <2>4, ControlFrame DEF Quiet
<1>3. CASE EndFunction
  <2>1. /\ UNCHANGED <<d, buffering, buffered, seed, message, available, faults, history>>
        /\ functions > 0 /\ functions' = functions - 1
        /\ bufferCount' = IF bufferCount > 0 THEN bufferCount - 1 ELSE 0
        /\ timer' \in {timer, [timer EXCEPT !["flush"] = "armed"]}
    BY <1>3 DEF EndFunction
  <2>2. timer' \in [Timers -> {"nil", "armed", "spent"}]
    BY <1>1, <2>1, TimerTypes
  <2>3. bufferCount' \in 0..MaxBuffers /\ functions' \in 0..MaxBuffers
    BY <1>1, <2>1, CountTypes
  <2>4. ControlTypes'
    BY <1>1, <2>1, <2>2, <2>3
  <2> QED BY <2>1, <2>4, ControlFrame DEF Quiet
<1>4. CASE \E value \in {"true", "false"} : Seed(value)
  <2>1. /\ UNCHANGED <<d, buffering, bufferCount, buffered, timer, message, functions,
                       available, faults, history>>
        /\ seed' \in {"true", "false"}
    BY <1>4 DEF Seed
  <2>2. ControlTypes'
    BY <1>1, <2>1
  <2> QED BY <2>1, <2>2, ControlFrame DEF Quiet
<1>5. CASE \E x \in Timers : TimerFires(x)
  <2>1. PICK x \in Timers : TimerFires(x)
    BY <1>5
  <2>2. /\ UNCHANGED <<d, buffering, bufferCount, buffered, seed, functions,
                       available, faults, history>>
        /\ timer' = [timer EXCEPT ![x] = "spent"] /\ message' = [message EXCEPT ![x] = TRUE]
    BY <2>1 DEF TimerFires
  <2>3. timer' \in [Timers -> {"nil", "armed", "spent"}]
    BY <1>1, <2>2, TimerTypes
  <2>4. message' \in [Timers -> BOOLEAN]
    BY <1>1, <2>2
  <2>5. ControlTypes'
    BY <1>1, <2>2, <2>3, <2>4
  <2> QED BY <2>2, <2>5, ControlFrame DEF Quiet
<1> QED BY <1>2, <1>3, <1>4, <1>5

LEMMA RestartsStep == ASSUME Inv, SupervisorRestarts PROVE Quiet
<1>1. /\ available' = TRUE /\ d' = d /\ faults' = faults /\ seen' = seen
      /\ UNCHANGED <<dispatchOnly, handled>>
  BY DEF SupervisorRestarts
<1>2. SameLanes(d, d', EntriesOf(d), EntriesOf(d')) /\ DispatchSound(d', log, seen')
  BY <1>1, DispatcherSound DEF SameLanes
<1>3. available' \in BOOLEAN /\ faults' \in 0..MaxFaults /\ seen' \in [Taps -> SUBSET Events]
  BY <1>1 DEF Inv, ControlTypes, HistoryTypes
<1> QED BY <1>1, <1>2, <1>3, QuietFrame DEF Quiet

(* A dispatch is one of the deliveries of the lanes, or nothing.            *)
OneDelivery(y) == y = << >> \/ \E e \in AllDeliveries : y = <<e>>

LEMMA DeliveryTypes ==
  ASSUME NEW e \in EventSeqs, e # << >>, Len(e) <= MaxEmits
  PROVE  e \in AllDeliveries
<1>1. e \in Seq(Events)
  BY DEF EventSeqs
<1>2. Len(e) \in Nat /\ e \in [1..Len(e) -> Events] /\ Len(e) # 0
  BY <1>1
<1>3. Len(e) \in 1..MaxEmits
  BY <1>2, EmitterAssumption
<1> DEFINE n == Len(e)
<1>4. n \in 1..MaxEmits /\ e \in [1..n -> Events]
  BY <1>2, <1>3
<1> HIDE DEF n
<1> QED BY <1>4 DEF AllDeliveries

LEMMA LaneType ==
  ASSUME NEW r \in SubRecords, NEW E \in Seq(EntryType), NEW s \in Subs
  PROVE  Lane(r, E, s) \in Seq(EventSeqs)
<1>1. CASE Registered(r)
  <2>1. PICK c \in Seq(EventSeqs) : Lane(r, E, s) = c \o GatedIn(E, s)
    BY <1>1, LaneParts
  <2>2. GatedIn(E, s) \in Seq(EventSeqs)
    BY GatedTypes
  <2> DEFINE h == GatedIn(E, s)
  <2> HIDE DEF h
  <2>3. c \o h \in Seq(EventSeqs)
    BY <2>2 DEF h
  <2> QED BY <2>1, <2>3 DEF h
<1>2. CASE ~Registered(r)
  <2>1. << >> \in Seq(EventSeqs)
    OBVIOUS
  <2> QED BY <1>2, <2>1 DEF Lane
<1> QED BY <1>1, <1>2

(* The dispatcher has taken the dispatch: the lanes have.                   *)
LEMMA PostStep ==
  ASSUME Inv, NEW y, OneDelivery(y), handled' = handled,
         Promised(d, d', EntriesOf(d), EntriesOf(d'), y)
  PROVE  [Lanes!Next]_<<ActiveSubs(d), LaneOf(d), handled>>
<1> DEFINE E == EntriesOf(d)
           F == EntriesOf(d')
<1>1. CASE y = << >>
  <2>1. \A s \in Subs : d'.sub[s].status = d.sub[s].status /\ Lane(d'.sub[s], F, s) = Lane(d.sub[s], E, s)
    BY <1>1 DEF Promised
  <2>2. ActiveSubs(d') = ActiveSubs(d) /\ LaneOf(d') = LaneOf(d)
    BY <2>1 DEF ActiveSubs, LaneOf
  <2> QED BY <2>2
<1>2. CASE y # << >>
  <2>1. PICK e \in AllDeliveries : y = <<e>>
    BY <1>2 DEF OneDelivery
  <2>2. e \in EventSeqs
    BY DEF AllDeliveries, EventSeqs
  <2> DEFINE O == {s \in ActiveSubs(d) : d'.sub[s].status # "on"}
  <2>3. \A s \in Subs :
          \/ s \notin ActiveSubs(d) /\ s \notin ActiveSubs(d') /\ Lane(d'.sub[s], F, s) = Lane(d.sub[s], E, s)
          \/ /\ s \in ActiveSubs(d) /\ s \in ActiveSubs(d')
             /\ Lane(d'.sub[s], F, s) = Lane(d.sub[s], E, s) \o y
          \/ /\ s \in ActiveSubs(d) /\ s \notin ActiveSubs(d') /\ Lane(d'.sub[s], F, s) = << >>
    BY <1>2 DEF Promised, ActiveSubs
  <2>4. \A s \in Subs : Lane(d.sub[s], E, s) \o y = Append(Lane(d.sub[s], E, s), e)
    <3> TAKE s \in Subs
    <3> DEFINE l == Lane(d.sub[s], E, s)
    <3>1. l \in Seq(EventSeqs)
      BY InvParts, LaneType
    <3> HIDE DEF l
    <3>2. l \o <<e>> = Append(l, e)
      BY <2>2, <3>1
    <3> QED BY <2>1, <3>2 DEF l
  <2>5. O \subseteq ActiveSubs(d) /\ ActiveSubs(d') = ActiveSubs(d) \ O /\ O \in SUBSET Subs
    <3>1. \A s \in Subs : s \in ActiveSubs(d') <=> d'.sub[s].status = "on"
      BY DEF ActiveSubs
    <3>2. ActiveSubs(d) \subseteq Subs /\ ActiveSubs(d') \subseteq Subs
      BY DEF ActiveSubs
    <3> QED BY <2>3, <3>1, <3>2
  <2>6. \A s \in Subs : Lane(d'.sub[s], F, s) = IF s \in O THEN << >>
                           ELSE IF s \in ActiveSubs(d) THEN Append(Lane(d.sub[s], E, s), e)
                           ELSE Lane(d.sub[s], E, s)
    <3> TAKE s \in Subs
    <3>1. s \in O <=> s \in ActiveSubs(d) /\ s \notin ActiveSubs(d')
      BY <2>5
    <3> HIDE DEF O
    <3> QED BY <2>3, <2>4, <3>1
  <2> HIDE DEF O
  <2>7. LaneOf(d') = [s \in Subs |-> IF s \in O THEN << >>
                           ELSE IF s \in ActiveSubs(d) THEN Append(LaneOf(d)[s], e)
                           ELSE LaneOf(d)[s]]
    BY <2>6 DEF LaneOf
  <2>8. Lanes!Post(e, O)
    BY <2>5, <2>7 DEF Lanes!Post, LaneOf
  <2> QED BY <2>5, <2>8 DEF Lanes!Next
<1> QED BY <1>1, <1>2

-----------------------------------------------------------------------------
(* Emissions and flushes.                                                   *)
LEMMA Nothing == << >> \in Seq(EventSeqs) /\ Carried(<< >>) = {} /\ OneDelivery(<< >>)
<1>1. << >> \in Seq(EventSeqs)
  OBVIOUS
<1> QED BY <1>1, CarriedBy DEF OneDelivery

LEMMA FlushFacts ==
  ASSUME Inv
  PROVE  /\ FlushDeliveries \in Seq(EventSeqs) /\ OneDelivery(FlushDeliveries)
         /\ Carried(FlushDeliveries) \subseteq WaitingIn(buffered)
         /\ KeptByFlush \in BufferType /\ SizeOf(KeptByFlush) <= SizeOf(buffered)
         /\ GoneByFlush \union WaitingIn(KeptByFlush) = WaitingIn(buffered)
         /\ SizeOf(KeptByFlush) \in Nat /\ SizeOf(buffered) \in Nat
         /\ WaitingIn(buffered) \subseteq Events /\ ToSet(KeptByFlush.plain) = {}
<1>1. buffered \in BufferType /\ SizeOf(buffered) <= Len(log) /\ seed \in {"unset", "true", "false"}
  BY DEF Inv, BufferSound, ControlTypes
<1>2. /\ Payload \in EventSeqs /\ Len(Payload) <= SizeOf(buffered)
      /\ FlushDeliveries \in Seq(EventSeqs)
      /\ FlushDeliveries = << >> \/ (Payload # << >> /\ FlushDeliveries = <<Payload>>)
      /\ Carried(FlushDeliveries) \subseteq WaitingIn(buffered)
      /\ KeptByFlush \in BufferType /\ SizeOf(KeptByFlush) <= SizeOf(buffered)
      /\ GoneByFlush \union WaitingIn(KeptByFlush) = WaitingIn(buffered)
      /\ ToSet(KeptByFlush.plain) = {}
  BY <1>1, Flushes
<1>3. /\ SizeOf(KeptByFlush) \in Nat /\ SizeOf(buffered) \in Nat
      /\ WaitingIn(buffered) \subseteq Events
  BY <1>1, <1>2, WaitingType
<1> DEFINE p == Payload
<1>4. p \in EventSeqs /\ Len(p) <= SizeOf(buffered)
  BY <1>2
<1>5. FlushDeliveries = << >> \/ (p # << >> /\ FlushDeliveries = <<p>>)
  BY <1>2
<1> HIDE DEF p
<1>6. Len(p) <= MaxEmits
  <2>1. Len(p) \in Nat
    BY <1>4 DEF EventSeqs
  <2>2. Len(log) \in Nat /\ Len(log) <= MaxEmits /\ MaxEmits \in Nat
    BY InvParts, EmitterAssumption
  <2> DEFINE a == Len(p)
             b == SizeOf(buffered)
             c == Len(log)
  <2>3. a \in Nat /\ b \in Nat /\ c \in Nat /\ a <= b /\ b <= c /\ c <= MaxEmits /\ MaxEmits \in Nat
    BY <1>1, <1>3, <1>4, <2>1, <2>2
  <2> HIDE DEF a, b, c
  <2>4. a <= MaxEmits
    BY <2>3
  <2> QED BY <2>4 DEF a
<1>7. OneDelivery(FlushDeliveries)
  BY <1>4, <1>5, <1>6, DeliveryTypes DEF OneDelivery
<1> QED BY <1>2, <1>3, <1>7

(* The dispatcher has taken a dispatch.                                     *)
LEMMA DispatchStep ==
  ASSUME Inv, NEW x \in Seq(EventSeqs), NEW y \in Seq(EventSeqs), OneDelivery(y),
         ~Refused(d, x, y), d' = Enqueued(d, x, y), Grown(ActiveTaps(d), x, y, log, log'),
         seen' = seen, handled' = handled, ControlTypes', log' \in LogType, Len(log') <= MaxEmits,
         BufferSound(buffered', posted', log'), NoneLost(buffered', posted', log')
  PROVE  LaneStep
<1>1. /\ DispatchSound(d', log', seen)
      /\ Promised(d, d', EntriesOf(d), EntriesOf(d'), y)
  BY DispatcherSound, DispatchKeeps
<1>2. \A s \in Subs : d'.sub[s].status = "new" => d.sub[s].status = "new"
  BY <1>1 DEF Promised
<1>3. HandledSound'
  BY <1>2 DEF Inv, HandledSound
<1>4. HistoryTypes'
  <2>1. HistoryTypes
    BY DEF Inv
  <2> QED BY <2>1 DEF HistoryTypes
<1>5. DispatchSound(d', log', seen')
  BY <1>1
<1>6. Inv'
  BY <1>3, <1>4, <1>5 DEF Inv
<1>7. [Lanes!Next]_<<ActiveSubs(d), LaneOf(d), handled>>
  BY <1>1, PostStep
<1> QED BY <1>6, <1>7 DEF LaneStep

LEMMA FlushStep ==
  ASSUME Inv, FlushAccepted, ~FlushRefused, log' = log, seen' = seen, handled' = handled,
         ControlTypes'
  PROVE  LaneStep
<1> DEFINE y == FlushDeliveries
<1>1. /\ d' = Enqueued(d, << >>, y) /\ buffered' = KeptByFlush
      /\ posted' = posted \union GoneByFlush /\ ~Refused(d, << >>, y)
  BY DEF FlushAccepted, FlushRefused
<1>2. /\ y \in Seq(EventSeqs) /\ OneDelivery(y)
      /\ Carried(y) \subseteq WaitingIn(buffered)
      /\ KeptByFlush \in BufferType /\ SizeOf(KeptByFlush) <= SizeOf(buffered)
      /\ GoneByFlush \union WaitingIn(KeptByFlush) = WaitingIn(buffered)
      /\ SizeOf(KeptByFlush) \in Nat /\ SizeOf(buffered) \in Nat
      /\ WaitingIn(buffered) \subseteq Events /\ ToSet(KeptByFlush.plain) = {}
  BY FlushFacts
<1> HIDE DEF y
<1>3. /\ BufferSound(buffered, posted, log) /\ NoneLost(buffered, posted, log)
      /\ log \in LogType /\ Len(log) <= MaxEmits /\ Len(log) \in Nat
  BY InvParts DEF Inv, HistoryTypes
<1>4. /\ \A n \in WaitingIn(buffered) \union posted : Known(log, n)
      /\ SizeOf(buffered) <= Len(log) /\ posted \subseteq Events
  BY <1>3 DEF BufferSound
<1>5. Grown(ActiveTaps(d), << >>, y, log, log)
  <2>1. \A n \in Carried(y) : n \in 1..Len(log)
    BY <1>2, <1>4 DEF Known
  <2> QED BY <2>1, Nothing DEF Grown, LogIn
<1>6. BufferSound(buffered', posted', log)
  <2>1. SizeOf(KeptByFlush) <= Len(log)
    BY <1>2, <1>3, <1>4
  <2> QED BY <1>1, <1>2, <1>4, <2>1 DEF BufferSound
<1>7. NoneLost(buffered', posted', log)
  BY <1>1, <1>2, <1>3 DEF NoneLost
<1> QED BY <1>1, <1>2, <1>3, <1>5, <1>6, <1>7, Nothing, DispatchStep

(* One more emission in the log.                                            *)
OneMore(lg, lh, n) ==
    /\ lh \in LogType /\ Len(lh) = n /\ n = Len(lg) + 1 /\ LogIn(lg, lh)
    /\ \A m \in 1..Len(lh) : m \in 1..Len(lg) \/ m = n

LEMMA LogAppend ==
  ASSUME NEW lg \in LogType, NEW r \in [kind : Kinds, ok : BOOLEAN, taps : SUBSET Taps]
  PROVE  OneMore(lg, Append(lg, r), Len(lg) + 1) /\ Append(lg, r)[Len(lg) + 1] = r
<1> DEFINE R == [kind : Kinds, ok : BOOLEAN, taps : SUBSET Taps]
           lh == Append(lg, r)
<1>1. r \in R /\ lg \in Seq(R)
  BY DEF LogType
<1> HIDE DEF R
<1>2. /\ lh \in Seq(R) /\ Len(lg) \in Nat /\ Len(lh) = Len(lg) + 1 /\ lh[Len(lg) + 1] = r
      /\ \A n \in 1..Len(lg) : lh[n] = lg[n]
  BY <1>1
<1> HIDE DEF lh
<1>3. \A n \in 1..Len(lh) : n \in 1..Len(lg) \/ n = Len(lg) + 1
  BY <1>2
<1>4. LogIn(lg, lh)
  <2>1. \A n \in 1..Len(lg) : n \in 1..Len(lh)
    BY <1>2
  <2> QED BY <1>2, <2>1 DEF LogIn
<1> QED BY <1>2, <1>3, <1>4 DEF LogType, R, OneMore, lh

(* What an emission writes in the log; its number is an event.              *)
Accepted(lg, lh, n, kind, taps) ==
    OneMore(lg, lh, n) /\ lh[n].ok /\ lh[n].kind = kind /\ lh[n].taps = taps
Declined(lg, lh, n) == OneMore(lg, lh, n) /\ ~lh[n].ok /\ lh[n].taps = {}

LEMMA NextEvent ==
  ASSUME Inv, Len(log) < MaxEmits, NEW n, n = Len(log) + 1
  PROVE  n \in Events /\ n \in Nat /\ n \in 1..n /\ n <= MaxEmits /\ 1 <= MaxEmits
<1> DEFINE l == Len(log)
<1>1. l \in Nat /\ MaxEmits \in Nat /\ l < MaxEmits /\ n = l + 1
  BY InvParts, EmitterAssumption
<1> HIDE DEF l
<1> QED BY <1>1 DEF Events

LEMMA LogAccepts ==
  ASSUME Inv, NEW kind \in Kinds,
         log' = Append(log, [kind |-> kind, ok |-> TRUE, taps |-> ActiveTaps(d)])
  PROVE  Accepted(log, log', Len(log) + 1, kind, ActiveTaps(d))
<1> DEFINE r == [kind |-> kind, ok |-> TRUE, taps |-> ActiveTaps(d)]
<1>1. /\ r \in [kind : Kinds, ok : BOOLEAN, taps : SUBSET Taps]
      /\ r.ok /\ r.kind = kind /\ r.taps = ActiveTaps(d)
  BY DEF ActiveTaps
<1>2. log \in LogType /\ log' = Append(log, r)
  BY DEF Inv, HistoryTypes
<1> HIDE DEF r
<1>3. OneMore(log, Append(log, r), Len(log) + 1) /\ Append(log, r)[Len(log) + 1] = r
  BY <1>1, <1>2, LogAppend
<1> QED BY <1>1, <1>2, <1>3 DEF Accepted

LEMMA LogDeclines ==
  ASSUME Inv, NEW kind \in Kinds, log' = Append(log, [kind |-> kind, ok |-> FALSE, taps |-> {}])
  PROVE  Declined(log, log', Len(log) + 1)
<1> DEFINE r == [kind |-> kind, ok |-> FALSE, taps |-> {}]
<1>1. r \in [kind : Kinds, ok : BOOLEAN, taps : SUBSET Taps] /\ ~r.ok /\ r.taps = {}
  OBVIOUS
<1>2. log \in LogType /\ log' = Append(log, r)
  BY DEF Inv, HistoryTypes
<1> HIDE DEF r
<1>3. OneMore(log, Append(log, r), Len(log) + 1) /\ Append(log, r)[Len(log) + 1] = r
  BY <1>1, <1>2, LogAppend
<1> QED BY <1>1, <1>2, <1>3 DEF Declined

LEMMA StillReplaced ==
  ASSUME NEW lg, NEW lh, Len(lg) \in Nat, LogIn(lg, lh), Len(lh) = Len(lg) + 1,
         NEW m \in 1..Len(lg), ReplacedIn(lg, m)
  PROVE  ReplacedIn(lh, m)
<1>1. PICK k \in (m + 1)..Len(lg) : lg[k].ok /\ lg[k].kind = "plain" /\ lg[m].kind = "plain"
  BY DEF ReplacedIn
<1>2. k \in 1..Len(lg) /\ k \in (m + 1)..Len(lh)
  BY <1>1
<1>3. lh[k] = lg[k] /\ lh[m] = lg[m]
  BY <1>2 DEF LogIn
<1> QED BY <1>1, <1>2, <1>3 DEF ReplacedIn

(* The buffer when an emission is accepted; of plain events the last stays. *)
GrowsBy(b, done, b2, done2, n, kind) ==
    /\ b2 \in BufferType /\ done2 \subseteq Events /\ SizeOf(b2) <= SizeOf(b) + 1
    /\ WaitingIn(b2) \union done2 \subseteq WaitingIn(b) \union done \union {n}
    /\ \A m \in WaitingIn(b) \union done \union {n} :
          m \in WaitingIn(b2) \union done2 \/ (kind = "plain" /\ m \in ToSet(b.plain))
    /\ \/ ToSet(b2.plain) \subseteq ToSet(b.plain)
       \/ kind = "plain" /\ ToSet(b2.plain) = {n}

LEMMA BufferGrows ==
  ASSUME NEW b, NEW done, NEW lg \in LogType, BufferSound(b, done, lg), NoneLost(b, done, lg),
         NEW lh, NEW n, OneMore(lg, lh, n), Known(lh, n),
         NEW b2, NEW done2, GrowsBy(b, done, b2, done2, n, lh[n].kind)
  PROVE  BufferSound(b2, done2, lh) /\ NoneLost(b2, done2, lh)
<1> DEFINE kind == lh[n].kind
<1>8. /\ LogIn(lg, lh) /\ Len(lh) = Len(lg) + 1 /\ n = Len(lg) + 1 /\ Len(lg) \in Nat
      /\ \A m \in 1..Len(lh) : m \in 1..Len(lg) \/ m = n
  BY LogTypes DEF OneMore
<1>9. /\ b2 \in BufferType /\ done2 \subseteq Events /\ SizeOf(b2) <= SizeOf(b) + 1
      /\ WaitingIn(b2) \union done2 \subseteq WaitingIn(b) \union done \union {n}
      /\ \A m \in WaitingIn(b) \union done \union {n} :
            m \in WaitingIn(b2) \union done2 \/ (kind = "plain" /\ m \in ToSet(b.plain))
      /\ \/ ToSet(b2.plain) \subseteq ToSet(b.plain)
         \/ kind = "plain" /\ ToSet(b2.plain) = {n}
  BY DEF GrowsBy
<1>7. /\ \A m \in ToSet(b.plain) : lg[m].kind = "plain" /\ m \in WaitingIn(b)
      /\ \A m \in 1..Len(lg) : m \in 1..Len(lh) /\ lh[m] = lg[m]
  BY <1>8 DEF BufferSound, WaitingIn, LogIn
<1>1. /\ b \in BufferType /\ SizeOf(b) <= Len(lg)
      /\ \A m \in WaitingIn(b) \union done : Known(lg, m)
  BY DEF BufferSound
<1>2. \A m : Known(lg, m) => Known(lh, m)
  BY <1>8 DEF Known, LogIn
<1>3. \A m \in WaitingIn(b2) \union done2 : Known(lh, m)
  BY <1>1, <1>2, <1>9
<1>4. SizeOf(b2) <= Len(lh)
  <2>1. SizeOf(b) \in Nat /\ SizeOf(b2) \in Nat /\ Len(lg) \in Nat
    BY <1>1, <1>9, WaitingType, LogTypes
  <2> DEFINE u == SizeOf(b)
             v == SizeOf(b2)
             l == Len(lg)
             m == Len(lh)
  <2>2. u \in Nat /\ v \in Nat /\ l \in Nat /\ u <= l /\ v <= u + 1 /\ m = l + 1
    BY <1>1, <1>8, <1>9, <2>1
  <2> HIDE DEF u, v, l, m
  <2>3. v <= m
    BY <2>2
  <2> QED BY <2>3 DEF v, m
<1>10. \A m \in ToSet(b.plain) : m \in 1..Len(lg) /\ lh[m].kind = "plain"
  BY <1>1, <1>7 DEF Known
<1>11. \A m \in ToSet(b2.plain) : lh[m].kind = "plain"
  BY <1>9, <1>10
<1>5. BufferSound(b2, done2, lh)
  BY <1>3, <1>4, <1>9, <1>11 DEF BufferSound
<1>6. NoneLost(b2, done2, lh)
  <2> SUFFICES ASSUME NEW m \in 1..Len(lh), lh[m].ok
               PROVE  m \in done2 \union WaitingIn(b2) \/ ReplacedIn(lh, m)
    BY DEF NoneLost
  <2>1. CASE m \in WaitingIn(b) \union done \union {n}
    <3>1. CASE m \in WaitingIn(b2) \union done2
      BY <3>1
    <3>2. CASE kind = "plain" /\ m \in ToSet(b.plain)
      <4>1. m \in 1..Len(lg) /\ lh[m].kind = "plain" /\ lh[n].kind = "plain" /\ lh[n].ok
        BY <1>10, <3>2 DEF Known
      <4>2. n \in (m + 1)..Len(lh)
        BY <1>8, <4>1
      <4> QED BY <4>1, <4>2 DEF ReplacedIn
    <3> QED BY <1>9, <2>1, <3>1, <3>2
  <2>2. CASE m \notin WaitingIn(b) \union done \union {n}
    <3>1. m \in 1..Len(lg) /\ lg[m].ok
      BY <1>7, <1>8, <2>2
    <3>2. ReplacedIn(lg, m)
      BY <2>2, <3>1 DEF NoneLost
    <3>3. ReplacedIn(lh, m)
      BY <1>8, <3>1, <3>2, StillReplaced
    <3> QED BY <3>3
  <2> QED BY <2>1, <2>2
<1> QED BY <1>5, <1>6

-----------------------------------------------------------------------------
(* An emission that is accepted, of n; y is for the subscribers now.         *)
LEMMA EmitKeeps ==
  ASSUME Inv, NEW kind \in Kinds, Len(log) < MaxEmits,
         Accepted(log, log', Len(log) + 1, kind, ActiveTaps(d)),
         seen' = seen, handled' = handled, ControlTypes',
         NEW n, n = Len(log) + 1, NEW y \in Seq(EventSeqs), OneDelivery(y),
         Carried(y) \subseteq WaitingIn(buffered) \union {n},
         ~Refused(d, <<<<n>>>>, y), d' = Enqueued(d, <<<<n>>>>, y),
         GrowsBy(buffered, posted, buffered', posted', n, kind)
  PROVE  LaneStep
<1> DEFINE x == <<<<n>>>>
<1>1. log \in LogType
  BY DEF Inv, HistoryTypes
<1>2. OneMore(log, log', n) /\ log'[n].ok /\ log'[n].kind = kind /\ log'[n].taps = ActiveTaps(d)
  BY DEF Accepted
<1>3. /\ log' \in LogType /\ Len(log') = n /\ LogIn(log, log')
      /\ \A m \in 1..Len(log') : m \in 1..Len(log) \/ m = n
  BY <1>2 DEF OneMore
<1>4. n \in Events /\ n \in 1..Len(log') /\ Len(log') <= MaxEmits
  BY <1>3, NextEvent
<1>5. Known(log', n)
  BY <1>2, <1>4 DEF Known
<1>6. x \in Seq(EventSeqs) /\ Carried(x) = {n}
  <2>1. <<n>> \in EventSeqs /\ ToSet(<<n>>) = {n}
    BY <1>4 DEF EventSeqs, ToSet
  <2>2. << >> \in Seq(EventSeqs)
    OBVIOUS
  <2> QED BY <2>1, <2>2, CarriedBy
<1> HIDE DEF x
<1>7. \A m \in WaitingIn(buffered) : m \in 1..Len(log)
  BY DEF Inv, BufferSound, Known
<1>8. Grown(ActiveTaps(d), x, y, log, log')
  <2>1. \A m \in Carried(y) : m \in 1..Len(log')
    BY <1>3, <1>4, <1>7 DEF LogIn
  <2> QED BY <1>2, <1>3, <1>5, <1>6, <2>1 DEF Grown
<1>9. BufferSound(buffered', posted', log') /\ NoneLost(buffered', posted', log')
  <2>1. BufferSound(buffered, posted, log) /\ NoneLost(buffered, posted, log)
    BY DEF Inv
  <2> QED BY <1>1, <1>2, <1>5, <2>1, BufferGrows
<1> QED BY <1>3, <1>4, <1>6, <1>8, <1>9, DispatchStep DEF x

LEMMA EmitThroughStep ==
  ASSUME Inv, NEW kind \in Kinds, Len(log) < MaxEmits, EmitThrough(kind),
         Accepted(log, log', Len(log) + 1, kind, ActiveTaps(d)),
         seen' = seen, handled' = handled, ControlTypes'
  PROVE  LaneStep
<1> DEFINE n == Len(log) + 1
           y == <<<<n>>>>
<1>1. /\ ~Refused(d, <<<<n>>>>, y) /\ d' = Enqueued(d, <<<<n>>>>, y)
      /\ posted' = posted \union {n} /\ buffered' = buffered
  BY DEF EmitThrough
<1>2. n \in Events /\ 1 <= MaxEmits
  BY NextEvent
<1>3. <<n>> \in EventSeqs /\ ToSet(<<n>>) = {n} /\ Len(<<n>>) = 1 /\ <<n>> # << >>
  BY <1>2 DEF EventSeqs, ToSet
<1>4. y \in Seq(EventSeqs) /\ Carried(y) = {n} /\ OneDelivery(y)
  <2>1. << >> \in Seq(EventSeqs)
    OBVIOUS
  <2>2. <<n>> \in AllDeliveries
    BY <1>2, <1>3, DeliveryTypes
  <2>3. y \in Seq(EventSeqs)
    BY <1>3
  <2>4. Carried(y) = {n}
    BY <1>3, <2>1, CarriedBy
  <2> QED BY <2>2, <2>3, <2>4 DEF OneDelivery
<1> HIDE DEF y
<1>5. buffered \in BufferType /\ posted \subseteq Events /\ SizeOf(buffered) \in Nat
  BY InvParts, WaitingType
<1> HIDE DEF n
<1>6. /\ Carried(y) \subseteq WaitingIn(buffered) \union {n}
      /\ buffered' \in BufferType /\ SizeOf(buffered') <= SizeOf(buffered) + 1
      /\ posted' \subseteq Events
      /\ WaitingIn(buffered') \union posted' = WaitingIn(buffered) \union posted \union {n}
      /\ ToSet(buffered'.plain) = ToSet(buffered.plain)
  <2>1. SizeOf(buffered') <= SizeOf(buffered) + 1
    BY <1>1, <1>5
  <2> QED BY <1>1, <1>2, <1>4, <1>5, <2>1
<1>8. GrowsBy(buffered, posted, buffered', posted', n, kind)
  BY <1>6 DEF GrowsBy
<1>7. n = Len(log) + 1
  BY DEF n
<1> QED BY <1>1, <1>4, <1>6, <1>7, <1>8, EmitKeeps

LEMMA EmitBufferedStep ==
  ASSUME Inv, NEW kind \in Kinds, Len(log) < MaxEmits, EmitBuffered(kind),
         Accepted(log, log', Len(log) + 1, kind, ActiveTaps(d)),
         seen' = seen, handled' = handled, ControlTypes'
  PROVE  LaneStep
<1> DEFINE n == Len(log) + 1
           b == Buffered(buffered, kind, n)
<1>1. /\ ~Refused(d, <<<<n>>>>, << >>) /\ d' = Enqueued(d, <<<<n>>>>, << >>)
      /\ posted' = posted /\ buffered' = b /\ kind # "direct"
  BY DEF EmitBuffered
<1>2. n \in Events
  BY NextEvent
<1>3. buffered \in BufferType /\ posted \subseteq Events
  BY InvParts
<1> HIDE DEF n
<1>4. /\ b \in BufferType /\ WaitingIn(b) \subseteq WaitingIn(buffered) \union {n}
      /\ n \in WaitingIn(b) /\ SizeOf(b) <= SizeOf(buffered) + 1
      /\ \A m \in WaitingIn(buffered) :
            m \in WaitingIn(b) \/ (kind = "plain" /\ m \in ToSet(buffered.plain))
      /\ ToSet(b.plain) = ToSet(buffered.plain) \/ (kind = "plain" /\ ToSet(b.plain) = {n})
  BY <1>1, <1>2, <1>3, Buffers
<1> HIDE DEF b
<1>5. /\ Carried(<< >>) \subseteq WaitingIn(buffered) \union {n}
      /\ << >> \in Seq(EventSeqs) /\ OneDelivery(<< >>)
  BY Nothing
<1>6. /\ buffered' \in BufferType /\ SizeOf(buffered') <= SizeOf(buffered) + 1
      /\ posted' \subseteq Events
      /\ WaitingIn(buffered') \union posted' \subseteq WaitingIn(buffered) \union posted \union {n}
      /\ \A m \in WaitingIn(buffered) \union posted \union {n} :
            \/ m \in WaitingIn(buffered') \union posted'
            \/ kind = "plain" /\ m \in ToSet(buffered.plain)
      /\ \/ ToSet(buffered'.plain) \subseteq ToSet(buffered.plain)
         \/ kind = "plain" /\ ToSet(buffered'.plain) = {n}
  BY <1>1, <1>3, <1>4
<1>7. n = Len(log) + 1
  BY DEF n
<1>8. GrowsBy(buffered, posted, buffered', posted', n, kind)
  BY <1>6 DEF GrowsBy
<1> QED BY <1>1, <1>5, <1>7, <1>8, EmitKeeps

LEMMA EmitBoundaryStep ==
  ASSUME Inv, NEW kind \in Kinds, Len(log) < MaxEmits, EmitBoundary(kind),
         Accepted(log, log', Len(log) + 1, kind, ActiveTaps(d)),
         seen' = seen, handled' = handled, ControlTypes'
  PROVE  LaneStep
<1> DEFINE n == Len(log) + 1
           k == KeptByFlush
           b == Buffered(k, kind, n)
           y == FlushDeliveries
<1>1. /\ ~Refused(d, <<<<n>>>>, y) /\ d' = Enqueued(d, <<<<n>>>>, y)
      /\ posted' = posted \union GoneByFlush /\ buffered' = b
  BY DEF EmitBoundary
<1>2. kind # "direct"
  BY DEF EmitBoundary, Boundary, Upsert
<1>3. n \in Events /\ posted \subseteq Events
  BY InvParts, NextEvent
<1>4. /\ y \in Seq(EventSeqs) /\ OneDelivery(y)
      /\ Carried(y) \subseteq WaitingIn(buffered)
      /\ k \in BufferType /\ SizeOf(k) <= SizeOf(buffered)
      /\ GoneByFlush \union WaitingIn(k) = WaitingIn(buffered)
      /\ SizeOf(k) \in Nat /\ SizeOf(buffered) \in Nat
      /\ WaitingIn(buffered) \subseteq Events /\ ToSet(k.plain) = {}
  BY FlushFacts
<1> HIDE DEF n, k, y
<1>5. /\ b \in BufferType /\ WaitingIn(b) \subseteq WaitingIn(k) \union {n}
      /\ n \in WaitingIn(b) /\ SizeOf(b) <= SizeOf(k) + 1
      /\ \A m \in WaitingIn(k) : m \in WaitingIn(b)
      /\ ToSet(b.plain) = {} \/ (kind = "plain" /\ ToSet(b.plain) = {n})
  BY <1>2, <1>3, <1>4, Buffers
<1>6. SizeOf(b) \in Nat
  BY <1>5, WaitingType
<1> HIDE DEF b
<1>7. SizeOf(b) <= SizeOf(buffered) + 1
  BY <1>4, <1>5, <1>6
<1>8. /\ buffered' \in BufferType /\ SizeOf(buffered') <= SizeOf(buffered) + 1
      /\ posted' \subseteq Events
      /\ WaitingIn(buffered') \union posted' \subseteq WaitingIn(buffered) \union posted \union {n}
      /\ \A m \in WaitingIn(buffered) \union posted \union {n} :
            \/ m \in WaitingIn(buffered') \union posted'
            \/ kind = "plain" /\ m \in ToSet(buffered.plain)
      /\ \/ ToSet(buffered'.plain) \subseteq ToSet(buffered.plain)
         \/ kind = "plain" /\ ToSet(buffered'.plain) = {n}
  BY <1>1, <1>3, <1>4, <1>5, <1>7
<1>9. n = Len(log) + 1 /\ Carried(y) \subseteq WaitingIn(buffered) \union {n}
  BY <1>4 DEF n
<1>10. GrowsBy(buffered, posted, buffered', posted', n, kind)
  BY <1>8 DEF GrowsBy
<1> QED BY <1>1, <1>4, <1>9, <1>10, EmitKeeps

LEMMA EmitRefusedStep ==
  ASSUME Inv, NEW kind \in Kinds, Len(log) < MaxEmits, EmitRefused(kind),
         Declined(log, log', Len(log) + 1),
         seen' = seen, handled' = handled, ControlTypes'
  PROVE  Quiet
<1>1. d' = d /\ posted' = posted /\ buffered' = buffered
  BY DEF EmitRefused
<1> DEFINE n == Len(log) + 1
<1>2. OneMore(log, log', n) /\ ~log'[n].ok /\ log'[n].taps = {}
  BY DEF Declined
<1>3. /\ log' \in LogType /\ Len(log') = n /\ LogIn(log, log') /\ n = Len(log) + 1
      /\ \A m \in 1..Len(log') : m \in 1..Len(log) \/ m = n
  BY <1>2 DEF OneMore
<1>4. n \in Nat /\ Len(log') <= MaxEmits
  BY <1>3, NextEvent
<1> HIDE DEF n
<1>5. DispatchSound(d, log', seen)
  <2>1. \A m \in 1..Len(log') : m \in 1..Len(log) \/ log'[m].taps = {}
    BY <1>2, <1>3
  <2> QED BY <1>3, <2>1, DispatcherSound, LogKeeps
<1>6. BufferSound(buffered', posted', log')
  <2>1. BufferSound(buffered, posted, log)
    BY DEF Inv
  <2>2. \A m : Known(log, m) => Known(log', m) /\ log'[m] = log[m]
    BY <1>3 DEF Known, LogIn
  <2>4. \A m \in ToSet(buffered.plain) : log'[m].kind = "plain"
    BY <2>1, <2>2 DEF BufferSound, WaitingIn
  <2>3. SizeOf(buffered) <= Len(log')
    <3> DEFINE l == Len(log)
               k == SizeOf(buffered)
    <3>1. k <= l /\ k \in Nat /\ l \in Nat /\ n = l + 1
      BY <1>3, <2>1, InvParts, WaitingType DEF BufferSound
    <3> HIDE DEF l, k
    <3>2. k <= n
      BY <3>1
    <3> QED BY <1>3, <3>2 DEF k
  <2> QED BY <1>1, <2>1, <2>2, <2>3, <2>4 DEF BufferSound
<1>7. NoneLost(buffered', posted', log')
  <2> SUFFICES ASSUME NEW m \in 1..Len(log'), log'[m].ok
               PROVE  m \in posted \union WaitingIn(buffered) \/ ReplacedIn(log', m)
    BY <1>1 DEF NoneLost
  <2>1. m # n
    BY <1>2
  <2>2. m \in 1..Len(log) /\ log[m].ok
    BY <1>3, <2>1 DEF LogIn
  <2>3. m \in posted \union WaitingIn(buffered) \/ ReplacedIn(log, m)
    BY <2>2 DEF Inv, NoneLost
  <2>4. Len(log) \in Nat /\ Len(log') = Len(log) + 1
    BY <1>3, InvParts
  <2> QED BY <1>3, <2>2, <2>3, <2>4, StillReplaced
<1>8. HistoryTypes' /\ HandledSound'
  BY <1>1, <1>3, <1>4 DEF Inv, HistoryTypes, HandledSound
<1>9. Inv'
  BY <1>1, <1>5, <1>6, <1>7, <1>8 DEF Inv
<1> QED BY <1>1, <1>9 DEF Quiet

-----------------------------------------------------------------------------
(* An emission, whatever becomes of it.                                     *)
LEMMA EmitControl ==
  ASSUME Inv, NEW kind \in Kinds, Emit(kind)
  PROVE  ControlTypes' /\ seen' = seen /\ handled' = handled /\ Len(log) < MaxEmits
<1>1. /\ ControlTypes /\ timer \in [Timers -> {"nil", "armed", "spent"}]
      /\ bufferCount \in 0..MaxBuffers
  BY DEF Inv, ControlTypes
<1>2. /\ Len(log) < MaxEmits
      /\ UNCHANGED <<seed, message, functions, available, faults, seen, handled>>
  BY DEF Emit
<1>3. EmitThrough(kind) \/ EmitBuffered(kind) \/ EmitBoundary(kind) \/ EmitRefused(kind)
  BY DEF Emit
<1>4. buffering' = buffering /\ bufferCount' \in {bufferCount, 0}
      /\ timer' \in {timer, NoTimers, Cancelled}
  BY <1>3 DEF EmitThrough, EmitBuffered, EmitBoundary, EmitRefused
<1>5. timer' \in [Timers -> {"nil", "armed", "spent"}]
  BY <1>1, <1>4, TimerTypes
<1>6. bufferCount' \in 0..MaxBuffers
  BY <1>1, <1>4, CountTypes
<1>7. ControlTypes'
  BY <1>1, <1>2, <1>4, <1>5, <1>6 DEF ControlTypes
<1> QED BY <1>2, <1>7

LEMMA EmitStep == ASSUME Inv, NEW kind \in Kinds, Emit(kind) PROVE LaneStep
<1>1. ControlTypes' /\ seen' = seen /\ handled' = handled /\ Len(log) < MaxEmits
  BY EmitControl
<1>2. CASE /\ EmitThrough(kind) \/ EmitBuffered(kind) \/ EmitBoundary(kind)
           /\ log' = Append(log, [kind |-> kind, ok |-> TRUE, taps |-> ActiveTaps(d)])
  <2>1. Accepted(log, log', Len(log) + 1, kind, ActiveTaps(d))
    BY <1>2, LogAccepts
  <2>2. CASE EmitThrough(kind)
    BY <1>1, <2>1, <2>2, EmitThroughStep
  <2>3. CASE EmitBuffered(kind)
    BY <1>1, <2>1, <2>3, EmitBufferedStep
  <2>4. CASE EmitBoundary(kind)
    BY <1>1, <2>1, <2>4, EmitBoundaryStep
  <2> QED BY <1>2, <2>2, <2>3, <2>4
<1>3. CASE /\ EmitRefused(kind)
           /\ log' = Append(log, [kind |-> kind, ok |-> FALSE, taps |-> {}])
  <2>1. Declined(log, log', Len(log) + 1)
    BY <1>3, LogDeclines
  <2>2. Quiet
    BY <1>1, <1>3, <2>1, EmitRefusedStep
  <2> QED BY <2>2, QuietIsStep
<1> QED BY <1>2, <1>3 DEF Emit

(* The three ways to a flush: a call, and the messages of the two timers.   *)
LEMMA FlushControl ==
  ASSUME Inv, UNCHANGED <<seed, functions, available, faults>>,
         message' \in [Timers -> BOOLEAN], buffering' \in BOOLEAN,
         bufferCount' \in {bufferCount, 0},
         \/ timer' \in {timer, NoTimers, Cancelled}
         \/ \E x \in Timers : timer' = [Cancelled EXCEPT ![x] = "armed"]
         \/ \E x \in Timers : timer' = [timer EXCEPT ![x] = "nil"]
  PROVE  ControlTypes'
<1>1. /\ ControlTypes /\ timer \in [Timers -> {"nil", "armed", "spent"}]
      /\ bufferCount \in 0..MaxBuffers
  BY DEF Inv, ControlTypes
<1>2. timer' \in [Timers -> {"nil", "armed", "spent"}]
  BY <1>1, TimerTypes
<1>3. bufferCount' \in 0..MaxBuffers
  BY <1>1, CountTypes
<1> QED BY <1>1, <1>2, <1>3 DEF ControlTypes

LEMMA FlushCallStep == ASSUME Inv, Flush PROVE LaneStep
<1>1. /\ UNCHANGED <<seed, functions, available, faults>> /\ message' = message
      /\ log' = log /\ seen' = seen /\ handled' = handled
  BY DEF Flush
<1>2. buffering \in BOOLEAN /\ message' \in [Timers -> BOOLEAN]
  BY <1>1 DEF Inv, ControlTypes
<1>3. CASE buffering /\ ~FlushRefused /\ FlushAccepted
  <2>1. buffering' = FALSE /\ bufferCount' = 0 /\ timer' = NoTimers
    BY <1>3 DEF FlushAccepted
  <2>2. ControlTypes'
    BY <1>1, <1>2, <2>1, FlushControl
  <2> QED BY <1>1, <1>3, <2>2, FlushStep
<1>4. CASE /\ UNCHANGED <<d, buffering, bufferCount, buffered, posted>>
           /\ timer' \in {timer, Cancelled}
  <2>1. ControlTypes'
    BY <1>1, <1>2, <1>4, FlushControl
  <2>2. UNCHANGED <<d, buffered, history>>
    BY <1>1, <1>4 DEF history
  <2>3. Quiet
    BY <2>1, <2>2, ControlFrame DEF Quiet
  <2> QED BY <2>3, QuietIsStep
<1> QED BY <1>3, <1>4 DEF Flush

LEMMA WhenAvailableStep ==
  ASSUME Inv, FlushWhenAvailable, UNCHANGED <<seed, functions, available, faults>>,
         message' \in [Timers -> BOOLEAN], log' = log, seen' = seen, handled' = handled
  PROVE  LaneStep
<1>1. buffering \in BOOLEAN
  BY DEF Inv, ControlTypes
<1>2. CASE ~FlushRefused /\ FlushAccepted
  <2>1. buffering' = FALSE /\ bufferCount' = 0 /\ timer' = NoTimers
    BY <1>2 DEF FlushAccepted
  <2>2. ControlTypes'
    BY <2>1, FlushControl
  <2> QED BY <1>2, <2>2, FlushStep
<1>3. CASE /\ timer' = [Cancelled EXCEPT !["flush"] = "armed"]
           /\ UNCHANGED <<d, buffering, bufferCount, buffered, posted>>
  <2>1. "flush" \in Timers
    BY DEF Timers
  <2>2. ControlTypes'
    BY <1>1, <1>3, <2>1, FlushControl
  <2>3. UNCHANGED <<d, buffered, history>>
    BY <1>3 DEF history
  <2>4. Quiet
    BY <2>2, <2>3, ControlFrame DEF Quiet
  <2> QED BY <2>4, QuietIsStep
<1> QED BY <1>2, <1>3 DEF FlushWhenAvailable

LEMMA TimeoutStep == ASSUME Inv, BufferTimeout \/ FlushPending PROVE LaneStep
<1>1. /\ UNCHANGED <<seed, functions, available, faults>>
      /\ log' = log /\ seen' = seen /\ handled' = handled
  BY DEF BufferTimeout, FlushPending
<1>2. buffering \in BOOLEAN /\ message \in [Timers -> BOOLEAN]
  BY DEF Inv, ControlTypes
<1>3. \E x \in Timers, v \in BOOLEAN : message' = [message EXCEPT ![x] = v]
  BY DEF BufferTimeout, FlushPending, Timers
<1>4. message' \in [Timers -> BOOLEAN]
  BY <1>2, <1>3
<1>5. CASE FlushWhenAvailable
  BY <1>1, <1>4, <1>5, WhenAvailableStep
<1>6. CASE /\ UNCHANGED <<d, buffering, bufferCount, buffered, posted>>
           /\ \E x \in Timers : timer' = [timer EXCEPT ![x] = "nil"]
  <2>1. ControlTypes'
    BY <1>1, <1>2, <1>4, <1>6, FlushControl
  <2>2. UNCHANGED <<d, buffered, history>>
    BY <1>1, <1>6 DEF history
  <2>3. Quiet
    BY <2>1, <2>2, ControlFrame DEF Quiet
  <2> QED BY <2>3, QuietIsStep
<1> QED BY <1>5, <1>6 DEF BufferTimeout, FlushPending, Timers

-----------------------------------------------------------------------------
(* The initial state.                                                       *)
LEMMA InitialRecords ==
  ASSUME Init
  PROVE  /\ d \in States /\ d.queue = << >> /\ d.task = "none" /\ d.entry = NoEntry
         /\ \A s \in Subs : /\ d.sub[s].status \in {"new", "on"} /\ d.sub[s].reserved = 0
                            /\ d.sub[s].queue = << >> /\ d.sub[s].task = "none"
                            /\ d.sub[s].entry = << >>
         /\ \A t \in Taps : d.tap[t] = NewTap
<1>1. d = [queue |-> << >>, task |-> "none", entry |-> NoEntry, retry |-> FALSE,
           sub |-> [s \in Subs |-> [NewSubscriber EXCEPT
                        !.status = IF s \in InitialSubs THEN "on" ELSE "new"]],
           tap |-> [t \in Taps |-> NewTap]]
  BY DEF Init
<1>2. /\ d.queue = << >> /\ d.task = "none" /\ d.entry = NoEntry /\ d.retry = FALSE
      /\ d.tap = [t \in Taps |-> NewTap]
      /\ d.sub = [s \in Subs |-> [NewSubscriber EXCEPT
                        !.status = IF s \in InitialSubs THEN "on" ELSE "new"]]
  BY <1>1
<1>3. \A s \in Subs : /\ d.sub[s].status \in {"new", "on"} /\ d.sub[s].reserved = 0
                      /\ d.sub[s].queue = << >> /\ d.sub[s].task = "none"
                      /\ d.sub[s].entry = << >>
  BY <1>2 DEF NewSubscriber
<1>4. d \in States
  <2>1. << >> \in Seq(EntryType) /\ << >> \in EventSeqs /\ << >> \in Seq(EventSeqs)
    BY DEF EventSeqs
  <2> DEFINE r(v) == [NewSubscriber EXCEPT !.status = v]
  <2>2. "new" \in Statuses /\ "on" \in Statuses /\ "none" \in TaskStates
    BY DEF Statuses, TaskStates
  <2>3. r("on") \in SubRecords /\ r("new") \in SubRecords
    BY <2>1, <2>2 DEF SubRecords, NewSubscriber
  <2>4. \A s \in Subs : d.sub[s] \in {r("on"), r("new")}
    BY <1>2
  <2> HIDE DEF r
  <2>5. d.sub = [s \in Subs |-> d.sub[s]]
    BY <1>2
  <2>6. d.sub \in [Subs -> SubRecords]
    BY <2>3, <2>4, <2>5
  <2>7. NewTap \in TapRecords
    BY <2>2 DEF NewTap, TapRecords
  <2>8. d.tap \in [Taps -> TapRecords]
    BY <1>2, <2>7
  <2>9. d = [queue |-> d.queue, task |-> d.task, entry |-> d.entry, retry |-> d.retry,
             sub |-> d.sub, tap |-> d.tap]
    BY <1>1
  <2>10. /\ d.queue \in Seq(EntryType) /\ d.task \in TaskStates /\ d.entry \in EntryType
         /\ d.retry \in BOOLEAN
    BY <1>2, <2>1, <2>2, NoEntryType
  <2> HIDE <1>1, <1>2
  <2> QED BY <2>6, <2>8, <2>9, <2>10 DEF States
<1> QED BY <1>2, <1>3, <1>4

LEMMA InitialSound == ASSUME Init PROVE DispatchSound(d, log, seen)
<1>1. /\ d \in States /\ d.queue = << >> /\ d.task = "none"
      /\ \A s \in Subs : /\ d.sub[s].status \in {"new", "on"} /\ d.sub[s].reserved = 0
                         /\ d.sub[s].queue = << >> /\ d.sub[s].task = "none"
                         /\ d.sub[s].entry = << >>
      /\ \A t \in Taps : d.tap[t] = NewTap
  BY InitialRecords
<1>2. log = << >> /\ \A t \in Taps : seen[t] = {}
  BY DEF Init
<1> DEFINE E == << >>
<1>3. /\ E \in Seq(EntryType) /\ Len(E) = 0 /\ DOMAIN E = {} /\ E \o E = E
      /\ Len(log) = 0 /\ 1..Len(log) = {}
  BY <1>2
<1>4. EntriesOf(d) = E /\ QueueSize(d) = 0
  BY <1>1, <1>3 DEF EntriesOf, QueueSize
<1>5. \A s \in Subs : GatedIn(E, s) = << >>
  BY GatedEmpty
<1>6. ASSUME NEW s \in Subs PROVE SubscriberSound(d.sub[s], s, E)
  <2>1. SubscriberSize(d.sub[s]) = 0
    BY <1>1, <1>3 DEF SubscriberSize
  <2>2. 0 <= MaxQueue
    BY EmitterAssumption
  <2>3. d.sub[s].reserved = Len(GatedIn(E, s))
    BY <1>1, <1>3, <1>5
  <2> HIDE DEF E
  <2> QED BY <1>1, <1>3, <2>1, <2>2, <2>3 DEF SubscriberSound
<1>7. ASSUME NEW t \in Taps PROVE TapSound(d.tap[t], t, E)
  <2>1. ForTap(E, t) = {}
    BY <1>3 DEF ForTap
  <2>2. Cardinality(ForTap(E, t)) = 0
    BY <2>1, FS_EmptySet
  <2> HIDE DEF E
  <2> QED BY <1>1, <2>2 DEF TapSound, NewTap
<1>8. EntriesSound(E, log, seen)
  BY <1>3 DEF EntriesSound
<1>9. LanesSound(d, log, seen)
  <2>1. ToSet(<< >>) = {} /\ Carried(<< >>) = {}
    BY Nothing DEF ToSet
  <2>2. \A s \in Subs : InLane(d.sub[s]) = {}
    BY <1>1, <2>1 DEF InLane
  <2> QED BY <2>2 DEF LanesSound
<1>10. SeenSound(log, seen)
  BY <1>2 DEF SeenSound
<1> HIDE DEF E
<1>11. Sound(d, E, log, seen)
  BY <1>6, <1>7, <1>8, <1>9, <1>10 DEF Sound
<1>12. TaskSound(d, seen)
  BY <1>1 DEF TaskSound
<1>13. QueueSize(d) <= MaxQueue
  BY <1>4, EmitterAssumption
<1> QED BY <1>1, <1>4, <1>11, <1>12, <1>13 DEF DispatchSound

LEMMA InitHolds == ASSUME Init PROVE Inv
<1>1. /\ buffering = FALSE /\ bufferCount = 0 /\ buffered = NothingBuffered /\ seed = "unset"
      /\ timer = [x \in Timers |-> "nil"] /\ message = [x \in Timers |-> FALSE]
      /\ functions = 0 /\ available = TRUE /\ faults = 0 /\ log = << >> /\ posted = {}
      /\ seen = [t \in Taps |-> {}] /\ handled = [s \in Subs |-> << >>]
  BY DEF Init
<1>2. log \in LogType /\ Len(log) = 0 /\ 1..Len(log) = {}
  BY <1>1 DEF LogType
<1>3. BufferSound(buffered, posted, log)
  <2>1. /\ buffered \in BufferType /\ WaitingIn(buffered) = {} /\ SizeOf(buffered) = 0
    BY <1>1, EmptyBuffer
  <2>2. ToSet(buffered.plain) = {}
    BY <2>1 DEF WaitingIn
  <2> QED BY <1>1, <1>2, <2>1, <2>2 DEF BufferSound
<1>4. NoneLost(buffered, posted, log)
  BY <1>2 DEF NoneLost
<1>5. ControlTypes
  <2>1. 0 \in 0..MaxBuffers /\ 0 \in 0..MaxFaults
    BY EmitterAssumption
  <2> QED BY <1>1, <2>1 DEF ControlTypes
<1>6. HistoryTypes
  <2>1. << >> \in Seq(EventSeqs) /\ Len(log) <= MaxEmits
    BY <1>2, EmitterAssumption
  <2>2. handled \in [Subs -> Seq(EventSeqs)] /\ seen \in [Taps -> SUBSET Events]
    BY <1>1, <2>1
  <2> QED BY <1>2, <2>1, <2>2 DEF HistoryTypes
<1>7. HandledSound
  BY <1>1 DEF HandledSound
<1>8. DispatchSound(d, log, seen)
  BY InitialSound
<1> QED BY <1>3, <1>4, <1>5, <1>6, <1>7, <1>8 DEF Inv

(* Nobody has been promised anything.                                       *)
LEMMA InitLanes == ASSUME Init PROVE Lanes!Init
<1>1. /\ d.queue = << >> /\ d.task = "none"
      /\ \A s \in Subs : d.sub[s].queue = << >> /\ d.sub[s].task = "none"
      /\ handled = [s \in Subs |-> << >>]
  BY InitialRecords DEF Init
<1> DEFINE E == EntriesOf(d)
<1>2. E = << >>
  BY <1>1 DEF EntriesOf
<1> HIDE DEF E
<1>3. \A s \in Subs : Lane(d.sub[s], E, s) = << >>
  BY <1>1, <1>2, GatedEmpty DEF Lane
<1>4. [s \in Subs |-> Lane(d.sub[s], EntriesOf(d), s)] = [s \in Subs |-> << >>]
  BY <1>3 DEF E
<1> QED BY <1>1, <1>4 DEF Lanes!Init, ActiveSubs

(* Every step keeps the invariant, and is a step of the lanes or a stutter.  *)
LEMMA StepHolds == ASSUME Inv, [Next]_vars PROVE LaneStep
<1>1. CASE UNCHANGED vars
  <2>1. UNCHANGED <<d, buffered, history>> /\ UNCHANGED <<bufferVars, available, faults>>
    BY <1>1 DEF vars, bufferVars
  <2>2. ControlTypes'
    BY <2>1 DEF bufferVars, Inv, ControlTypes
  <2>3. Quiet
    BY <2>1, <2>2, ControlFrame DEF Quiet
  <2> QED BY <2>3, QuietIsStep
<1>2. CASE Callers
  <2>1. CASE \E kind \in Kinds : Emit(kind)
    BY <2>1, EmitStep
  <2>2. CASE (\E value \in {"true", "false"} : Seed(value)) \/ Buffer \/ BeginFunction
    BY <2>2, ControlStep, QuietIsStep
  <2>3. CASE Flush
    BY <2>3, FlushCallStep
  <2>4. CASE \E s \in Subs : Subscribe(s) \/ Unsubscribe(s)
    BY <2>4, SubscribeStep, UnsubscribeStep
  <2>5. CASE \E t \in Taps : Tap(t) \/ Untap(t)
    BY <2>5, TapStep, QuietIsStep
  <2> QED BY <1>2, <2>1, <2>2, <2>3, <2>4, <2>5 DEF Callers
<1>3. CASE EndFunction \/ \E x \in Timers : TimerFires(x)
  BY <1>3, ControlStep, QuietIsStep
<1>4. CASE BufferTimeout \/ FlushPending
  BY <1>4, TimeoutStep
<1>5. CASE TapTask
  <2>1. Quiet
    BY <1>5, RunTapsStep, CompleteTapsStep, FailTapsStep DEF TapTask
  <2> QED BY <2>1, QuietIsStep
<1>6. CASE \E s \in Subs : Work(s)
  <2>1. PICK s \in Subs : Work(s)
    BY <1>6
  <2>2. CASE RunSubscriber(s) \/ FailSubscriber(s)
    BY <2>2, RunSubscriberStep, FailSubscriberStep, QuietIsStep
  <2>3. CASE CompleteSubscriber(s)
    BY <2>3, CompleteSubscriberStep
  <2> QED BY <2>1, <2>2, <2>3 DEF Work
<1>7. CASE DispatchRetry \/ TaskDies \/ SupervisorDies \/ SupervisorRestarts
  BY <1>7, RetryStep, DeathStep, SupervisorDiesStep, RestartsStep, QuietIsStep
<1>8. CASE Next
  BY <1>2, <1>3, <1>4, <1>5, <1>6, <1>7, <1>8 DEF Next
<1> QED BY <1>1, <1>8

-----------------------------------------------------------------------------
(* What follows from the invariant in each state.                           *)
LEMMA BufferJoined ==
  ASSUME Inv
  PROVE  ToSet(buffered.plain \o buffered.upsert \o buffered.chats) = WaitingIn(buffered)
<1> DEFINE x == buffered.plain
           y == buffered.upsert
           z == buffered.chats
<1>1. x \in Seq(Events) /\ y \in Seq(Events) /\ z \in Seq(Events)
  BY InvParts, WaitingType DEF EventSeqs
<1>2. WaitingIn(buffered) = ToSet(x) \union ToSet(y) \union ToSet(z)
  BY DEF WaitingIn
<1> HIDE DEF x, y, z
<1>3. x \o y \in Seq(Events) /\ ToSet(x \o y) = ToSet(x) \union ToSet(y)
  BY <1>1, Joined
<1>4. ToSet((x \o y) \o z) = ToSet(x \o y) \union ToSet(z)
  BY <1>1, <1>3, Joined
<1>5. ToSet(x \o y \o z) = WaitingIn(buffered)
  BY <1>2, <1>3, <1>4
<1> QED BY <1>5 DEF x, y, z

LEMMA InvTypes == ASSUME Inv PROVE TypeOK
<1>1. d \in States /\ ControlTypes /\ HistoryTypes /\ buffered \in BufferType /\ posted \subseteq Events
  BY InvParts DEF Inv
<1>2. /\ d.queue \in Seq(EntryType) /\ d.task \in TaskStates /\ d.entry \in EntryType
      /\ d.retry \in BOOLEAN
      /\ d.sub \in [Subs -> SubRecords] /\ d.tap \in [Taps -> TapRecords]
  BY <1>1 DEF States
<1> QED BY <1>1, <1>2 DEF TypeOK, ControlTypes, HistoryTypes, LogType, BufferType,
                         SubRecords, TapRecords

LEMMA InvBounds == ASSUME Inv PROVE Bounded
<1>1. TypeOK
  BY InvTypes
<1>2. QueueSize(d) <= MaxQueue
  BY DispatcherSound, SoundParts
<1>3. \A s \in Subs : SubscriberSize(d.sub[s]) <= MaxQueue
  BY InvParts DEF SubscriberSound
<1> QED BY <1>1, <1>2, <1>3 DEF Bounded

LEMMA InvReserves == ASSUME Inv PROVE Reservations
<1> DEFINE E == EntriesOf(d)
<1>1. /\ \A s \in Subs : SubscriberSound(d.sub[s], s, E)
      /\ \A t \in Taps : TapSound(d.tap[t], t, E)
  BY InvParts
<1> HIDE DEF E
<1>2. \A s \in Subs : Registered(d.sub[s]) => d.sub[s].reserved = Len(GatedIn(E, s))
  BY <1>1 DEF SubscriberSound
<1>3. \A s \in Subs : d.sub[s].status = "leaving" => SubscriberSize(d.sub[s]) > 0
  BY <1>1 DEF SubscriberSound
<1>4. \A t \in Taps :
        /\ d.tap[t].pending = Cardinality({i \in DOMAIN E : t \in E[i].taps})
        /\ d.tap[t].status = "leaving" => d.tap[t].pending > 0
        /\ d.tap[t].status = "gone" => d.tap[t].pending = 0
  BY <1>1 DEF TapSound, ForTap
<1> QED BY <1>2, <1>3, <1>4 DEF Reservations, E

LEMMA InvOrders == ASSUME Inv PROVE TapsFirst
<1> SUFFICES ASSUME NEW s \in Subs,
                    NEW x \in ToSet(d.sub[s].queue) \union {d.sub[s].entry},
                    NEW n \in ToSet(x), NEW t \in log[n].taps
             PROVE  n \in seen[t]
  BY DEF TapsFirst
<1>1. n \in InLane(d.sub[s])
  BY DEF InLane, Carried
<1>2. LanesSound(d, log, seen)
  BY DispatcherSound, SoundParts DEF Sound
<1>3. Reached(log, seen, n)
  BY <1>1, <1>2 DEF LanesSound
<1> QED BY <1>3 DEF Reached

LEMMA InvForgets == ASSUME Inv PROVE RefusedIsForgotten
<1> SUFFICES ASSUME NEW n \in 1..Len(log), ~log[n].ok
             PROVE  /\ n \notin posted /\ n \notin WaitingIn(buffered)
                    /\ \A t \in Taps : n \notin seen[t]
  BY BufferJoined DEF RefusedIsForgotten
<1>1. \A m \in WaitingIn(buffered) \union posted : Known(log, m)
  BY DEF Inv, BufferSound
<1>2. \A t \in Taps : \A m \in seen[t] : Known(log, m)
  BY DispatcherSound, SoundParts DEF Sound, SeenSound
<1> QED BY <1>1, <1>2 DEF Known

LEMMA InvKeepsAccepted == ASSUME Inv PROVE AcceptedAreKept
<1>1. NoneLost(buffered, posted, log)
  BY DEF Inv
<1> QED BY <1>1, BufferJoined DEF NoneLost, ReplacedIn, AcceptedAreKept, Replaced

-----------------------------------------------------------------------------
(* The inductive invariant holds in every state: queues, reservations and   *)
(* counters agree with the entries that are on their way, and every event    *)
(* that was accepted reaches the taps before a subscriber.                   *)
THEOREM Invariant == Spec => []Inv
<1>1. Init => Inv
  BY InitHolds
<1>2. Inv /\ [Next]_vars => Inv'
  BY StepHolds DEF LaneStep
<1> QED BY <1>1, <1>2, PTL DEF Spec

(* The emitter's state has its types: event_emitter.ex's defstruct and the   *)
(* maps it keeps of subscribers, taps and dispatches.                        *)
THEOREM TypeCorrect == Spec => []TypeOK
<1>1. Inv => TypeOK
  BY InvTypes
<1> QED BY <1>1, Invariant, PTL

(* However emissions, flushes, registrations, task deaths and restarts of    *)
(* the supervisor interleave, no queue outgrows max_dispatch_queue.          *)
THEOREM QueuesAreBounded == Spec => []Bounded
<1>1. Inv => Bounded
  BY InvBounds
<1> QED BY <1>1, Invariant, PTL

(* reserved and pending always count exactly what the dispatch queue holds    *)
(* back, so the removal of a subscriber or tap comes neither early nor never. *)
THEOREM ReservationsAreExact == Spec => []Reservations
<1>1. Inv => Reservations
  BY InvReserves
<1> QED BY <1>1, Invariant, PTL

(* No subscriber has, or is being called with, an event that a tap registered *)
(* at its emission has not been called with.                                  *)
THEOREM TapsComeFirst == Spec => []TapsFirst
<1>1. Inv => TapsFirst
  BY InvOrders
<1> QED BY <1>1, Invariant, PTL

(* An emission answered with {:error, :dispatch_queue_full} leaves no trace.  *)
THEOREM RefusalsLeaveNothing == Spec => []RefusedIsForgotten
<1>1. Inv => RefusedIsForgotten
  BY InvForgets
<1> QED BY <1>1, Invariant, PTL

(* An accepted event of any kind waits in the buffer or has been handed on,   *)
(* but for a plain one whose place a later accepted plain one has taken       *)
(* (Map.put), and so for every other kind without exception.                  *)
THEOREM NothingIsLost == Spec => []AcceptedAreKept
<1>1. Inv => AcceptedAreKept
  BY InvKeepsAccepted
<1> QED BY <1>1, Invariant, PTL

(* The safety part of DeliversInLanes: with every subscriber's lane read off  *)
(* its task, its queue and the dispatch queue, each step of the emitter is a  *)
(* step of the delivery lanes or changes none of them.                        *)
THEOREM DeliversSafely == Spec => Lanes!Init /\ [][Lanes!Next]_(Lanes!laneVars)
<1>1. Init => Lanes!Init
  BY InitLanes
<1>2. Inv /\ [Next]_vars => [Lanes!Next]_(Lanes!laneVars)
  <2> SUFFICES ASSUME Inv, [Next]_vars
               PROVE  [Lanes!Next]_(Lanes!laneVars)
    OBVIOUS
  <2>1. [Lanes!Next]_<<ActiveSubs(d), LaneOf(d), handled>>
    BY StepHolds DEF LaneStep
  <2> QED BY <2>1 DEF Lanes!laneVars, LaneOf
<1> QED BY <1>1, <1>2, Invariant, PTL DEF Spec

=============================================================================
