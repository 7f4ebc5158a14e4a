--------------------------- MODULE DeliveryLanes ---------------------------
(***************************************************************************)
(* What the event emitter promises its subscribers                         *)
(* (lib/baileys_ex/connection/event_emitter_facade.ex: "each public        *)
(* subscriber has an independent serial, bounded delivery lane"): every    *)
(* delivery goes to all who are subscribed when it is accepted, and each   *)
(* of them handles its deliveries one at a time, in the order accepted.    *)
(* A subscriber that is too slow may be dropped; one that leaves still     *)
(* gets what was accepted before.  Queues, taps, tasks, crashes and        *)
(* retries do not show.                                                    *)
(***************************************************************************)
EXTENDS Sequences

CONSTANTS Subs, Deliveries

VARIABLES
    open,           \* the subscribers that new deliveries go to
    lane,           \* lane[s]: accepted for s and not handled yet, in order
    handled         \* handled[s]: what s has handled, in order

laneVars == <<open, lane, handled>>

Init ==
    /\ open \subseteq Subs
    /\ lane = [s \in Subs |-> << >>]
    /\ handled = [s \in Subs |-> << >>]

\* A lane is opened once.
Open(s) ==
    /\ s \notin open /\ lane[s] = << >> /\ handled[s] = << >>
    /\ open' = open \union {s}
    /\ UNCHANGED <<lane, handled>>

Close(s) ==
    /\ open' = open \ {s}
    /\ UNCHANGED <<lane, handled>>

\* A delivery is accepted; the overloaded subscribers are dropped instead.
Post(delivery, overloaded) ==
    /\ overloaded \subseteq open
    /\ open' = open \ overloaded
    /\ lane' = [s \in Subs |-> IF s \in overloaded THEN << >>
                               ELSE IF s \in open THEN Append(lane[s], delivery)
                               ELSE lane[s]]
    /\ UNCHANGED handled

Handle(s) ==
    /\ lane[s] # << >>
    /\ handled' = [handled EXCEPT ![s] = Append(@, Head(lane[s]))]
    /\ lane' = [lane EXCEPT ![s] = Tail(@)]
    /\ UNCHANGED open

Next ==
    \/ \E s \in Subs : Open(s) \/ Close(s) \/ Handle(s)
    \/ \E delivery \in Deliveries, overloaded \in SUBSET Subs : Post(delivery, overloaded)

Spec == Init /\ [][Next]_laneVars /\ \A s \in Subs : WF_laneVars(Handle(s))
=============================================================================
