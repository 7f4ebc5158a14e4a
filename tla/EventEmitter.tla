---------------------------- MODULE EventEmitter ----------------------------
(***************************************************************************)
(* The event emitter (lib/baileys_ex/connection/event_emitter.ex): a       *)
(* GenServer that hands every emitted event first to the taps, in one task *)
(* at a time, then to each subscriber, in a task of the subscriber's own;  *)
(* while it buffers, subscribers get the bufferable events later, in one   *)
(* delivery.  The tasks run under a Task.Supervisor that may be restarted. *)
(*                                                                         *)
(* An event is the number of its emission.  A delivery (a map of events)   *)
(* is a sequence of event numbers.  The kinds of events:                   *)
(*   notify, append  messages_upsert of one type or the other              *)
(*   chats, held     an unconditional and a conditional chats_update       *)
(*   plain           any other bufferable event                            *)
(*   direct          an event that is not buffered                         *)
(***************************************************************************)
EXTENDS Naturals, Sequences, FiniteSets, SequencesExt

CONSTANTS
    Subs,           \* references of subscribers, each registered once
    InitialSubs,    \* the initial_subscribers
    Taps,           \* references of taps
    Kinds,          \* the kinds of events emitted
    MaxQueue,       \* max_dispatch_queue
    MaxEmits,       \* bound: emissions
    MaxBuffers,     \* bound: buffer_count
    MaxFaults       \* bound: task deaths and supervisor restarts

ASSUME EmitterAssumption ==
    /\ Kinds \subseteq {"notify", "append", "chats", "held", "plain", "direct"}
    /\ InitialSubs \subseteq Subs
    /\ MaxQueue \in Nat \ {0} /\ MaxEmits \in Nat
    /\ MaxBuffers \in Nat /\ MaxFaults \in Nat

VARIABLES
    d,              \* the dispatcher: queue, task, entry, retry, sub, tap
    buffering, bufferCount,
    buffered,       \* buffered_events
    seed,           \* what conditions evaluate to: unset (nil), true or false
    timer,          \* buffer_timer and flush_pending_timer
    message,        \* are their messages in the mailbox
    functions,      \* create_buffered_function calls under way
    available,      \* the Task.Supervisor runs
    faults,
    log,            \* history: the emissions
    posted,         \* history: the events queued for subscribers or dropped
    seen,           \* history: the events each tap has been called with
    handled         \* history: the deliveries each subscriber has handled

bufferVars == <<buffering, bufferCount, buffered, seed, timer, message, functions>>
history    == <<log, posted, seen, handled>>
vars       == <<d, bufferVars, available, faults, history>>

Events     == 1..MaxEmits
Statuses   == {"new", "on", "leaving", "gone"}
TaskStates == {"none", "running", "done", "down"}
Timers     == {"buffer", "flush"}

NewSubscriber == [status |-> "new", reserved |-> 0, queue |-> << >>,
                  task |-> "none", entry |-> << >>]
NewTap  == [status |-> "new", pending |-> 0]
NoEntry == [taps |-> {}, tapDeliveries |-> << >>, subs |-> {}, deliveries |-> << >>]
NothingBuffered == [upsert |-> << >>, chats |-> << >>, plain |-> << >>]

Init ==
    /\ d = [queue |-> << >>, task |-> "none", entry |-> NoEntry, retry |-> FALSE,
            sub |-> [s \in Subs |-> [NewSubscriber EXCEPT
                        !.status = IF s \in InitialSubs THEN "on" ELSE "new"]],
            tap |-> [t \in Taps |-> NewTap]]
    /\ buffering = FALSE /\ bufferCount = 0 /\ buffered = NothingBuffered
    /\ seed = "unset"
    /\ timer = [x \in Timers |-> "nil"] /\ message = [x \in Timers |-> FALSE]
    /\ functions = 0
    /\ available = TRUE /\ faults = 0
    /\ log = << >> /\ posted = {}
    /\ seen = [t \in Taps |-> {}] /\ handled = [s \in Subs |-> << >>]

-----------------------------------------------------------------------------
\* The dispatcher's functions, on its state st.
QueueSize(st) == Len(st.queue) + (IF st.task # "none" THEN 1 ELSE 0)

SubscriberSize(r) == Len(r.queue) + r.reserved + (IF r.task # "none" THEN 1 ELSE 0)

ActiveTaps(st) == {t \in Taps : st.tap[t].status = "on"}
ActiveSubs(st) == {s \in Subs : st.sub[s].status = "on"}

\* maybe_remove_subscriber/2, maybe_remove_tap/2
RemoveIfDone(r) == IF r.status = "leaving" /\ SubscriberSize(r) = 0
                   THEN [NewSubscriber EXCEPT !.status = "gone"] ELSE r
RemoveTapIfDone(r) == IF r.status = "leaving" /\ r.pending = 0
                      THEN [r EXCEPT !.status = "gone"] ELSE r

\* The subscriber is in the map.
Registered(r) == r.status \in {"on", "leaving"}

\* release_subscriber_deliveries/3, for those of the entry still registered.
Given(r, deliveries) ==
    [r EXCEPT !.reserved = IF @ >= Len(deliveries) THEN @ - Len(deliveries) ELSE 0,
              !.queue = @ \o deliveries]

ReleaseTo(st, entry) ==
    [st EXCEPT !.sub = [s \in Subs |-> IF s \in entry.subs /\ Registered(@[s])
                                      THEN Given(@[s], entry.deliveries) ELSE @[s]]]

\* Mutant of ReleaseTaps: a tap that has left is not removed.
ReleaseTapsOnly(st, refs) ==
    [st EXCEPT !.tap = [t \in Taps |-> IF t \in refs THEN [@[t] EXCEPT !.pending = @ - 1]
                                      ELSE @[t]]]

\* release_taps/2
ReleaseTap(r) == RemoveTapIfDone([r EXCEPT !.pending = IF @ > 0 THEN @ - 1 ELSE 0])

ReleaseTaps(st, refs) ==
    [st EXCEPT !.tap = [t \in Taps |-> IF t \in refs THEN ReleaseTap(@[t]) ELSE @[t]]]

\* dispatch_entry/3 releases the entries without taps at the head of the queue.
Tapless(st) ==
    CHOOSE n \in 0..Len(st.queue) :
        /\ \A i \in 1..n : st.queue[i].taps = {}
        /\ n < Len(st.queue) => st.queue[n + 1].taps # {}

PastTapless(st) ==
    FoldLeft(ReleaseTo, [st EXCEPT !.queue = SubSeq(@, Tapless(st) + 1, Len(@))],
             SubSeq(st.queue, 1, Tapless(st)))

\* maybe_dispatch_next/1
StartTaps(st) ==
    LET past == PastTapless(st)
    IN  IF st.task # "none" THEN st
        ELSE IF past.queue = << >> THEN past
        ELSE IF ~available THEN [past EXCEPT !.retry = TRUE]
        ELSE [past EXCEPT !.queue = Tail(@), !.entry = Head(past.queue),
                          !.task = "running"]

\* maybe_start_subscriber/2
StartSubscriber(r) ==
    IF r.task # "none" THEN r
    ELSE IF r.queue = << >> THEN RemoveIfDone(r)
    ELSE IF ~available THEN r
    ELSE [r EXCEPT !.queue = Tail(@), !.entry = Head(r.queue), !.task = "running"]

StartSubscribers(st) ==
    [st EXCEPT !.sub = [s \in Subs |-> StartSubscriber(@[s])],
               !.retry = @ \/ (/\ ~available
                               /\ \E s \in Subs : /\ st.sub[s].task = "none"
                                                  /\ st.sub[s].queue # << >>)]

\* maybe_start_dispatches/1
StartDispatches(st) == StartSubscribers(StartTaps(st))

\* Mutant of HasRoom: what is reserved is not counted.
HasRoomInQueue(r, deliveries) ==
    Len(r.queue) + (IF r.task # "none" THEN 1 ELSE 0) + Len(deliveries) <= MaxQueue

\* prepare_subscribers/3: reserve or queue; a subscriber without room is dropped.
HasRoom(r, deliveries) == SubscriberSize(r) + Len(deliveries) <= MaxQueue

Prepared(r, deliveries, gated) ==
    IF r.status # "on" THEN r
    ELSE IF ~HasRoom(r, deliveries) THEN [NewSubscriber EXCEPT !.status = "gone"]
    ELSE IF gated THEN [r EXCEPT !.reserved = @ + Len(deliveries)]
    ELSE [r EXCEPT !.queue = @ \o deliveries]

TapWork(st, tapDeliveries) == tapDeliveries # << >> /\ ActiveTaps(st) # {}
SubWork(st, deliveries)    == deliveries # << >> /\ ActiveSubs(st) # {}

\* Mutant of Gated: only work for the taps holds subscribers back.
GatedByTaps(st, tapDeliveries, deliveries) == TapWork(st, tapDeliveries)

\* Behind work for the taps, or behind earlier work, subscribers wait.
Gated(st, tapDeliveries, deliveries) ==
    TapWork(st, tapDeliveries) \/ (SubWork(st, deliveries) /\ QueueSize(st) > 0)

\* do_enqueue_dispatch/6: {:error, :dispatch_queue_full}
Refused(st, tapDeliveries, deliveries) ==
    Gated(st, tapDeliveries, deliveries) /\ QueueSize(st) >= MaxQueue

\* One more entry is for the tap.
AddPending(r) == [r EXCEPT !.pending = @ + 1]

\* queue_dispatch/5
Enqueued(st, tapDeliveries, deliveries) ==
    LET gated == Gated(st, tapDeliveries, deliveries)
        subs  == {s \in ActiveSubs(st) : deliveries # << >> /\ HasRoom(st.sub[s], deliveries)}
        entry == [taps |-> ActiveTaps(st), tapDeliveries |-> tapDeliveries,
                  subs |-> subs, deliveries |-> deliveries]
        prepared == IF deliveries = << >> THEN st
                    ELSE [st EXCEPT !.sub = [s \in Subs |-> Prepared(@[s], deliveries, gated)]]
        queued == [prepared EXCEPT
                     !.queue = Append(@, entry),
                     !.tap = [t \in Taps |-> IF t \in entry.taps THEN AddPending(@[t])
                                             ELSE @[t]]]
    IN  IF ~TapWork(st, tapDeliveries) /\ ~SubWork(st, deliveries) THEN st
        ELSE StartDispatches(IF gated THEN queued ELSE prepared)

-----------------------------------------------------------------------------
\* The buffer.
Upsert(kind)   == kind \in {"notify", "append"}
BufferedType   == log[Head(buffered.upsert)].kind

\* evaluate_chat_update/2
Verdict(n) == IF log[n].kind = "held" THEN seed ELSE "true"
ChatsThat(verdict) ==
    FoldLeft(LAMBDA chosen, n : IF Verdict(n) = verdict THEN Append(chosen, n) ELSE chosen,
             << >>, buffered.chats)

\* Mutant of KeptByFlush: pending chat updates go with the rest.
NothingKept == NothingBuffered

\* build_flush_payload/2: what goes out, what stays, what is dropped.
Payload == buffered.plain \o buffered.upsert \o ChatsThat("true")
FlushDeliveries == IF Payload = << >> THEN << >> ELSE <<Payload>>
KeptByFlush == [NothingBuffered EXCEPT !.chats = ChatsThat("unset")]
GoneByFlush == ToSet(Payload) \union ToSet(ChatsThat("false"))

NoTimers == [x \in Timers |-> "nil"]
\* The timers are cancelled, but the references to them are kept.
Cancelled == [x \in Timers |-> IF timer[x] = "armed" THEN "spent" ELSE timer[x]]

\* flush_buffer(state, :stop), accepted by the dispatcher.
FlushAccepted ==
    /\ d' = Enqueued(d, << >>, FlushDeliveries)
    /\ buffered' = KeptByFlush
    /\ posted' = posted \union GoneByFlush
    /\ buffering' = FALSE /\ bufferCount' = 0
    /\ timer' = NoTimers

FlushRefused == Refused(d, << >>, FlushDeliveries)

\* The bufferable event n joins the buffered ones.
Buffered(buf, kind, n) ==
    IF Upsert(kind) THEN [buf EXCEPT !.upsert = Append(@, n)]
    ELSE IF kind \in {"chats", "held"} THEN [buf EXCEPT !.chats = Append(@, n)]
    ELSE [buf EXCEPT !.plain = <<n>>]

\* emit/3 of an event for the subscribers at once.
EmitThrough(kind) ==
    LET n == Len(log) + 1 IN
    /\ ~buffering \/ kind = "direct"
    /\ ~Refused(d, <<<<n>>>>, <<<<n>>>>)
    /\ d' = Enqueued(d, <<<<n>>>>, <<<<n>>>>)
    /\ posted' = posted \union {n}
    /\ UNCHANGED <<buffering, bufferCount, buffered, timer>>

\* Another type of messages_upsert is buffered: the buffer goes out before it
\* (flush_buffer(state, :keep)).
Boundary(kind) ==
    buffering /\ Upsert(kind) /\ buffered.upsert # << >> /\ BufferedType # kind

EmitBuffered(kind) ==
    LET n == Len(log) + 1 IN
    /\ buffering /\ kind # "direct" /\ ~Boundary(kind)
    /\ ~Refused(d, <<<<n>>>>, << >>)
    /\ d' = Enqueued(d, <<<<n>>>>, << >>)
    /\ buffered' = Buffered(buffered, kind, n)
    /\ UNCHANGED <<posted, buffering, bufferCount, timer>>

EmitBoundary(kind) ==
    LET n == Len(log) + 1 IN
    /\ Boundary(kind)
    /\ ~Refused(d, <<<<n>>>>, FlushDeliveries)
    /\ d' = Enqueued(d, <<<<n>>>>, FlushDeliveries)
    /\ buffered' = Buffered(KeptByFlush, kind, n)
    /\ posted' = posted \union GoneByFlush
    /\ bufferCount' = 0
    /\ timer' = NoTimers
    /\ UNCHANGED buffering

\* Mutant of EmitRefused: the buffer keeps the event that was refused.
EmitRefusedLate(kind) ==
    /\ Refused(d, <<<<Len(log) + 1>>>>,
               IF ~buffering \/ kind = "direct" THEN <<<<Len(log) + 1>>>> ELSE << >>)
    /\ buffered' = IF buffering /\ kind # "direct"
                   THEN Buffered(buffered, kind, Len(log) + 1) ELSE buffered
    /\ UNCHANGED <<d, posted, buffering, bufferCount, timer>>

\* The dispatch queue is full: the state is as before, but a boundary has
\* cancelled the timers.
EmitRefused(kind) ==
    /\ Refused(d, <<<<Len(log) + 1>>>>,
               IF ~buffering \/ kind = "direct" THEN <<<<Len(log) + 1>>>>
               ELSE IF Boundary(kind) THEN FlushDeliveries ELSE << >>)
    /\ timer' = IF Boundary(kind) THEN Cancelled ELSE timer
    /\ UNCHANGED <<d, posted, buffering, bufferCount, buffered>>

Emit(kind) ==
    /\ Len(log) < MaxEmits
    /\ \/ /\ EmitThrough(kind) \/ EmitBuffered(kind) \/ EmitBoundary(kind)
          /\ log' = Append(log, [kind |-> kind, ok |-> TRUE, taps |-> ActiveTaps(d)])
       \/ /\ EmitRefused(kind)
          /\ log' = Append(log, [kind |-> kind, ok |-> FALSE, taps |-> {}])
    /\ UNCHANGED <<seed, message, functions, available, faults, seen, handled>>

\* buffer/1; ensure_buffering/1 starts the timer when it starts to buffer.
StartBuffering ==
    /\ bufferCount < MaxBuffers
    /\ buffering' = TRUE
    /\ bufferCount' = bufferCount + 1
    /\ timer' = IF buffering THEN timer ELSE [timer EXCEPT !["buffer"] = "armed"]
    /\ UNCHANGED <<d, buffered, seed, message, available, faults, history>>

Buffer == StartBuffering /\ UNCHANGED functions

\* create_buffered_function/2: buffer before the work, complete after it.
BeginFunction == StartBuffering /\ functions < MaxBuffers /\ functions' = functions + 1

EndFunction ==
    /\ functions > 0
    /\ functions' = functions - 1
    /\ bufferCount' = IF bufferCount > 0 THEN bufferCount - 1 ELSE 0
    /\ timer' = IF bufferCount' = 0 /\ buffering /\ timer["flush"] = "nil"
                THEN [timer EXCEPT !["flush"] = "armed"] ELSE timer
    /\ UNCHANGED <<d, buffering, buffered, seed, message, available, faults, history>>

\* flush/1.  When it is refused the references of the cancelled timers stay.
Flush ==
    /\ \/ ~buffering /\ UNCHANGED <<d, buffering, bufferCount, buffered, timer, posted>>
       \/ buffering /\ ~FlushRefused /\ FlushAccepted
       \/ /\ buffering /\ FlushRefused
          /\ timer' = Cancelled
          /\ UNCHANGED <<d, buffering, bufferCount, buffered, posted>>
    /\ UNCHANGED <<seed, message, functions, available, faults, log, seen, handled>>

\* seed/2
Seed(value) ==
    /\ value \in {"true", "false"}
    /\ "held" \in Kinds
    /\ seed' = value
    /\ UNCHANGED <<d, buffering, bufferCount, buffered, timer, message, functions,
                   available, faults, history>>

\* External: a timer fires.
TimerFires(x) ==
    /\ timer[x] = "armed"
    /\ timer' = [timer EXCEPT ![x] = "spent"]
    /\ message' = [message EXCEPT ![x] = TRUE]
    /\ UNCHANGED <<d, buffering, bufferCount, buffered, seed, functions,
                   available, faults, history>>

\* flush_when_dispatch_available/1
FlushWhenAvailable ==
    \/ ~FlushRefused /\ FlushAccepted
    \/ /\ FlushRefused
       /\ timer' = [Cancelled EXCEPT !["flush"] = "armed"]
       /\ UNCHANGED <<d, buffering, bufferCount, buffered, posted>>

BufferTimeout ==
    /\ message["buffer"]
    /\ message' = [message EXCEPT !["buffer"] = FALSE]
    /\ \/ buffering /\ FlushWhenAvailable
       \/ /\ ~buffering
          /\ timer' = [timer EXCEPT !["buffer"] = "nil"]
          /\ UNCHANGED <<d, buffering, bufferCount, buffered, posted>>
    /\ UNCHANGED <<seed, functions, available, faults, log, seen, handled>>

\* A message of an earlier timer makes the server forget an armed one, which
\* still fires: that message is taken to be in the mailbox already.
FlushPending ==
    /\ message["flush"]
    /\ \/ /\ buffering /\ bufferCount = 0
          /\ FlushWhenAvailable
          /\ message' = [message EXCEPT !["flush"] = FALSE]
       \/ /\ ~(buffering /\ bufferCount = 0)
          /\ timer' = [timer EXCEPT !["flush"] = "nil"]
          /\ message' = [message EXCEPT !["flush"] = timer["flush"] = "armed"]
          /\ UNCHANGED <<d, buffering, bufferCount, buffered, posted>>
    /\ UNCHANGED <<seed, functions, available, faults, log, seen, handled>>

-----------------------------------------------------------------------------
\* Registration, and the tasks.
dispatchOnly == <<bufferVars, log, posted>>

Subscribe(s) ==
    /\ d.sub[s].status = "new"
    /\ d' = [d EXCEPT !.sub[s].status = "on"]
    /\ UNCHANGED <<dispatchOnly, available, faults, seen, handled>>

Unsubscribe(s) ==
    /\ d.sub[s].status = "on"
    /\ d' = [d EXCEPT !.sub[s] = RemoveIfDone([@ EXCEPT !.status = "leaving"])]
    /\ UNCHANGED <<dispatchOnly, available, faults, seen, handled>>

Tap(t) ==
    /\ d.tap[t].status = "new"
    /\ d' = [d EXCEPT !.tap[t].status = "on"]
    /\ UNCHANGED <<dispatchOnly, available, faults, seen, handled>>

Untap(t) ==
    /\ d.tap[t].status = "on"
    /\ d' = [d EXCEPT !.tap[t] = RemoveTapIfDone([@ EXCEPT !.status = "leaving"])]
    /\ UNCHANGED <<dispatchOnly, available, faults, seen, handled>>

\* The task of the taps calls the handlers it finds in the table.
Called == [t \in Taps |->
              IF t \in d.entry.taps /\ d.tap[t].status # "gone"
              THEN seen[t] \union UNION {ToSet(x) : x \in ToSet(d.entry.tapDeliveries)}
              ELSE seen[t]]

RunTaps ==
    /\ d.task = "running"
    /\ d' = [d EXCEPT !.task = "done"]
    /\ seen' = Called
    /\ UNCHANGED <<dispatchOnly, available, faults, handled>>

RunSubscriber(s) ==
    /\ d.sub[s].task = "running"
    /\ d' = [d EXCEPT !.sub[s].task = "done"]
    /\ UNCHANGED <<dispatchOnly, available, faults, seen, handled>>

\* complete_task/2: the result of a task arrives.
CompleteTaps ==
    /\ d.task = "done"
    /\ LET released == ReleaseTo(ReleaseTaps(d, d.entry.taps), d.entry)
       IN  d' = StartDispatches([released EXCEPT !.task = "none", !.entry = NoEntry])
    /\ UNCHANGED <<dispatchOnly, available, faults, seen, handled>>

CompleteSubscriber(s) ==
    /\ d.sub[s].task = "done"
    /\ handled' = [handled EXCEPT ![s] = Append(@, d.sub[s].entry)]
    /\ d' = StartDispatches(
               [d EXCEPT !.sub[s] = RemoveIfDone([@ EXCEPT !.task = "none", !.entry = << >>])])
    /\ UNCHANGED <<dispatchOnly, available, faults, seen>>

\* Mutant of FailSubscriber: the delivery goes to the end of the queue.
FailSubscriberLast(s) ==
    /\ d.sub[s].task = "down"
    /\ d' = StartDispatches([d EXCEPT !.sub[s] =
               [@ EXCEPT !.queue = Append(@, d.sub[s].entry), !.task = "none",
                         !.entry = << >>]])
    /\ UNCHANGED <<dispatchOnly, available, faults, seen, handled>>

\* fail_task/2: the :DOWN of a task that died; what it did is done again.
FailTaps ==
    /\ d.task = "down"
    /\ d' = StartDispatches([d EXCEPT !.queue = <<d.entry>> \o @, !.task = "none",
                                      !.entry = NoEntry])
    /\ UNCHANGED <<dispatchOnly, available, faults, seen, handled>>

Requeued(r) == [r EXCEPT !.queue = <<r.entry>> \o @, !.task = "none", !.entry = << >>]

FailSubscriber(s) ==
    /\ d.sub[s].task = "down"
    /\ d' = StartDispatches([d EXCEPT !.sub[s] = Requeued(@)])
    /\ UNCHANGED <<dispatchOnly, available, faults, seen, handled>>

DispatchRetry ==
    /\ d.retry
    /\ d' = StartDispatches([d EXCEPT !.retry = FALSE])
    /\ UNCHANGED <<dispatchOnly, available, faults, seen, handled>>

\* External: a task is killed, or the Task.Supervisor with all of them; the taps
\* of the killed task have been called or not.
Killed(task) == IF task = "running" THEN "down" ELSE task
KillTask(r)  == [r EXCEPT !.task = Killed(@)]

TaskDies ==
    /\ faults < MaxFaults /\ faults' = faults + 1
    /\ \/ /\ d.task = "running"
          /\ d' = [d EXCEPT !.task = "down"]
          /\ seen' \in {seen, Called}
       \/ /\ \E s \in Subs : d.sub[s].task = "running" /\ d' = [d EXCEPT !.sub[s].task = "down"]
          /\ UNCHANGED seen
    /\ UNCHANGED <<dispatchOnly, available, handled>>

SupervisorDies ==
    /\ available /\ faults < MaxFaults
    /\ faults' = faults + 1
    /\ available' = FALSE
    /\ d' = [d EXCEPT !.task = Killed(@),
                      !.sub = [s \in Subs |-> KillTask(@[s])]]
    /\ seen' \in IF d.task = "running" THEN {seen, Called} ELSE {seen}
    /\ UNCHANGED <<dispatchOnly, handled>>

SupervisorRestarts ==
    /\ ~available
    /\ available' = TRUE
    /\ UNCHANGED <<d, dispatchOnly, faults, seen, handled>>

-----------------------------------------------------------------------------
Callers ==
    \/ \E kind \in Kinds : Emit(kind)
    \/ \E value \in {"true", "false"} : Seed(value)
    \/ Buffer \/ BeginFunction \/ Flush
    \/ \E s \in Subs : Subscribe(s) \/ Unsubscribe(s)
    \/ \E t \in Taps : Tap(t) \/ Untap(t)

Work(s) == RunSubscriber(s) \/ CompleteSubscriber(s) \/ FailSubscriber(s)
TapTask == RunTaps \/ CompleteTaps \/ FailTaps

Next ==
    \/ Callers \/ EndFunction
    \/ \E x \in Timers : TimerFires(x)
    \/ BufferTimeout \/ FlushPending
    \/ TapTask \/ (\E s \in Subs : Work(s)) \/ DispatchRetry
    \/ TaskDies \/ SupervisorDies \/ SupervisorRestarts

Spec == Init /\ [][Next]_vars

\* Handlers return, timers fire, messages are handled, the supervisor comes
\* back; nobody has to emit, flush, subscribe or seed.
Fairness ==
    /\ WF_vars(TapTask) /\ \A s \in Subs : WF_vars(Work(s))
    /\ WF_vars(DispatchRetry) /\ WF_vars(SupervisorRestarts) /\ WF_vars(EndFunction)
    /\ \A x \in Timers : WF_vars(TimerFires(x))
    /\ WF_vars(BufferTimeout) /\ WF_vars(FlushPending)

FairSpec == Spec /\ Fairness

-----------------------------------------------------------------------------
EventSeqs  == Seq(Events)
EntryType  == [taps : SUBSET Taps, tapDeliveries : Seq(EventSeqs), subs : SUBSET Subs,
               deliveries : Seq(EventSeqs)]

TypeOK ==
    /\ d.queue \in Seq(EntryType) /\ d.task \in TaskStates /\ d.entry \in EntryType
    /\ d.retry \in BOOLEAN
    /\ d.sub \in [Subs -> [status : Statuses, reserved : Nat, queue : Seq(EventSeqs),
                           task : TaskStates, entry : EventSeqs]]
    /\ d.tap \in [Taps -> [status : Statuses, pending : Nat]]
    /\ buffering \in BOOLEAN /\ bufferCount \in 0..MaxBuffers
    /\ buffered \in [upsert : EventSeqs, chats : EventSeqs, plain : EventSeqs]
    /\ seed \in {"unset", "true", "false"}
    /\ timer \in [Timers -> {"nil", "armed", "spent"}]
    /\ message \in [Timers -> BOOLEAN]
    /\ functions \in 0..MaxBuffers /\ available \in BOOLEAN /\ faults \in 0..MaxFaults
    /\ log \in Seq([kind : Kinds, ok : BOOLEAN, taps : SUBSET Taps])
    /\ posted \subseteq Events
    /\ seen \in [Taps -> SUBSET Events] /\ handled \in [Subs -> Seq(EventSeqs)]

\* The entries accepted and not released yet, the oldest first.
EntriesOf(st) == (IF st.task # "none" THEN <<st.entry>> ELSE << >>) \o st.queue

\* The deliveries to s that some entries hold back.
GatedIn(entries, s) ==
    FoldLeft(LAMBDA gated, e : IF s \in e.subs THEN gated \o e.deliveries ELSE gated,
             << >>, entries)

\* What a subscriber has been promised and has not handled yet.
Lane(r, entries, s) ==
    IF ~Registered(r) THEN << >>
    ELSE (IF r.task # "none" THEN <<r.entry>> ELSE << >>) \o r.queue \o GatedIn(entries, s)

\* The emitter implements the delivery lanes: gating, taps, task deaths and
\* supervisor restarts neither lose, repeat nor reorder what was accepted
\* (facade: "independent serial, bounded delivery lane").
AllDeliveries == UNION {[1..n -> Events] : n \in 1..MaxEmits}

Lanes == INSTANCE DeliveryLanes WITH
            Deliveries <- AllDeliveries,
            open <- ActiveSubs(d),
            lane <- [s \in Subs |-> Lane(d.sub[s], EntriesOf(d), s)]

DeliversInLanes == Lanes!Spec

\* Neither the dispatch queue nor a subscriber's queue outgrows
\* max_dispatch_queue, counting running tasks and deliveries on their way
\* through the taps (test "dispatch capacity is bounded ...").
Bounded ==
    /\ TypeOK
    /\ QueueSize(d) <= MaxQueue
    /\ \A s \in Subs : SubscriberSize(d.sub[s]) <= MaxQueue

\* reserved and pending count what is really on its way, so a subscriber or a
\* tap that has left stays registered exactly until its last delivery.
Reservations ==
    /\ \A s \in Subs : Registered(d.sub[s]) =>
          d.sub[s].reserved = Len(GatedIn(EntriesOf(d), s))
    /\ \A s \in Subs : d.sub[s].status = "leaving" => SubscriberSize(d.sub[s]) > 0
    /\ \A t \in Taps :
          /\ d.tap[t].pending = Cardinality({i \in DOMAIN EntriesOf(d) : t \in EntriesOf(d)[i].taps})
          /\ d.tap[t].status = "leaving" => d.tap[t].pending > 0
          /\ d.tap[t].status = "gone" => d.tap[t].pending = 0

\* No subscriber is called with an event before every tap that was registered
\* when it was emitted has been (tap/2: "processes events before the main
\* dispatch"), buffered or not, and whichever tasks die.
TapsFirst ==
    \A s \in Subs : \A x \in ToSet(d.sub[s].queue) \union {d.sub[s].entry} :
        \A n \in ToSet(x) : \A t \in log[n].taps : n \in seen[t]

\* An event whose emission was refused reaches nobody, then or later.
RefusedIsForgotten ==
    \A n \in 1..Len(log) : ~log[n].ok =>
        /\ n \notin posted
        /\ n \notin ToSet(buffered.plain \o buffered.upsert \o buffered.chats)
        /\ \A t \in Taps : n \notin seen[t]

\* A later plain event of the same name has taken its place (Map.put, line 342).
Replaced(n) ==
    /\ log[n].kind = "plain"
    /\ \E k \in (n + 1)..Len(log) : log[k].ok /\ log[k].kind = "plain"

\* An event that was accepted is waiting in the buffer, or has been handed on
\* ("events are accumulated and flushed together") - but for plain events, of
\* which only the last is kept.
AcceptedAreKept ==
    \A n \in 1..Len(log) : log[n].ok /\ ~Replaced(n) =>
        n \in posted \union ToSet(buffered.plain \o buffered.upsert \o buffered.chats)

\* Buffering ends by itself ("Auto-flush timer prevents stuck buffers").
BufferingEnds == buffering ~> ~buffering
=============================================================================
