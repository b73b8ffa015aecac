------------------------------ MODULE EventBus ------------------------------
(***************************************************************************)
(* CoreEventBus: a bounded queue, a loop that hands every event to a task  *)
(* per matching subscription, a limit on those tasks, and the dead-letter  *)
(* queue for what fails or does not fit.  Everything runs on one event     *)
(* loop: a step is the code between two awaits.                            *)
(***************************************************************************)
EXTENDS Naturals, FiniteSets, SequencesExt

CONSTANTS
    Event, Sub,         \* events, each published once; subscriptions (pattern, callback)
    Matches,            \* the pairs <<event, subscription>> that fnmatch accepts
    Sentinel,           \* the None that stop() puts into the queue
    HasDLQ,             \* create_bus_with_dlq, or the plain bus of the supervisor
    Hang,               \* subscriptions whose callback may never return
    DlqFails,           \* the dead-letter database may refuse an insert
    QueueSize, MaxPending, MaxDlq,
    MaxStarts           \* bound on calls of start()

ASSUME BusAssumption ==
    /\ Sentinel \notin Event
    /\ Matches \subseteq Event \X Sub
    /\ Hang \subseteq Sub
    /\ HasDLQ \in BOOLEAN /\ DlqFails \in BOOLEAN
    /\ QueueSize \in Nat \ {0} /\ MaxPending \in Nat /\ MaxDlq \in Nat /\ MaxStarts \in Nat

VARIABLES
    published,  \* events somebody has called publish for
    blocked,    \* those whose publisher waits for room in the queue
    queue,
    running,    \* self._running
    loop,       \* self._dispatch_task: none, not begun, at its await, or finished
    stop,       \* where the call of stop() is
    retrier,    \* the retry worker of the dead-letter queue runs
    subs,       \* self._subscriptions
    starts,     \* calls of start() so far
    fate        \* what has become of each dispatch of an event to a subscription

busVars == <<published, blocked, queue, running, loop, stop, retrier, subs, starts, fate>>

Dispatched == Event \X Sub
Fate == {"none", "running", "enqueuing",   \* in self._pending_tasks
         "dropping",                       \* in self._dlq_tasks
         "handled", "letter",              \* the callback returned; a row of the DLQ
         "failed", "dropped", "cancelled"} \* lost

With(f, fates) == {d \in Dispatched : f[d] \in fates}

BusInit ==
    /\ published = {} /\ blocked = <<>> /\ queue = <<>>
    /\ running = FALSE /\ loop = "none" /\ stop = "no" /\ retrier = FALSE
    /\ subs = <<>> /\ starts = 0
    /\ fate = [d \in Dispatched |-> "none"]

------------------------------------------------------------------------------
\* start() has no effect while there is a dispatch task.  Its callers await it, and
\* await stop().
StartBus ==
    /\ loop = "none" /\ stop = "no" /\ starts < MaxStarts
    /\ starts' = starts + 1
    /\ retrier' = HasDLQ
    /\ running' = TRUE
    /\ loop' = "new"
    /\ UNCHANGED <<published, blocked, queue, stop, subs, fate>>

Subscribe(s) ==
    /\ ~Contains(subs, s)
    /\ subs' = Append(subs, s)
    /\ UNCHANGED <<published, blocked, queue, running, loop, stop, retrier, starts, fate>>

Unsubscribe(s) ==
    /\ Contains(subs, s)
    /\ subs' = RemoveFirst(subs, s)
    /\ UNCHANGED <<published, blocked, queue, running, loop, stop, retrier, starts, fate>>

\* publish() raises unless the bus is running, and waits for room.
Publish(e) ==
    /\ e \notin published /\ running
    /\ published' = published \cup {e}
    /\ IF Len(queue) < QueueSize
       THEN queue' = Append(queue, e) /\ UNCHANGED blocked
       ELSE blocked' = Append(blocked, e) /\ UNCHANGED queue
    /\ UNCHANGED <<running, loop, stop, retrier, subs, starts, fate>>

\* Mutated form: it does not look at the queue again either.
UnblockUnchecked ==
    /\ blocked # <<>>
    /\ queue' = Append(queue, Head(blocked))
    /\ blocked' = Tail(blocked)
    /\ UNCHANGED <<published, running, loop, stop, retrier, subs, starts, fate>>

\* A waiting publisher is woken when something has been taken from the queue; it
\* does not look at _running again.
Unblock ==
    /\ blocked # <<>> /\ Len(queue) < QueueSize
    /\ queue' = Append(queue, Head(blocked))
    /\ blocked' = Tail(blocked)
    /\ UNCHANGED <<published, running, loop, stop, retrier, subs, starts, fate>>

------------------------------------------------------------------------------
\* One subscription's turn: a task, or when there are too many of them a task that
\* puts the event into the dead-letter queue, or when there are too many of those
\* nothing.
RouteOne(f, d) ==
    [f EXCEPT ![d] =
        CASE Cardinality(With(f, {"running", "enqueuing"})) < MaxPending -> "running"
          [] Cardinality(With(f, {"running", "enqueuing"})) >= MaxPending
             /\ HasDLQ /\ Cardinality(With(f, {"dropping"})) < MaxDlq -> "dropping"
          [] OTHER -> "dropped"]

\* for pattern, callback in self._subscriptions
Route(f, e) ==
    FoldLeft(LAMBDA g, s : IF <<e, s>> \in Matches THEN RouteOne(g, <<e, s>>) ELSE g, f, subs)

\* The loop's first step looks at _running before it takes anything.
LoopBegins ==
    /\ loop = "new"
    /\ loop' = IF running THEN "waiting" ELSE "over"
    /\ UNCHANGED <<published, blocked, queue, running, stop, retrier, subs, starts, fate>>

\* queue.get() does not yield while there is something in the queue, so the loop
\* empties it in one step, up to a sentinel or, once the bus is stopping, just one.
Drain ==
    /\ LET mark == SelectInSeq(queue, LAMBDA x : x = Sentinel)
           reach == IF running THEN Len(queue) ELSE 1
           ended == mark \in 1..reach
           taken == IF ended THEN mark - 1 ELSE reach
       IN /\ fate' = FoldLeft(Route, fate, SubSeq(queue, 1, taken))
          /\ queue' = SubSeq(queue, IF ended THEN mark + 1 ELSE taken + 1, Len(queue))
          /\ loop' = IF ended \/ ~running THEN "over" ELSE "waiting"
    /\ UNCHANGED <<published, blocked, running, stop, retrier, subs, starts>>

\* Mutated form: the loop awaits the callbacks of an event before it takes another.
DispatchAwaiting ==
    loop = "waiting" /\ queue # <<>> /\ With(fate, {"running", "enqueuing"}) = {} /\ Drain

DispatchLoop == loop = "waiting" /\ queue # <<>> /\ Drain

Becomes(d, before, after) ==
    /\ fate[d] = before
    /\ fate' = [fate EXCEPT ![d] = after]
    /\ UNCHANGED <<published, blocked, queue, running, loop, stop, retrier, subs, starts>>

\* _safe_execute: the callback returns, or raises and the event goes to the
\* dead-letter queue, where the insert may fail.
HandlerReturns(d) == Becomes(d, "running", "handled")
HandlerRaises(d) == Becomes(d, "running", IF HasDLQ THEN "enqueuing" ELSE "failed")
EnqueueEnds(d) ==
    \/ Becomes(d, "enqueuing", "letter")
    \/ DlqFails /\ Becomes(d, "enqueuing", "failed")

\* _enqueue_backpressure_drop
DropEnds(d) ==
    \/ Becomes(d, "dropping", "letter")
    \/ DlqFails /\ Becomes(d, "dropping", "failed")

------------------------------------------------------------------------------
\* Mutated form: no sentinel.
StopSilently ==
    /\ loop # "none" /\ stop = "no"
    /\ running' = FALSE
    /\ stop' = "joining"
    /\ UNCHANGED <<published, blocked, queue, loop, retrier, subs, starts, fate>>

\* stop(): a full queue has no room for the sentinel, so the task is cancelled.
StopBus ==
    /\ loop # "none" /\ stop = "no"
    /\ running' = FALSE
    /\ stop' = "joining"
    /\ IF Len(queue) < QueueSize
       THEN queue' = Append(queue, Sentinel) /\ UNCHANGED loop
       ELSE loop' = "over" /\ UNCHANGED queue
    /\ UNCHANGED <<published, blocked, retrier, subs, starts, fate>>

\* Every callback task is cancelled and awaited; CancelledError is not an Exception,
\* so nothing goes to the dead-letter queue, but an insert that is being committed is.
CancelPending(f, committing) ==
    [d \in Dispatched |-> IF d \in committing THEN "letter"
                          ELSE IF f[d] \in {"running", "enqueuing"} THEN "cancelled" ELSE f[d]]

\* Mutated form: the callbacks are cancelled before the loop has ended.
StopCancelsFirst ==
    /\ stop = "joining" /\ loop \in {"waiting", "over"}
    /\ stop' = "draining"
    /\ loop' = "none"
    /\ fate' = FoldLeft(Route, CancelPending(fate, {}),
                        IF loop = "waiting" THEN SelectSeq(SubSeq(queue, 1, 1), LAMBDA x : x # Sentinel)
                                            ELSE <<>>)
    /\ UNCHANGED <<published, blocked, queue, running, retrier, subs, starts>>

\* The loop has ended.
StopCancels ==
    /\ stop = "joining" /\ loop = "over"
    /\ stop' = "draining"
    /\ loop' = "none"
    /\ \E committing \in SUBSET With(fate, {"enqueuing"}) : fate' = CancelPending(fate, committing)
    /\ UNCHANGED <<published, blocked, queue, running, retrier, subs, starts>>

\* The accepted drops have been awaited; dlq.stop() cancels the retry worker.
StopReturns ==
    /\ stop = "draining" /\ With(fate, {"dropping"}) = {}
    /\ stop' = "no"
    /\ retrier' = FALSE
    /\ UNCHANGED <<published, blocked, queue, running, loop, subs, starts, fate>>

Dispatching == LoopBegins \/ DispatchLoop
Stopping == StopCancels \/ StopReturns
HandlerEnds(d) == HandlerReturns(d) \/ HandlerRaises(d)
Enqueuing(d) == EnqueueEnds(d) \/ DropEnds(d)

BusNext ==
    \/ StartBus \/ StopBus \/ Dispatching \/ Stopping \/ Unblock
    \/ \E s \in Sub : Subscribe(s) \/ Unsubscribe(s)
    \/ \E e \in Event : Publish(e)
    \/ \E d \in Dispatched : HandlerEnds(d) \/ Enqueuing(d)

BusSpec == BusInit /\ [][BusNext]_busVars

\* The event loop runs every task that is ready; statements end; callbacks return
\* unless their subscription is in Hang.
FairBusSpec ==
    /\ BusSpec
    /\ WF_busVars(Dispatching) /\ WF_busVars(Stopping) /\ WF_busVars(Unblock)
    /\ \A d \in Dispatched : WF_busVars(Enqueuing(d))
    /\ \A d \in Dispatched : d[2] \notin Hang => WF_busVars(HandlerEnds(d))

------------------------------------------------------------------------------
\* Type invariant: the queue within its size, and every dispatch with one fate.
BusTypeOK ==
    /\ published \subseteq Event
    /\ queue \in Seq(Event \cup {Sentinel}) /\ Len(queue) <= QueueSize
    /\ blocked \in Seq(Event) /\ IsInjective(blocked)
    /\ running \in BOOLEAN /\ retrier \in BOOLEAN
    /\ loop \in {"none", "new", "waiting", "over"}
    /\ stop \in {"no", "joining", "draining"}
    /\ subs \in Seq(Sub) /\ IsInjective(subs)
    /\ starts \in 0..MaxStarts
    /\ fate \in [Dispatched -> Fate]

\* When the bus is stopped "no coroutine outlives the bus" (event_bus.py:124-126):
\* no callback still runs, and no accepted drop is still on its way to the
\* dead-letter queue (tests/test_event_bus_backpressure.py:145).
NoneOutlives ==
    loop = "none" /\ stop = "no" => With(fate, {"running", "enqueuing", "dropping"}) = {}

\* An event that waits for room or in the queue of a bus that works reaches every
\* subscription that matches: the callback returns, or the event is in the
\* dead-letter queue, or it was lost for a reason that is logged.  "Un consumidor lento" does not hold up "otros
\* suscriptores" (event_bus.py:4-5): a callback that never returns costs the others
\* nothing but its place among the pending tasks.
Works == running /\ loop \in {"new", "waiting"} /\ ~Contains(queue, Sentinel)
Settled(d) == fate[d] \in {"handled", "letter", "failed", "dropped"}
Reaches ==
    \A d \in Matches :
        Works /\ Contains(queue \o blocked, d[1]) /\ Contains(subs, d[2])
            ~> Settled(d) \/ ~running \/ ~Contains(subs, d[2])
               \/ (d[2] \in Hang /\ fate[d] = "running")

\* A call of stop() returns, whatever the callbacks and the queue are doing.
StopEnds == stop # "no" ~> stop = "no"
=============================================================================
