------------------------------- MODULE SyncRun -------------------------------
(***************************************************************************)
(* SyncEngine.run: a producer reads the load order in batches into a       *)
(* bounded queue, workers fetch and store them, POISON pills end the       *)
(* workers, and a TaskGroup cancels everybody when a task fails.  Every    *)
(* await is a place where another task may run.                            *)
(***************************************************************************)
EXTENDS Naturals, FiniteSets, SequencesExt

CONSTANTS
    Worker,
    Batches,      \* how many batches the load order has
    QueueSize,    \* queue_maxsize
    Poison,
    Slow,         \* a worker may need longer for a batch than a put may wait
    ReadFails,    \* read_modlist may raise
    StoreFails,   \* the registry may raise
    CallerCancels \* the task of run() may be cancelled

Batch == 1..Batches

ASSUME SyncAssumption ==
    /\ IsFiniteSet(Worker) /\ Worker # {}
    /\ Batches \in Nat /\ QueueSize \in Nat \ {0}
    /\ Poison \notin Batch
    /\ {Slow, ReadFails, StoreFails, CallerCancels} \subseteq BOOLEAN

VARIABLES
    queue,
    producer,   \* what the producer task does, and how many pills it has put
    worker,     \* what each worker task does
    aborting,   \* the task group has cancelled its tasks
    run,        \* what the caller sees
    counted,    \* how often a batch has been counted in the result
    stored,     \* batches in the registry
    broken      \* a task has raised for a reason of its own, or the caller was cancelled (history)

runVars == <<queue, producer, worker, aborting, run, counted, stored, broken>>

ProducerState ==
    [pc : {"reading", "putting", "pills", "done", "failed"},
     next : 1..Batches + 1,            \* the batch that is read or waits for room
     pills : 0..Cardinality(Worker),
     cancelled : BOOLEAN,              \* CancelledError is to be delivered
     failing : BOOLEAN]                \* an exception is waiting for the finally clause
WorkerState == [pc : {"getting", "fetching", "storing", "ended", "failed"}, batch : 0..Batches]

RunInit ==
    /\ queue = <<>>
    /\ producer = [pc |-> "reading", next |-> 1, pills |-> 0, cancelled |-> FALSE, failing |-> FALSE]
    /\ worker = [w \in Worker |-> [pc |-> "getting", batch |-> 0]]
    /\ aborting = FALSE /\ run = "running"
    /\ counted = [b \in Batch |-> 0] /\ stored = {} /\ broken = FALSE

Room == Len(queue) < QueueSize
TaskEnded(w) == worker[w].pc \in {"ended", "failed"}
ProducerOver == producer.pc \in {"done", "failed"}

\* The task group cancels its tasks; CancelledError reaches each at its await.
Abort == aborting' = TRUE
ToCancel(p) == [p EXCEPT !.cancelled = ~aborting /\ @ = FALSE /\ p.pc \notin {"done", "failed"}]

------------------------------------------------------------------------------
\* async for ... in read_modlist
Read ==
    /\ producer.pc = "reading" /\ ~producer.cancelled
    /\ IF producer.next <= Batches
       THEN producer' = [producer EXCEPT !.pc = "putting"]
       ELSE producer' = [producer EXCEPT !.pc = "pills"]
    /\ UNCHANGED <<queue, worker, aborting, run, counted, stored, broken>>

\* Mutated form: the finally clause swallows the exception.
ReadRaisesSwallowed ==
    /\ producer.pc = "reading" /\ ~producer.cancelled /\ ReadFails
    /\ producer' = [producer EXCEPT !.pc = "pills"]
    /\ broken' = TRUE
    /\ UNCHANGED <<queue, worker, aborting, run, counted, stored>>

ReadRaises ==
    /\ producer.pc = "reading" /\ ~producer.cancelled /\ ReadFails
    /\ producer' = [producer EXCEPT !.pc = "pills", !.failing = TRUE]
    /\ broken' = TRUE
    /\ UNCHANGED <<queue, worker, aborting, run, counted, stored>>

Put ==
    /\ producer.pc = "putting" /\ Room /\ ~producer.cancelled
    /\ queue' = Append(queue, producer.next)
    /\ producer' = [producer EXCEPT !.pc = "reading", !.next = @ + 1]
    /\ UNCHANGED <<worker, aborting, run, counted, stored, broken>>

\* A put waits only so long.  A worker that lives makes room in time, unless it is
\* slow and in the middle of a batch.
TimesOut ==
    /\ ~Room
    /\ \A w \in Worker :
         TaskEnded(w) \/ (Slow /\ ~aborting /\ worker[w].pc \in {"fetching", "storing"})

PutTimesOut ==
    /\ producer.pc = "putting" /\ TimesOut /\ ~producer.cancelled
    /\ producer' = [producer EXCEPT !.pc = "pills", !.failing = TRUE]
    /\ UNCHANGED <<queue, worker, aborting, run, counted, stored, broken>>

\* The finally clause of _produce_then_poison.
PutPill ==
    /\ producer.pc = "pills" /\ producer.pills < Cardinality(Worker) /\ Room
    /\ ~producer.cancelled
    /\ queue' = Append(queue, Poison)
    /\ producer' = [producer EXCEPT !.pills = @ + 1]
    /\ UNCHANGED <<worker, aborting, run, counted, stored, broken>>

\* Mutated form: the time-out is logged and the pill put again.
PillRetried ==
    /\ producer.pc = "pills" /\ producer.pills < Cardinality(Worker) /\ TimesOut
    /\ ~producer.cancelled
    /\ UNCHANGED runVars

PillTimesOut ==
    /\ producer.pc = "pills" /\ producer.pills < Cardinality(Worker) /\ TimesOut
    /\ ~producer.cancelled
    /\ producer' = [producer EXCEPT !.pc = "failed"]
    /\ Abort
    /\ UNCHANGED <<queue, worker, run, counted, stored, broken>>

ProducerEnds ==
    /\ producer.pc = "pills" /\ producer.pills = Cardinality(Worker) /\ ~producer.cancelled
    /\ IF producer.failing
       THEN producer' = [producer EXCEPT !.pc = "failed"] /\ Abort
       ELSE producer' = [producer EXCEPT !.pc = "done"] /\ UNCHANGED aborting
    /\ UNCHANGED <<queue, worker, run, counted, stored, broken>>

\* CancelledError in the producer: from the try into the finally clause, which goes
\* on putting pills, or out of the finally clause.
ProducerCancelled ==
    /\ producer.cancelled /\ ~ProducerOver
    /\ producer' = [producer EXCEPT
         !.cancelled = FALSE, !.failing = TRUE,
         !.pc = IF @ = "pills" THEN "failed" ELSE "pills"]
    /\ UNCHANGED <<queue, worker, aborting, run, counted, stored, broken>>

------------------------------------------------------------------------------
Does(w, pc) == worker[w].pc = pc /\ ~aborting

\* queue.get(): a batch, or the pill that ends the worker.
Take(w) ==
    /\ Does(w, "getting") /\ queue # <<>>
    /\ queue' = Tail(queue)
    /\ worker' = [worker EXCEPT ![w] =
         IF Head(queue) = Poison THEN [pc |-> "ended", batch |-> 0]
                                 ELSE [pc |-> "fetching", batch |-> Head(queue)]]
    /\ UNCHANGED <<producer, aborting, run, counted, stored, broken>>

\* Every mod of the batch is asked for and counted as processed, failed or skipped.
Fetch(w) ==
    /\ Does(w, "fetching")
    /\ worker' = [worker EXCEPT ![w].pc = "storing"]
    /\ counted' = [counted EXCEPT ![worker[w].batch] = @ + 1]
    /\ UNCHANGED <<queue, producer, aborting, run, stored, broken>>

Store(w) ==
    /\ Does(w, "storing")
    /\ worker' = [worker EXCEPT ![w] = [pc |-> "getting", batch |-> 0]]
    /\ stored' = stored \cup {worker[w].batch}
    /\ UNCHANGED <<queue, producer, aborting, run, counted, broken>>

\* An error that is not of the network ends the worker, and so the group.
StoreRaises(w) ==
    /\ Does(w, "storing") /\ StoreFails
    /\ worker' = [worker EXCEPT ![w].pc = "failed"]
    /\ broken' = TRUE
    /\ Abort
    /\ producer' = ToCancel(producer)
    /\ UNCHANGED <<queue, run, counted, stored>>

\* A statement that is on its way may still take effect.
WorkerCancelled(w) ==
    /\ aborting /\ ~TaskEnded(w)
    /\ worker' = [worker EXCEPT ![w].pc = "failed"]
    /\ \/ UNCHANGED stored
       \/ worker[w].pc = "storing" /\ stored' = stored \cup {worker[w].batch}
    /\ UNCHANGED <<queue, producer, aborting, run, counted, broken>>

------------------------------------------------------------------------------
\* Only the first cancellation of run() is passed on.
CallerCancelled ==
    /\ CallerCancels /\ run = "running" /\ ~aborting
    /\ Abort
    /\ producer' = ToCancel(producer)
    /\ broken' = TRUE
    /\ UNCHANGED <<queue, worker, run, counted, stored>>

\* The group waits for all of its tasks.
GroupEnds ==
    /\ run = "running" /\ ProducerOver /\ \A w \in Worker : TaskEnded(w)
    /\ run' = IF aborting THEN "raised" ELSE "returned"
    /\ UNCHANGED <<queue, producer, worker, aborting, counted, stored, broken>>

Producing ==
    \/ Read \/ ReadRaises \/ Put \/ PutTimesOut \/ PutPill \/ PillTimesOut
    \/ ProducerEnds \/ ProducerCancelled
Consuming(w) == Take(w) \/ Fetch(w) \/ Store(w) \/ StoreRaises(w) \/ WorkerCancelled(w)

RunNext ==
    \/ Producing \/ CallerCancelled \/ GroupEnds
    \/ \E w \in Worker : Consuming(w)

RunSpec == RunInit /\ [][RunNext]_runVars

\* The event loop runs every task that is ready, requests and statements end, and
\* so does the wait of a put.
FairRunSpec ==
    /\ RunSpec
    /\ WF_runVars(Producing) /\ WF_runVars(GroupEnds)
    /\ \A w \in Worker : WF_runVars(Consuming(w))

------------------------------------------------------------------------------
\* Type invariant: the queue within its size, the tasks in their states, and no
\* batch counted more than once.
RunTypeOK ==
    /\ queue \in Seq(Batch \cup {Poison}) /\ Len(queue) <= QueueSize
    /\ producer \in ProducerState /\ worker \in [Worker -> WorkerState]
    /\ aborting \in BOOLEAN /\ broken \in BOOLEAN
    /\ run \in {"running", "returned", "raised"}
    /\ counted \in [Batch -> 0..1] /\ stored \subseteq Batch

\* When run() returns a result, every batch of the load order is in it once and in
\* the registry, and nothing is left in the queue: no pill overtakes a batch, and no
\* worker ends before its pill.
AllCounted ==
    run = "returned" =>
        /\ queue = <<>> /\ stored = Batch
        /\ \A b \in Batch : counted[b] = 1

\* "An unexpected worker crash cancels the producer and all peers" (sync_engine.py:625)
\* and nobody waits for a dead task: run() returns or raises, though the producer
\* puts its pills even when it has been cancelled and nobody takes them.
RunEnds == <>(run # "running")

\* The bound on a put is there for the case that "all workers died without
\* consuming" (sync_engine.py:71-73): run() raises only if a task has failed for a
\* reason of its own or the caller was cancelled.
RaisesForCause == run = "raised" => broken
=============================================================================
