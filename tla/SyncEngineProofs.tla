-------------------------- MODULE SyncEngineProofs --------------------------
(***************************************************************************)
(* The sync engine: its run over the load order, and its file operations.  *)
(*                                                                         *)
(* Of a run: that one which returns a result has counted and stored every  *)
(* batch, for every number of workers and batches and every size of the    *)
(* queue.  The pills are behind all batches in the queue, and there are as *)
(* many as were put less those that have ended a worker (Line).  So a      *)
(* batch is ahead of the producer, in the queue, with one worker, or       *)
(* stored (Shares), and when every worker has taken its pill nothing is    *)
(* left.                                                                   *)
(*                                                                         *)
(* Of the file operations: that the journal tells what the files are, that *)
(* a failed operation's rollback undoes that operation, and that the       *)
(* operations in effect form a stack, for any number of operations,        *)
(* rollbacks, files and faults.  Calls come one after the other and        *)
(* entries get seconds of their own.  Tells(p, k, x) says that x is what   *)
(* the entries with ids below k make of the file p.  A snapshot is told so *)
(* by the entries below its operation's own (SnapOK), a file that no call  *)
(* is at work on by all entries (FileOK).  What is undone has the highest  *)
(* id of all that can be (VictimOK), so that its snapshot is what the      *)
(* remaining entries tell.                                                 *)
(***************************************************************************)
EXTENDS SyncRun, FileOperations, FiniteSetTheorems, SequenceTheorems, TLAPS

Over == {w \in Worker : worker[w].pc = "ended"}

\* How many pills and batches are in the queue, and how many batches were taken.
Pills == producer.pills - Cardinality(Over)
Ahead == Len(queue) - Pills
Taken == producer.next - 1 - Ahead

Line ==
    /\ Pills \in 0..Len(queue) /\ Taken \in 0..Batches
    /\ \A i \in 1..Len(queue) : queue[i] = IF i <= Ahead THEN Taken + i ELSE Poison
    /\ producer.pc \in {"reading", "putting"} => producer.pills = 0
    /\ producer.pc = "putting" => producer.next <= Batches
    /\ Over # {} => Ahead = 0

Busy(w) == worker[w].pc \in {"fetching", "storing"}

Shares ==
    /\ \A w \in Worker :
          Busy(w) => /\ worker[w].batch \in 1..Taken /\ worker[w].batch \notin stored
                     /\ counted[worker[w].batch] = IF worker[w].pc = "fetching" THEN 0 ELSE 1
    /\ \A v, w \in Worker : Busy(v) /\ Busy(w) /\ v # w => worker[v].batch # worker[w].batch
    /\ \A b \in Batch : b > Taken => counted[b] = 0 /\ b \notin stored
    /\ \A b \in stored : counted[b] = 1

Progressing ==
    ~aborting =>
        \A b \in 1..Taken : b \in stored \/ \E w \in Worker : Busy(w) /\ worker[w].batch = b

Healthy ==
    /\ ~aborting => /\ \A w \in Worker : worker[w].pc # "failed"
                    /\ producer.pc # "failed" /\ ~producer.cancelled
    /\ producer.pc = "done" => producer.pills = Cardinality(Worker) /\ ~producer.failing
    /\ producer.pc \in {"pills", "done"} /\ ~producer.failing => producer.next = Batches + 1
    /\ run = "returned" => ~aborting /\ ProducerOver /\ \A w \in Worker : TaskEnded(w)

RunInv == RunTypeOK /\ Line /\ Shares /\ Progressing /\ Healthy

------------------------------------------------------------------------------
LEMMA Counts ==
    /\ Cardinality(Worker) \in Nat
    /\ IsFiniteSet(Over) /\ Cardinality(Over) \in Nat
  <1>1. Over \subseteq Worker  BY DEF Over
  <1> QED  BY <1>1, FS_Subset, FS_CardinalityType, SyncAssumption

\* What the rest is about: numbers of which the types are known.
LEMMA Numbers ==
    ASSUME RunTypeOK
    PROVE  /\ queue \in Seq(Batch \cup {Poison}) /\ Len(queue) \in Nat
           /\ producer.next \in 1..Batches + 1 /\ producer.pills \in Nat
           /\ Pills \in Int /\ Ahead \in Int /\ Taken \in Int
           /\ Batches \in Nat /\ producer.pc \in {"reading", "putting", "pills", "done", "failed"}
  <1>1. producer.next \in 1..Batches + 1 /\ producer.pills \in 0..Cardinality(Worker)
        /\ producer.pc \in {"reading", "putting", "pills", "done", "failed"}
    BY DEF RunTypeOK, ProducerState
  <1>2. queue \in Seq(Batch \cup {Poison}) /\ Len(queue) \in Nat  BY LenProperties DEF RunTypeOK
  <1>3. Batches \in Nat  BY SyncAssumption
  <1> QED  BY <1>1, <1>2, <1>3, Counts DEF Pills, Ahead, Taken

\* Steps that leave the queue and the workers alone.
LEMMA QuietStep ==
    ASSUME RunInv, RunTypeOK', UNCHANGED <<queue, worker, counted, stored>>,
           producer'.next = producer.next, producer'.pills = producer.pills,
           producer'.pc = "putting" => producer.next <= Batches,
           producer'.pc \in {"reading", "putting"} => producer.pc \in {"reading", "putting"},
           aborting => aborting'
    PROVE  Line' /\ Shares' /\ Progressing'
  <1>1. Over' = Over  BY DEF Over
  <1>2. Pills' = Pills /\ Ahead' = Ahead /\ Taken' = Taken  BY <1>1 DEF Pills, Ahead, Taken
  <1>3. Line'  BY <1>1, <1>2 DEF RunInv, Line
  <1>4. \A w \in Worker : Busy(w)' = Busy(w)  BY DEF Busy
  <1>5. Shares'  BY <1>2, <1>4 DEF RunInv, Shares
  <1>6. Progressing'  BY <1>2, <1>4 DEF RunInv, Progressing
  <1> QED  BY <1>3, <1>5, <1>6

------------------------------------------------------------------------------
(* The producer. *)

LEMMA ProducerTypes ==
    ASSUME RunInv, Producing
    PROVE  RunTypeOK'
  <1>0. /\ queue \in Seq(Batch \cup {Poison}) /\ Len(queue) <= QueueSize /\ producer \in ProducerState
        /\ Cardinality(Worker) \in Nat /\ Batches \in Nat /\ QueueSize \in Nat
    BY Counts, SyncAssumption DEF RunInv, RunTypeOK
  <1>1. worker' = worker /\ run' = run /\ counted' = counted /\ stored' = stored
    BY DEF Producing, Read, ReadRaises, Put, PutTimesOut, PutPill, PillTimesOut, ProducerEnds, ProducerCancelled
  <1>2. aborting' \in BOOLEAN /\ broken' \in BOOLEAN
    BY DEF Producing, Read, ReadRaises, Put, PutTimesOut, PutPill, PillTimesOut, ProducerEnds, ProducerCancelled, RunInv, RunTypeOK, Abort
  <1>3. queue' \in Seq(Batch \cup {Poison}) /\ Len(queue') <= QueueSize /\ producer' \in ProducerState
    <2>1. CASE Read  BY <1>0, <2>1 DEF Read, ProducerState
    <2>2. CASE ReadRaises  BY <1>0, <2>2 DEF ReadRaises, ProducerState
    <2>3. CASE Put
      <3>1. producer.next \in 1..Batches  BY <1>0, <2>3 DEF Put, ProducerState, RunInv, Line
      <3>2. Len(queue) + 1 <= QueueSize  BY <1>0, <2>3, LenProperties DEF Put, Room
      <3>3. queue' \in Seq(Batch \cup {Poison}) /\ Len(queue') <= QueueSize
        BY <1>0, <2>3, <3>1, <3>2, AppendProperties DEF Put, Batch
      <3>4. producer.next + 1 \in 1..Batches + 1  BY <1>0, <3>1
      <3> QED  BY <1>0, <2>3, <3>3, <3>4 DEF Put, ProducerState
    <2>4. CASE PutTimesOut  BY <1>0, <2>4 DEF PutTimesOut, ProducerState
    <2>5. CASE PutPill  BY <1>0, <2>5, AppendProperties DEF PutPill, ProducerState, Room
    <2>6. CASE PillTimesOut  BY <1>0, <2>6 DEF PillTimesOut, ProducerState
    <2>7. CASE ProducerEnds  BY <1>0, <2>7 DEF ProducerEnds, ProducerState
    <2>8. CASE ProducerCancelled  BY <1>0, <2>8 DEF ProducerCancelled, ProducerState
    <2> QED  BY <2>1, <2>2, <2>3, <2>4, <2>5, <2>6, <2>7, <2>8 DEF Producing
  <1> QED  BY <1>1, <1>2, <1>3 DEF RunInv, RunTypeOK

\* A batch or a pill that is put goes behind everything else.
LEMMA PutStep ==
    ASSUME RunInv, Put, RunTypeOK'
    PROVE  Line' /\ Shares' /\ Progressing'
  <1>0. RunTypeOK  BY DEF RunInv
  <1>1. producer.pills = 0 /\ Over = {} /\ Cardinality(Over) = 0
    <2>1. producer.pills = 0 /\ Pills >= 0  BY DEF Put, RunInv, Line
    <2>2. Cardinality(Over) = 0  BY <2>1, Counts DEF Pills
    <2> QED  BY <2>1, <2>2, Counts, FS_EmptySet
  <1>2. Over' = Over  BY DEF Put, Over
  <1>3. producer' = [producer EXCEPT !.pc = "reading", !.next = producer.next + 1] /\ producer \in ProducerState
    BY <1>0 DEF Put, RunTypeOK
  <1>4. producer'.next = producer.next + 1 /\ producer'.pills = producer.pills /\ producer'.pc = "reading"
    BY <1>3 DEF ProducerState
  <1>5. /\ Len(queue') = Len(queue) + 1
        /\ \A i \in 1..Len(queue') : queue'[i] = IF i <= Len(queue) THEN queue[i] ELSE producer.next
    BY <1>0, Numbers, AppendProperties DEF Put
  <1>6. Pills = 0 /\ Ahead = Len(queue) /\ Pills' = 0 /\ Ahead' = Len(queue) + 1 /\ Taken' = Taken
    BY <1>0, <1>1, <1>2, <1>4, <1>5, Numbers DEF Pills, Ahead, Taken
  <1>7. Taken + Len(queue) + 1 = producer.next  BY <1>0, <1>6, Numbers DEF Taken
  <1>8. Line'
    BY <1>0, <1>1, <1>2, <1>4, <1>5, <1>6, <1>7, Numbers DEF RunInv, Line
  <1>9. UNCHANGED <<worker, counted, stored, aborting>>  BY DEF Put
  <1>10. \A w \in Worker : Busy(w)' = Busy(w)  BY <1>9 DEF Busy
  <1>11. Shares' /\ Progressing'  BY <1>6, <1>9, <1>10 DEF RunInv, Shares, Progressing
  <1> QED  BY <1>8, <1>11

LEMMA PutPillStep ==
    ASSUME RunInv, PutPill, RunTypeOK'
    PROVE  Line' /\ Shares' /\ Progressing'
  <1>0. RunTypeOK  BY DEF RunInv
  <1>1. Over' = Over  BY DEF PutPill, Over
  <1>2. producer' = [producer EXCEPT !.pills = producer.pills + 1] /\ producer \in ProducerState
    BY <1>0 DEF PutPill, RunTypeOK
  <1>3. producer'.next = producer.next /\ producer'.pills = producer.pills + 1 /\ producer'.pc = "pills"
    BY <1>2 DEF PutPill, ProducerState
  <1>4. /\ Len(queue') = Len(queue) + 1
        /\ \A i \in 1..Len(queue') : queue'[i] = IF i <= Len(queue) THEN queue[i] ELSE Poison
    BY <1>0, Numbers, AppendProperties DEF PutPill
  <1>5. Pills' = Pills + 1 /\ Ahead' = Ahead /\ Taken' = Taken
    <2>1. Pills' = Pills + 1  BY <1>0, <1>1, <1>3, Numbers, Counts DEF Pills
    <2>2. Ahead' = Ahead  BY <1>0, <1>4, <2>1, Numbers DEF Ahead
    <2> QED  BY <1>3, <2>1, <2>2 DEF Taken
  <1>6. Ahead <= Len(queue)  BY <1>0, Numbers DEF RunInv, Line, Ahead
  <1>7. Line'  BY <1>0, <1>1, <1>3, <1>4, <1>5, <1>6, Numbers DEF RunInv, Line
  <1>8. UNCHANGED <<worker, counted, stored, aborting>>  BY DEF PutPill
  <1>9. \A w \in Worker : Busy(w)' = Busy(w)  BY <1>8 DEF Busy
  <1>10. Shares' /\ Progressing'  BY <1>5, <1>8, <1>9 DEF RunInv, Shares, Progressing
  <1> QED  BY <1>7, <1>10

LEMMA ProducerStep ==
    ASSUME RunInv, Producing
    PROVE  RunInv'
  <1>0. RunTypeOK /\ RunTypeOK' /\ producer \in ProducerState  BY ProducerTypes DEF RunInv, RunTypeOK
  <1>1. Line' /\ Shares' /\ Progressing'
    <2>1. CASE Put  BY <1>0, <2>1, PutStep
    <2>2. CASE PutPill  BY <1>0, <2>2, PutPillStep
    <2>3. CASE Read  BY <1>0, <2>3, QuietStep, Numbers DEF Read, ProducerState
    <2>4. CASE ReadRaises  BY <1>0, <2>4, QuietStep DEF ReadRaises, ProducerState
    <2>5. CASE PutTimesOut  BY <1>0, <2>5, QuietStep DEF PutTimesOut, ProducerState
    <2>6. CASE PillTimesOut  BY <1>0, <2>6, QuietStep DEF PillTimesOut, ProducerState, Abort
    <2>7. CASE ProducerEnds  BY <1>0, <2>7, QuietStep DEF ProducerEnds, ProducerState, Abort
    <2>8. CASE ProducerCancelled  BY <1>0, <2>8, QuietStep DEF ProducerCancelled, ProducerState
    <2> QED  BY <2>1, <2>2, <2>3, <2>4, <2>5, <2>6, <2>7, <2>8 DEF Producing
  <1>2. Healthy'
    <2> USE <1>0 DEF RunInv, Healthy, ProducerState, ProducerOver, TaskEnded
    <2>1. CASE Put  BY <2>1 DEF Put
    <2>2. CASE PutPill  BY <2>2 DEF PutPill
    <2>3. CASE Read  BY <2>3, Numbers DEF Read
    <2>4. CASE ReadRaises  BY <2>4 DEF ReadRaises
    <2>5. CASE PutTimesOut  BY <2>5 DEF PutTimesOut
    <2>6. CASE PillTimesOut  BY <2>6 DEF PillTimesOut, Abort
    <2>7. CASE ProducerEnds  BY <2>7 DEF ProducerEnds, Abort
    <2>8. CASE ProducerCancelled  BY <2>8 DEF ProducerCancelled
    <2> QED  BY <2>1, <2>2, <2>3, <2>4, <2>5, <2>6, <2>7, <2>8 DEF Producing
  <1> QED  BY <1>0, <1>1, <1>2 DEF RunInv

------------------------------------------------------------------------------
(* The workers. *)

\* Steps of a worker that leave the queue alone.
LEMMA SameQueue ==
    ASSUME RunTypeOK, Line, UNCHANGED <<queue, Over>>, producer'.next = producer.next,
           producer'.pills = producer.pills, producer'.pc = producer.pc
    PROVE  Line' /\ Taken' = Taken
  <1>1. Pills' = Pills /\ Ahead' = Ahead /\ Taken' = Taken  BY DEF Pills, Ahead, Taken
  <1> QED  BY <1>1 DEF Line

LEMMA FetchStep ==
    ASSUME RunInv, NEW w \in Worker, Fetch(w)
    PROVE  RunInv'
  <1> DEFINE b == worker[w].batch
  <1>0. RunTypeOK /\ ~aborting /\ worker[w].pc = "fetching" /\ worker[w] \in WorkerState
    BY DEF Fetch, Does, RunInv, RunTypeOK
  <1>1. b \in 1..Taken /\ b \in Batch /\ counted[b] = 0 /\ b \notin stored
    BY <1>0, Numbers DEF RunInv, Shares, Line, Busy, Batch
  <1>2. /\ worker' = [worker EXCEPT ![w].pc = "storing"]
        /\ counted' = [counted EXCEPT ![b] = 1]
        /\ UNCHANGED <<queue, producer, aborting, run, stored, broken>>
    BY <1>0, <1>1 DEF Fetch
  <1> HIDE DEF b
  <1>3. worker'[w].pc = "storing" /\ worker'[w].batch = b /\ \A v \in Worker \ {w} : worker'[v] = worker[v]
    BY <1>0, <1>2 DEF RunTypeOK, WorkerState, b
  <1>4. RunTypeOK'  BY <1>0, <1>1, <1>2 DEF RunTypeOK, WorkerState
  <1>5. Over' = Over  BY <1>0, <1>3 DEF Over
  <1>6. Line' /\ Taken' = Taken  BY <1>0, <1>2, <1>5, SameQueue DEF RunInv
  <1>7. counted'[b] = 1 /\ \A c \in Batch \ {b} : counted'[c] = counted[c]  BY <1>0, <1>1, <1>2 DEF RunTypeOK
  <1>8. b = worker[w].batch  BY DEF b
  <1>9. Shares'
    <2>1. ASSUME NEW v \in Worker, Busy(v)'
          PROVE  /\ Busy(v) /\ worker'[v].batch = worker[v].batch /\ worker[v].batch \in Batch
                 /\ v # w => worker[v].batch # b /\ worker'[v] = worker[v]
      BY <1>0, <1>3, <1>8, <2>1, Numbers DEF Busy, RunInv, Shares, Line, Batch
    <2>2. ASSUME NEW v \in Worker, Busy(v)'
          PROVE  /\ worker'[v].batch \in 1..Taken /\ worker'[v].batch \notin stored
                 /\ counted'[worker'[v].batch] = IF worker'[v].pc = "fetching" THEN 0 ELSE 1
      BY <1>1, <1>3, <1>7, <1>8, <2>1, <2>2 DEF RunInv, Shares
    <2>3. \A u, v \in Worker : Busy(u)' /\ Busy(v)' /\ u # v => worker'[u].batch # worker'[v].batch
      BY <2>1 DEF RunInv, Shares
    <2>4. \A c \in Batch : c > Taken => counted'[c] = 0 /\ c \notin stored
      BY <1>0, <1>1, <1>7, Numbers DEF RunInv, Shares
    <2>5. \A c \in stored : counted'[c] = 1  BY <1>0, <1>7 DEF RunInv, Shares, RunTypeOK
    <2> QED  BY <1>2, <1>6, <2>2, <2>3, <2>4, <2>5 DEF Shares
  <1>10. \A v \in Worker : Busy(v)' = Busy(v) /\ worker'[v].batch = worker[v].batch
    BY <1>0, <1>3, <1>8 DEF Busy
  <1>11. Progressing'  BY <1>2, <1>6, <1>10 DEF RunInv, Progressing
  <1>12. Healthy'
    BY <1>0, <1>2, <1>3 DEF RunInv, Healthy, ProducerOver, TaskEnded
  <1> QED  BY <1>4, <1>6, <1>9, <1>11, <1>12 DEF RunInv

LEMMA StoreStep ==
    ASSUME RunInv, NEW w \in Worker, Store(w)
    PROVE  RunInv'
  <1> DEFINE b == worker[w].batch
  <1>0. RunTypeOK /\ ~aborting /\ worker[w].pc = "storing" /\ worker[w] \in WorkerState
    BY DEF Store, Does, RunInv, RunTypeOK
  <1>1. b \in 1..Taken /\ b \in Batch /\ counted[b] = 1
    BY <1>0, Numbers DEF RunInv, Shares, Line, Busy, Batch
  <1>2. /\ worker' = [worker EXCEPT ![w] = [pc |-> "getting", batch |-> 0]]
        /\ stored' = stored \cup {b}
        /\ UNCHANGED <<queue, producer, aborting, run, counted, broken>>
    BY <1>0, <1>1 DEF Store
  <1> HIDE DEF b
  <1>3. worker'[w].pc = "getting" /\ \A v \in Worker \ {w} : worker'[v] = worker[v]
    BY <1>0, <1>2 DEF RunTypeOK
  <1>4. RunTypeOK'
    <2>1. 0 \in 0..Batches  BY SyncAssumption
    <2> QED  BY <1>0, <1>1, <1>2, <2>1 DEF RunTypeOK, WorkerState
  <1>5. Over' = Over  BY <1>0, <1>3 DEF Over
  <1>6. Line' /\ Taken' = Taken  BY <1>0, <1>2, <1>5, SameQueue DEF RunInv
  <1>8. b = worker[w].batch  BY DEF b
  <1>9. \A v \in Worker : Busy(v)' => Busy(v) /\ v # w /\ worker'[v] = worker[v] /\ worker[v].batch # b
    BY <1>0, <1>3, <1>8 DEF Busy, RunInv, Shares
  <1>10. Shares'
    BY <1>0, <1>1, <1>2, <1>6, <1>9, Numbers DEF RunInv, Shares
  <1>11. \A v \in Worker : Busy(v) => v = w \/ (Busy(v)' /\ worker'[v] = worker[v])
    BY <1>3 DEF Busy
  <1>12. Progressing'  BY <1>2, <1>6, <1>8, <1>11 DEF RunInv, Progressing
  <1>13. Healthy'
    BY <1>0, <1>2, <1>3 DEF RunInv, Healthy, ProducerOver, TaskEnded
  <1> QED  BY <1>4, <1>6, <1>10, <1>12, <1>13 DEF RunInv

\* A worker that fails: whatever it leaves, no result will be returned.
LEMMA FailingStep ==
    ASSUME RunInv, NEW w \in Worker, StoreRaises(w) \/ WorkerCancelled(w)
    PROVE  RunInv'
  <1>0. RunTypeOK /\ worker[w] \in WorkerState /\ producer \in ProducerState /\ worker[w].pc \notin {"ended", "failed"}
    BY DEF StoreRaises, WorkerCancelled, Does, RunInv, RunTypeOK, TaskEnded
  <1>1. /\ worker' = [worker EXCEPT ![w].pc = "failed"]
        /\ aborting' = TRUE
        /\ stored' = stored \/ (worker[w].pc = "storing" /\ stored' = stored \cup {worker[w].batch})
        /\ UNCHANGED <<queue, run, counted>>
    BY <1>0 DEF StoreRaises, WorkerCancelled, Abort, RunInv, RunTypeOK
  <1>2. broken' \in BOOLEAN  BY <1>0 DEF StoreRaises, WorkerCancelled, RunTypeOK
  <1>3. /\ producer' \in ProducerState /\ producer'.next = producer.next /\ producer'.pills = producer.pills
        /\ producer'.pc = producer.pc /\ producer'.failing = producer.failing
    BY <1>0 DEF StoreRaises, WorkerCancelled, ToCancel, ProducerState
  <1>4. worker'[w].pc = "failed" /\ \A v \in Worker \ {w} : worker'[v] = worker[v]
    BY <1>0, <1>1 DEF RunTypeOK, WorkerState
  <1>5. worker[w].pc = "storing" => worker[w].batch \in Batch /\ worker[w].batch \in 1..Taken /\ counted[worker[w].batch] = 1
    BY <1>0, Numbers DEF RunInv, Shares, Line, Busy, Batch
  <1>6. RunTypeOK'  BY <1>0, <1>1, <1>2, <1>3, <1>5 DEF RunTypeOK, WorkerState
  <1>7. Over' = Over  BY <1>0, <1>4 DEF Over
  <1>8. Line' /\ Taken' = Taken  BY <1>0, <1>1, <1>3, <1>7, SameQueue DEF RunInv
  <1>9. \A v \in Worker : Busy(v)' => Busy(v) /\ v # w /\ worker'[v] = worker[v]
    BY <1>4 DEF Busy
  <1>10. \A c \in stored' : c \in stored \/ (worker[w].pc = "storing" /\ c = worker[w].batch)  BY <1>1
  <1>11. Shares'
    <2>1. ASSUME NEW v \in Worker, Busy(v)' PROVE worker'[v].batch \notin stored'
      BY <1>9, <1>10, <2>1 DEF RunInv, Shares, Busy
    <2>2. \A c \in stored' : counted'[c] = 1  BY <1>1, <1>5, <1>10 DEF RunInv, Shares
    <2>3. \A c \in Batch : c > Taken => counted[c] = 0 /\ c \notin stored'
      BY <1>0, <1>5, <1>10, Numbers DEF RunInv, Shares
    <2> QED  BY <1>1, <1>8, <1>9, <2>1, <2>2, <2>3 DEF RunInv, Shares
  <1>12. Progressing'  BY <1>1 DEF Progressing
  <1>13. Healthy'
    <2>1. run # "returned"  BY <1>0 DEF RunInv, Healthy, TaskEnded
    <2> QED  BY <1>1, <1>3, <2>1 DEF RunInv, Healthy
  <1> QED  BY <1>6, <1>8, <1>11, <1>12, <1>13 DEF RunInv

\* A pill at the head of the queue: no batch is in the queue.
LEMMA PillStep ==
    ASSUME RunInv, NEW w \in Worker, Take(w), Head(queue) = Poison
    PROVE  RunInv'
  <1>0. RunTypeOK /\ ~aborting /\ worker[w].pc = "getting" /\ queue # <<>>
    BY DEF Take, Does, RunInv, RunTypeOK
  <1>1. /\ worker' = [worker EXCEPT ![w] = [pc |-> "ended", batch |-> 0]] /\ queue' = Tail(queue)
        /\ UNCHANGED <<producer, aborting, run, counted, stored, broken>>
    BY DEF Take
  <1>2. worker'[w].pc = "ended" /\ \A v \in Worker \ {w} : worker'[v] = worker[v]  BY <1>0, <1>1 DEF RunTypeOK
  <1>3. /\ queue' \in Seq(Batch \cup {Poison}) /\ Len(queue) >= 1 /\ Len(queue') = Len(queue) - 1
        /\ queue[1] = Poison /\ \A i \in 1..Len(queue') : queue'[i] = queue[i + 1]
    BY <1>0, <1>1, HeadTailProperties, Numbers
  <1>4. RunTypeOK'
    <2>1. 0 \in 0..Batches  BY SyncAssumption
    <2>2. Len(queue') <= QueueSize  BY <1>0, <1>3, Numbers, SyncAssumption DEF RunTypeOK
    <2> QED  BY <1>0, <1>1, <1>3, <2>1, <2>2 DEF RunTypeOK, WorkerState
  <1>5. Cardinality(Over') = Cardinality(Over) + 1
    <2>1. Over' = Over \cup {w} /\ w \notin Over  BY <1>0, <1>2 DEF Over
    <2> QED  BY <2>1, Counts, FS_AddElement
  <1>6. Ahead = 0
    <2>1. CASE Ahead >= 1
      <3>1. Taken + Ahead \in 0..Batches  BY <1>0, Numbers DEF Taken
      <3>2. queue[1] = Taken + 1 /\ Taken + 1 \in Batch
        BY <1>0, <1>3, <2>1, <3>1, Numbers DEF RunInv, Line, Batch
      <3> QED  BY <1>3, <3>2, SyncAssumption
    <2>2. Ahead >= 0  BY <1>0, Numbers DEF RunInv, Line, Ahead
    <2> QED  BY <1>0, <2>1, <2>2, Numbers
  <1>7. Pills' = Pills - 1 /\ Ahead' = 0 /\ Taken' = Taken
    <2>1. Pills' = Pills - 1  BY <1>0, <1>1, <1>5, Numbers, Counts DEF Pills
    <2>2. Ahead' = 0  BY <1>0, <1>3, <1>6, <2>1, Numbers DEF Ahead
    <2> QED  BY <1>1, <1>6, <2>1, <2>2 DEF Taken
  <1>8. Line'
    <2>1. Pills' \in 0..Len(queue')  BY <1>0, <1>3, <1>6, <1>7, Numbers DEF Ahead
    <2>2. \A i \in 1..Len(queue') : queue'[i] = Poison
      BY <1>0, <1>3, <1>6, Numbers DEF RunInv, Line
    <2> QED  BY <1>0, <1>1, <1>7, <2>1, <2>2, <1>4, Numbers DEF RunInv, Line
  <1>9. \A v \in Worker : (Busy(v)' <=> Busy(v)) /\ (Busy(v) => worker'[v] = worker[v])
    BY <1>0, <1>2 DEF Busy
  <1>10. Shares'  BY <1>1, <1>7, <1>9 DEF RunInv, Shares
  <1>11. Progressing'  BY <1>1, <1>7, <1>9 DEF RunInv, Progressing
  <1>12. Healthy'  BY <1>0, <1>1, <1>2 DEF RunInv, Healthy, ProducerOver, TaskEnded
  <1> QED  BY <1>4, <1>8, <1>10, <1>11, <1>12 DEF RunInv

LEMMA BatchStep ==
    ASSUME RunInv, NEW w \in Worker, Take(w), Head(queue) # Poison
    PROVE  RunInv'
  <1> DEFINE b == Head(queue)
  <1>0. RunTypeOK /\ ~aborting /\ worker[w].pc = "getting" /\ queue # <<>>
    BY DEF Take, Does, RunInv, RunTypeOK
  <1>1. /\ worker' = [worker EXCEPT ![w] = [pc |-> "fetching", batch |-> b]] /\ queue' = Tail(queue)
        /\ UNCHANGED <<producer, aborting, run, counted, stored, broken>>
    BY DEF Take
  <1>2. /\ queue' \in Seq(Batch \cup {Poison}) /\ Len(queue) >= 1 /\ Len(queue') = Len(queue) - 1
        /\ queue[1] = b /\ b # Poison /\ \A i \in 1..Len(queue') : queue'[i] = queue[i + 1]
    BY <1>0, <1>1, HeadTailProperties, Numbers
  <1> HIDE DEF b
  <1>3. worker'[w].pc = "fetching" /\ worker'[w].batch = b /\ \A v \in Worker \ {w} : worker'[v] = worker[v]
    BY <1>0, <1>1 DEF RunTypeOK
  <1>4. Ahead >= 1 /\ b = Taken + 1
    BY <1>0, <1>2, Numbers DEF RunInv, Line
  <1>5. b \in Batch
    <2>1. Taken + Ahead \in 0..Batches  BY <1>0, Numbers DEF Taken
    <2> QED  BY <1>0, <1>4, <2>1, Numbers DEF RunInv, Line, Batch
  <1>6. RunTypeOK'
    <2>1. Len(queue') <= QueueSize  BY <1>0, <1>2, Numbers, SyncAssumption DEF RunTypeOK
    <2> QED  BY <1>0, <1>1, <1>2, <1>5, <2>1, Numbers DEF RunTypeOK, WorkerState, Batch
  <1>7. Over' = Over  BY <1>0, <1>3 DEF Over
  <1>8. Pills' = Pills /\ Ahead' = Ahead - 1 /\ Taken' = Taken + 1
    <2>1. Pills' = Pills  BY <1>1, <1>7 DEF Pills
    <2>2. Ahead' = Ahead - 1  BY <1>0, <1>2, <2>1, Numbers DEF Ahead
    <2>3. Taken = producer.next - 1 - Ahead /\ Taken' = producer.next - 1 - (Ahead - 1)
      BY <1>1, <2>2 DEF Taken
    <2>4. producer.next \in Int /\ Ahead \in Int  BY <1>0, Numbers
    <2>5. Taken' = Taken + 1  BY <2>3, <2>4
    <2> QED  BY <2>1, <2>2, <2>5
  <1>9. Line'
    <2>1. Pills \in 0..Len(queue')  BY <1>0, <1>2, <1>4, Numbers DEF RunInv, Line, Ahead
    <2>2. Taken + 1 \in 0..Batches  BY <1>0, <1>4, <1>5, Numbers DEF Batch
    <2>3. \A i \in 1..Len(queue') : queue'[i] = IF i <= Ahead - 1 THEN Taken + 1 + i ELSE Poison
      <3>1. TAKE i \in 1..Len(queue')
      <3>2. queue'[i] = queue[i + 1] /\ i + 1 \in 1..Len(queue)  BY <1>0, <1>2, Numbers
      <3>3. queue[i + 1] = IF i + 1 <= Ahead THEN Taken + (i + 1) ELSE Poison  BY <3>2 DEF RunInv, Line
      <3>4. Ahead \in Int /\ Taken \in Int /\ i \in Int  BY <1>0, <1>2, Numbers
      <3>5. (i + 1 <= Ahead <=> i <= Ahead - 1) /\ Taken + (i + 1) = Taken + 1 + i  BY <3>4
      <3> QED  BY <3>2, <3>3, <3>5
    <2>4. Over' # {} => Ahead - 1 = 0  BY <1>4, <1>7 DEF RunInv, Line
    <2> QED  BY <1>1, <1>8, <2>1, <2>2, <2>3, <2>4 DEF RunInv, Line
  <1>10. counted[b] = 0 /\ b \notin stored  BY <1>0, <1>4, <1>5, Numbers DEF RunInv, Shares
  <1>11. \A v \in Worker \ {w} : (Busy(v)' <=> Busy(v)) /\ worker'[v] = worker[v]
    BY <1>3 DEF Busy
  <1>12. ~Busy(w) /\ Busy(w)'  BY <1>0, <1>3 DEF Busy
  <1>13. \A v \in Worker : Busy(v) => worker[v].batch \in 1..Taken /\ worker[v].batch # b
    BY <1>0, <1>4, Numbers DEF RunInv, Shares
  <1>14. \A n \in 1..Taken : n \in 1..Taken + 1 /\ n # b  BY <1>0, <1>4, Numbers
  <1>15. b \in 1..Taken + 1  BY <1>0, <1>4, <1>5, Numbers DEF Batch
  <1>16. Shares'
    <2>1. ASSUME NEW v \in Worker, Busy(v)'
          PROVE  /\ worker'[v].batch \in 1..Taken + 1 /\ worker'[v].batch \notin stored
                 /\ counted[worker'[v].batch] = IF worker'[v].pc = "fetching" THEN 0 ELSE 1
      <3>1. CASE v = w  BY <1>3, <1>10, <1>15, <3>1
      <3>2. CASE v # w  BY <1>11, <1>14, <2>1, <3>2 DEF RunInv, Shares
      <3> QED  BY <3>1, <3>2
    <2>2. ASSUME NEW u \in Worker, NEW v \in Worker, Busy(u)', Busy(v)', u # v
          PROVE  worker'[u].batch # worker'[v].batch
      <3>1. CASE u = w  BY <1>3, <1>11, <1>13, <2>2, <3>1
      <3>2. CASE v = w  BY <1>3, <1>11, <1>13, <2>2, <3>2
      <3>3. CASE u # w /\ v # w  BY <1>11, <2>2, <3>3 DEF RunInv, Shares
      <3> QED  BY <3>1, <3>2, <3>3
    <2>3. \A c \in Batch : c > Taken + 1 => counted[c] = 0 /\ c \notin stored
      BY <1>0, Numbers DEF RunInv, Shares, Batch
    <2>4. \A c \in stored : counted[c] = 1  BY DEF RunInv, Shares
    <2> QED  BY <1>1, <1>8, <2>1, <2>2, <2>3, <2>4 DEF Shares
  <1>17. Progressing'
    <2>1. ASSUME NEW c \in 1..Taken + 1
          PROVE  c \in stored \/ \E v \in Worker : Busy(v)' /\ worker'[v].batch = c
      <3>1. CASE c = b  BY <1>3, <1>12, <3>1
      <3>2. CASE c # b
        <4>1. c \in 1..Taken  BY <1>0, <1>4, <3>2, Numbers
        <4>2. c \in stored \/ \E v \in Worker : Busy(v) /\ worker[v].batch = c
          BY <1>0, <4>1 DEF RunInv, Progressing
        <4> QED  BY <1>11, <1>12, <4>2
      <3> QED  BY <3>1, <3>2
    <2> QED  BY <1>1, <1>8, <2>1 DEF Progressing
  <1>18. Healthy'  BY <1>0, <1>1, <1>3 DEF RunInv, Healthy, ProducerOver, TaskEnded
  <1> QED  BY <1>6, <1>9, <1>16, <1>17, <1>18 DEF RunInv

LEMMA WorkerStep ==
    ASSUME RunInv, NEW w \in Worker, Consuming(w)
    PROVE  RunInv'
  <1>1. CASE Take(w)  BY <1>1, PillStep, BatchStep
  <1>2. CASE Fetch(w)  BY <1>2, FetchStep
  <1>3. CASE Store(w)  BY <1>3, StoreStep
  <1>4. CASE StoreRaises(w) \/ WorkerCancelled(w)  BY <1>4, FailingStep
  <1> QED  BY <1>1, <1>2, <1>3, <1>4 DEF Consuming

------------------------------------------------------------------------------
(* The group and its caller. *)

LEMMA GroupStep ==
    ASSUME RunInv, CallerCancelled \/ GroupEnds
    PROVE  RunInv'
  <1>0. RunTypeOK /\ producer \in ProducerState  BY DEF RunInv, RunTypeOK
  <1>1. /\ producer' \in ProducerState /\ producer'.next = producer.next /\ producer'.pills = producer.pills
        /\ producer'.pc = producer.pc /\ producer'.failing = producer.failing
        /\ ~aborting' => producer' = producer
    BY <1>0 DEF CallerCancelled, GroupEnds, ToCancel, ProducerState, Abort
  <1>2. UNCHANGED <<queue, worker, counted, stored>> /\ (aborting => aborting')
    BY DEF CallerCancelled, GroupEnds, Abort
  <1>3. RunTypeOK'  BY <1>0, <1>1, <1>2 DEF CallerCancelled, GroupEnds, Abort, RunTypeOK
  <1>4. producer.pc = "putting" => producer.next <= Batches  BY DEF RunInv, Line
  <1>5. Line' /\ Shares' /\ Progressing'  BY <1>1, <1>2, <1>3, <1>4, QuietStep
  <1>6. Healthy'
    <2>1. CASE CallerCancelled
      BY <1>1, <1>2, <2>1 DEF CallerCancelled, Abort, RunInv, Healthy
    <2>2. CASE GroupEnds
      BY <1>0, <1>1, <1>2, <2>2 DEF GroupEnds, RunInv, Healthy, ProducerOver, TaskEnded, RunTypeOK
    <2> QED  BY <2>1, <2>2
  <1> QED  BY <1>3, <1>5, <1>6 DEF RunInv

LEMMA InitStep == RunInit => RunInv
  <1> SUFFICES ASSUME RunInit PROVE RunInv  OBVIOUS
  <1>1. Over = {} /\ Cardinality(Over) = 0  BY FS_EmptySet DEF RunInit, Over
  <1>2. Cardinality(Worker) \in Nat /\ Batches \in Nat /\ QueueSize \in Nat  BY Counts, SyncAssumption
  <1>3. RunTypeOK
    <2>1. queue = <<>> /\ Len(queue) = 0 /\ queue \in Seq(Batch \cup {Poison})  BY DEF RunInit
    <2>2. producer \in ProducerState  BY <1>2 DEF RunInit, ProducerState
    <2>3. worker \in [Worker -> WorkerState]  BY <1>2 DEF RunInit, WorkerState
    <2>4. counted \in [Batch -> 0..1] /\ stored \subseteq Batch /\ Len(queue) <= QueueSize
      BY <1>2, <2>1 DEF RunInit
    <2> QED  BY <2>1, <2>2, <2>3, <2>4 DEF RunInit, RunTypeOK
  <1>4. Len(queue) = 0 /\ Pills = 0 /\ Ahead = 0 /\ Taken = 0
    BY <1>1 DEF RunInit, Pills, Ahead, Taken
  <1>5. Line  BY <1>1, <1>2, <1>4 DEF RunInit, Line
  <1>6. Shares  BY <1>4 DEF RunInit, Shares, Busy
  <1>7. Progressing  BY <1>4 DEF Progressing
  <1>8. Healthy  BY DEF RunInit, Healthy
  <1> QED  BY <1>3, <1>5, <1>6, <1>7, <1>8 DEF RunInv

LEMMA NextStep == RunInv /\ [RunNext]_runVars => RunInv'
  <1> SUFFICES ASSUME RunInv, [RunNext]_runVars PROVE RunInv'  OBVIOUS
  <1>1. CASE Producing  BY <1>1, ProducerStep
  <1>2. CASE CallerCancelled \/ GroupEnds  BY <1>2, GroupStep
  <1>3. CASE \E w \in Worker : Consuming(w)  BY <1>3, WorkerStep
  <1>4. CASE UNCHANGED runVars
    <2>1. RunTypeOK'  BY <1>4 DEF runVars, RunInv, RunTypeOK
    <2>2. producer.pc = "putting" => producer.next <= Batches  BY DEF RunInv, Line
    <2>3. Line' /\ Shares' /\ Progressing'  BY <1>4, <2>1, <2>2, QuietStep DEF runVars
    <2>4. Healthy'  BY <1>4 DEF runVars, RunInv, Healthy, ProducerOver, TaskEnded
    <2> QED  BY <2>1, <2>3, <2>4 DEF RunInv
  <1> QED  BY <1>1, <1>2, <1>3, <1>4 DEF RunNext

LEMMA RunInvariance == RunSpec => []RunInv
  <1> QED  BY InitStep, NextStep, PTL DEF RunSpec

------------------------------------------------------------------------------
\* The queue never holds more than its size, the tasks are in their states, and no
\* batch is counted twice.
THEOREM RunTypeCorrect == RunSpec => []RunTypeOK
  <1>1. RunInv => RunTypeOK  BY DEF RunInv
  <1> QED  BY <1>1, RunInvariance, PTL

\* Every worker has taken a pill, so the queue is empty; no task has failed, so every
\* batch that was taken is in the registry.
LEMMA ReturnedMeansAll == RunInv => AllCounted
  <1> SUFFICES ASSUME RunInv, run = "returned"
               PROVE  queue = <<>> /\ stored = Batch /\ \A b \in Batch : counted[b] = 1
    BY DEF AllCounted
  <1>0. RunTypeOK /\ ~aborting /\ producer.pc = "done" /\ \A w \in Worker : worker[w].pc = "ended"
    BY DEF RunInv, Healthy, ProducerOver, TaskEnded
  <1>1. Over = Worker /\ Over # {}  BY <1>0, SyncAssumption DEF Over
  <1>2. producer.pills = Cardinality(Worker) /\ producer.next = Batches + 1
    BY <1>0 DEF RunInv, Healthy
  <1>3. Pills = 0 /\ Ahead = 0  BY <1>0, <1>1, <1>2, Counts DEF Pills, RunInv, Line
  <1>4. Len(queue) = 0 /\ Taken = Batches  BY <1>0, <1>2, <1>3, Numbers DEF Ahead, Taken
  <1>5. queue = <<>>  BY <1>0, <1>4, Numbers, EmptySeq
  <1>6. \A b \in Batch : b \in stored
    BY <1>0, <1>4 DEF RunInv, Progressing, Batch, Busy
  <1>7. stored = Batch  BY <1>0, <1>6 DEF RunTypeOK
  <1> QED  BY <1>5, <1>7 DEF RunInv, Shares

\* A result of run() holds every batch of the load order once, and the registry does.
THEOREM EverythingCounted == RunSpec => []AllCounted
  <1> QED  BY RunInvariance, ReturnedMeansAll, PTL

------------------------------------------------------------------------------
OneAtATime == ~Overlap /\ ~Ties

Below(p, k) == {o \in Done(p) : id[o] < k}

Tells(p, k, x) ==
    \/ Below(p, k) = {} /\ x = AtFirst(p)
    \/ \E o \in Latest(Below(p, k)) : x = After(o)

Alone == \A c, d \in Call : ~Ended(c) /\ ~Ended(d) => c = d

Entered(o) == entry[o] # "none"

Ids ==
    /\ now = last /\ stamp = id
    /\ \A o \in Op : IF Entered(o) THEN id[o] \in 1..last ELSE id[o] = 0
    /\ \A o, q \in Op : Entered(o) /\ id[o] = id[q] => o = q

\* What the place of an operation says of its entry.
Entries(pc) ==
    IF pc \in {"idle", "begin", "snapshot", "log"} THEN {"none"}
    ELSE IF pc \in {"operate", "working", "complete"} THEN {"started"}
    ELSE IF pc = "commit" THEN {"completed"}
    ELSE IF pc = "fail" THEN {"started", "completed"}
    ELSE IF pc = "pick" THEN {"failed"}
    ELSE EntryStatus

InWork == {"operate", "working", "complete", "commit", "fail", "pick"}

PlaceOK(o) ==
    /\ entry[o] \in Entries(call[o].pc)
    /\ call[o].victim \in {NoOp, o}
    /\ call[o].pc \in InWork => id[o] = last
    /\ call[o].pc \in {"idle", "begin", "snapshot"} => snap[o] = Missing
    /\ At(o, "complete") => file[PathOf[o]] = After(o)

Undoing == {"restore", "markback"}

\* What is being undone is the last operation that can be.
VictimOK(c) ==
    /\ c \in Op \/ call[c].pc \in Undoing \cup {"idle", "pick", "done", "dead"}
    /\ call[c].pc \in Undoing =>
          /\ Victim(c) \in Latest(Undoable)
          /\ At(c, "restore") => snap[Victim(c)] # Missing
          /\ At(c, "markback") /\ snap[Victim(c)] # Missing /\ PathOf[Victim(c)] \notin spoiled
                => file[PathOf[Victim(c)]] = snap[Victim(c)]

\* A snapshot that may still be put back is what the file was before.
SnapTold(o, k) ==
    PathOf[o] \notin spoiled /\ snap[o] # Missing => Tells(PathOf[o], k, snap[o])

SnapOK(o) ==
    /\ o \in Undoable \/ call[o].pc \in InWork => SnapTold(o, id[o])
    /\ At(o, "log") => SnapTold(o, last + 1)

\* A file that no call is at work on is what the entries tell.
FileOK(p) ==
    p \in spoiled \/ (\E c \in Call : p \in Touched(c)) \/ Tells(p, last + 1, file[p])

IInv ==
    /\ TypeOK /\ Alone /\ Ids
    /\ \A o \in Op : PlaceOK(o) /\ SnapOK(o)
    /\ \A c \in Call : VictimOK(c)
    /\ \A p \in Path : FileOK(p)

------------------------------------------------------------------------------
(* Calls come one after the other: the other calls have ended, and neither *)
(* they nor their files are touched.                                       *)

Moves(c, pc, v) ==
    /\ call'[c].pc = pc /\ call'[c].victim = v
    /\ \A d \in Call \ {c} : call'[d] = call[d] /\ Ended(d)

LEMMA GoesTo ==
  ASSUME IInv, NEW c \in Call, NEW pc, ~Ended(c), GoTo(c, pc)
  PROVE  Moves(c, pc, Victim(c))
<1>1. call \in [Call -> CallState]
  BY DEF IInv, TypeOK
<1>2. call'[c] = [call[c] EXCEPT !.pc = pc] /\ \A d \in Call \ {c} : call'[d] = call[d]
  BY <1>1 DEF GoTo
<1>3. \A d \in Call \ {c} : Ended(d)
  BY DEF IInv, Alone
<1> QED
  BY <1>1, <1>2, <1>3 DEF Moves, CallState, Victim

LEMMA OthersEnded ==
  ASSUME IInv, NEW c \in Call, NEW pc, NEW v, Moves(c, pc, v)
  PROVE  /\ Alone'
         /\ \A d \in Call \ {c} : VictimOK(d)' /\ Touched(d) = {} /\ Touched(d)' = {}
         /\ \A d \in Call \ {c} : call'[d].pc \in {"idle", "done", "dead"}
<1>1. \A d \in Call \ {c} : call'[d] = call[d] /\ call[d].pc \in {"idle", "done", "dead"}
  BY DEF Moves, Ended
<1>2. Alone'
  BY <1>1 DEF Alone, Ended
<1>3. \A d \in Call \ {c} : VictimOK(d)'
  BY <1>1 DEF VictimOK, Undoing
<1>4. \A d \in Call \ {c} : Touched(d) = {} /\ Touched(d)' = {}
  BY <1>1 DEF Touched, Undoing
<1> QED
  BY <1>1, <1>2, <1>3, <1>4

\* What an entry tells depends on the operations done and the order of their ids.
LEMMA TellsSame ==
  ASSUME NEW p, NEW k, NEW x, \A o \in Op : o \in Below(p, k)' <=> o \in Below(p, k),
         \A o \in Below(p, k) : id'[o] = id[o]
  PROVE  Tells(p, k, x)' <=> Tells(p, k, x)
<1>1. Below(p, k)' = Below(p, k)
  BY DEF Below, Done
<1>2. Latest(Below(p, k))' = Latest(Below(p, k))
  BY <1>1 DEF Latest
<1> QED
  BY <1>1, <1>2 DEF Tells

\* A step that leaves the journal as it is.
LEMMA Still ==
  ASSUME IInv, TypeOK', NEW c \in Call, NEW pc, NEW v, Moves(c, pc, v),
         UNCHANGED <<entry, ids>>, spoiled \subseteq spoiled',
         \A o \in Op \ {c} : snap'[o] = snap[o],
         c \in Op => PlaceOK(c)' /\ SnapOK(c)',
         VictimOK(c)',
         \A p \in Path \ spoiled' :
            p \notin Touched(c)' => p \notin Touched(c) /\ file'[p] = file[p]
  PROVE  IInv'
<1>1. /\ Alone'
      /\ \A d \in Call \ {c} : VictimOK(d)' /\ Touched(d) = {} /\ Touched(d)' = {}
      /\ \A d \in Call \ {c} : call'[d].pc \in {"idle", "done", "dead"}
      /\ \A d \in Call \ {c} : call'[d] = call[d]
  BY OthersEnded DEF Moves
<1>2. UNCHANGED <<entry, now, stamp, id, last>>
  BY DEF ids
<1>3. \A p, k, x : Tells(p, k, x)' <=> Tells(p, k, x)
  BY <1>2 DEF Tells, Below, Done, Latest
<1>4. Ids'
  BY <1>2 DEF IInv, Ids, Entered
<1>5. ASSUME NEW o \in Op, o # c PROVE PlaceOK(o)' /\ SnapOK(o)'
  <2>1. o \in Call /\ PlaceOK(o) /\ SnapOK(o) /\ snap'[o] = snap[o] /\ call'[o] = call[o]
    BY <1>1, <1>5 DEF IInv, Call
  <2>2. call[o].pc \in {"idle", "done", "dead"}
    BY <1>1, <1>5, <2>1
  <2>3. PlaceOK(o)'
    BY <1>2, <2>1, <2>2 DEF PlaceOK, InWork, At
  <2>4. SnapTold(o, id[o]) => SnapTold(o, id[o])'
    BY <1>2, <1>3, <2>1 DEF SnapTold
  <2>5. SnapOK(o)'
    BY <1>2, <2>1, <2>2, <2>4 DEF SnapOK, InWork, At, Undoable
  <2> QED
    BY <2>3, <2>5
<1>6. ASSUME NEW p \in Path PROVE FileOK(p)'
  <2>1. CASE p \in spoiled'
    BY <2>1 DEF FileOK
  <2>2. CASE p \in Touched(c)'
    BY <2>2 DEF FileOK
  <2>3. CASE p \notin spoiled' /\ p \notin Touched(c)'
    <3>1. p \notin spoiled /\ p \notin Touched(c) /\ file'[p] = file[p]
      BY <2>3
    <3>2. \A d \in Call : p \notin Touched(d)
      BY <1>1, <3>1
    <3>3. Tells(p, last + 1, file[p])
      BY <3>1, <3>2 DEF IInv, FileOK
    <3> QED
      BY <1>2, <1>3, <3>1, <3>3 DEF FileOK
  <2> QED
    BY <2>1, <2>2, <2>3
<1>7. \A d \in Call : VictimOK(d)'
  BY <1>1
<1> QED
  BY <1>1, <1>4, <1>5, <1>6, <1>7 DEF IInv

\* A new entry gets the highest id and tells nothing yet.
LEMMA Enters ==
  ASSUME OneAtATime, IInv, TypeOK', NEW o \in Op, NEW pc \in {"operate", "prune"},
         At(o, "log"), Moves(o, pc, Victim(o)), Insert(o), UNCHANGED <<file, snap, spoiled>>
  PROVE  IInv'
<1>1. /\ Alone'
      /\ \A d \in Call \ {o} : VictimOK(d)' /\ Touched(d) = {} /\ Touched(d)' = {}
      /\ \A d \in Call \ {o} : call'[d].pc \in {"idle", "done", "dead"}
      /\ \A d \in Call \ {o} : call'[d] = call[d]
  BY OthersEnded DEF Moves, Call
<1>2. /\ entry \in [Op -> EntryStatus] /\ id \in [Op -> Nat] /\ last \in Nat /\ stamp = id
      /\ now = last /\ call[o].pc = "log" /\ entry[o] = "none"
      /\ call[o].victim \in {NoOp, o} /\ SnapTold(o, last + 1)
  BY DEF IInv, TypeOK, Ids, At, PlaceOK, Entries, SnapOK
<1>3. /\ entry' = [entry EXCEPT ![o] = "started"] /\ last' = last + 1
      /\ id' = [id EXCEPT ![o] = last + 1] /\ now' = now + 1 /\ stamp' = id'
  BY <1>2 DEF Insert, OneAtATime
<1>4. /\ \A q \in Op : IF Entered(q) THEN id[q] \in 1..last /\ q # o ELSE id[q] = 0
      /\ \A q, r \in Op : Entered(q) /\ id[q] = id[r] => q = r
  BY <1>2 DEF IInv, Ids, Entered
<1>5. Ids'
  <2>1. \A q \in Op : /\ Entered(q)' <=> (q = o \/ Entered(q))
                       /\ id'[q] = IF q = o THEN last + 1 ELSE id[q]
    BY <1>2, <1>3 DEF Entered
  <2>2. now' = last' /\ stamp' = id'
    BY <1>2, <1>3
  <2>3. \A q \in Op : IF Entered(q)' THEN id'[q] \in 1..last' ELSE id'[q] = 0
    BY <1>2, <1>3, <1>4, <2>1
  <2>4. ASSUME NEW q \in Op, NEW r \in Op, Entered(q)', id'[q] = id'[r] PROVE q = r
    <3>1. \A z \in Op \ {o} : id'[z] = id[z] /\ id[z] < last + 1 /\ id[z] \in Nat
      BY <1>2, <1>3, <1>4 DEF Entered
    <3>2. id'[o] = last + 1
      BY <1>2, <1>3
    <3> QED
      BY <1>2, <1>3, <1>4, <2>4, <3>1, <3>2 DEF Entered
  <2> QED
    BY <2>2, <2>3, <2>4 DEF Ids
\* What the entries tell is what they told.
<1>6. \A p : /\ Done(p)' = Done(p) /\ o \notin Done(p)
             /\ \A q \in Done(p) : q \in Op /\ id'[q] = id[q] /\ id[q] <= last /\ id[q] \in Nat
  BY <1>2, <1>3, <1>4 DEF Done, Entered
<1>7. ASSUME NEW p, NEW k, NEW x PROVE Tells(p, k, x)' <=> Tells(p, k, x)
  BY <1>6, TellsSame DEF Below
<1>8. ASSUME NEW p, NEW x PROVE Tells(p, last + 2, x) <=> Tells(p, last + 1, x)
  <2>1. Below(p, last + 2) = Below(p, last + 1)
    BY <1>2, <1>6 DEF Below
  <2> QED
    BY <2>1 DEF Tells
<1>9. ASSUME NEW q \in Op, q # o PROVE PlaceOK(q)' /\ SnapOK(q)'
  <2>1. q \in Call /\ PlaceOK(q) /\ SnapOK(q) /\ call'[q] = call[q] /\ entry'[q] = entry[q]
        /\ id'[q] = id[q]
    BY <1>1, <1>2, <1>3, <1>9 DEF IInv, Call
  <2>2. call[q].pc \in {"idle", "done", "dead"}
    BY <1>1, <1>9, <2>1
  <2>3. PlaceOK(q)'
    BY <2>1, <2>2 DEF PlaceOK, InWork, At
  <2>4. SnapTold(q, id[q]) => SnapTold(q, id[q])'
    BY <1>7, <2>1 DEF SnapTold
  <2>5. SnapOK(q)'
    BY <2>1, <2>2, <2>4 DEF SnapOK, InWork, At, Undoable
  <2> QED
    BY <2>3, <2>5
<1>10. PlaceOK(o)' /\ SnapOK(o)' /\ VictimOK(o)'
  <2>1. /\ call'[o].pc = pc /\ call'[o].victim = call[o].victim /\ entry'[o] = "started"
        /\ id'[o] = last' /\ snap' = snap /\ spoiled' = spoiled
    BY <1>2, <1>3 DEF Moves, Victim
  <2>2. PlaceOK(o)'
    BY <1>2, <2>1 DEF PlaceOK, Entries, EntryStatus, At
  <2>3. SnapTold(o, id[o])'
    BY <1>2, <1>3, <1>7, <2>1 DEF SnapTold
  <2> QED
    BY <2>1, <2>2, <2>3 DEF SnapOK, VictimOK, Undoing, At
<1>11. ASSUME NEW p \in Path PROVE FileOK(p)'
  <2>1. Touched(o) = {}
    BY <1>2 DEF Touched, Undoing
  <2>2. p \in spoiled \/ Tells(p, last + 1, file[p])
    BY <1>1, <2>1 DEF IInv, FileOK
  <2>3. \A x : Tells(p, last + 1, x)' <=> Tells(p, last + 2, x)
    <3>1. last' + 1 = last + 2
      BY <1>2, <1>3
    <3> QED
      BY <1>7, <3>1
  <2> QED
    BY <1>8, <2>2, <2>3 DEF FileOK
<1> QED
  BY <1>1, <1>5, <1>9, <1>10, <1>11 DEF IInv

\* The entry a call is about to mark, which it does to the last that can be undone.
Marking(c, o) ==
    \/ c = o /\ call[c].pc \in {"complete", "fail"}
    \/ call[c].pc = "markback" /\ o = Victim(c)

LEMMA OnTop ==
  ASSUME IInv, NEW c \in Call, NEW o \in Op, Marking(c, o)
  PROVE  /\ id[o] \in 1..last
         /\ \A q \in Undoable \ {o} : q \in Op /\ id[q] \in Nat /\ id[q] < id[o]
<1>1. /\ last \in Nat /\ id \in [Op -> Nat]
      /\ \A q \in Op : entry[q] # "none" => id[q] \in 1..last
      /\ \A q, r \in Op : entry[q] # "none" /\ id[q] = id[r] => q = r
  BY DEF IInv, TypeOK, Ids, Entered
<1>2. \A q \in Undoable : q \in Op /\ entry[q] # "none"
  BY DEF Undoable
<1>3. entry[o] # "none" /\ \A q \in Undoable : id[q] <= id[o]
  <2>1. CASE c = o /\ call[c].pc \in {"complete", "fail"}
    <3>1. entry[o] # "none" /\ id[o] = last
      BY <2>1 DEF IInv, PlaceOK, Entries, InWork
    <3> QED
      BY <1>1, <1>2, <3>1
  <2>2. CASE call[c].pc = "markback" /\ o = Victim(c)
    <3>1. o \in Latest(Undoable)
      BY <2>2 DEF IInv, VictimOK, Undoing
    <3> QED
      BY <1>2, <3>1 DEF Latest
  <2> QED
    BY <2>1, <2>2 DEF Marking
<1> QED
  BY <1>1, <1>2, <1>3

\* Marking an entry changes what the entries tell from its id on, of its file.
LEMMA TellsMarked ==
  ASSUME IInv, NEW c \in Call, NEW o \in Op, Marking(c, o), NEW new,
         entry' = [entry EXCEPT ![o] = new], UNCHANGED ids
  PROVE  /\ \A p, x : \A k \in Nat :
                k <= id[o] \/ p # PathOf[o] => (Tells(p, k, x)' <=> Tells(p, k, x))
         /\ new = "completed" => Tells(PathOf[o], last + 1, After(o))'
         /\ new # "completed" =>
                \A x : Tells(PathOf[o], last + 1, x)' <=> Tells(PathOf[o], id[o], x)
<1>1. /\ last \in Nat /\ id \in [Op -> Nat] /\ id' = id /\ last' = last
      /\ entry \in [Op -> EntryStatus]
  BY DEF IInv, TypeOK, ids
<1>2. id[o] \in 1..last /\ \A q \in Undoable \ {o} : q \in Op /\ id[q] < id[o]
  BY OnTop
<1>3. \A p : \A q \in Op \ {o} : q \in Done(p)' <=> q \in Done(p)
  BY <1>1 DEF Done
<1>4. \A p : \A q \in Done(p) \ {o} : q \in Op /\ id[q] < id[o]
  BY <1>2 DEF Done, Undoable
<1>5. o \in Done(PathOf[o])' <=> new = "completed"
  BY <1>1 DEF Done
<1>6. \A p : p # PathOf[o] => o \notin Done(p) /\ o \notin Done(p)'
  BY DEF Done
<1>7. ASSUME NEW p, NEW x, NEW k \in Nat, k <= id[o] \/ p # PathOf[o]
      PROVE  Tells(p, k, x)' <=> Tells(p, k, x)
  <2>1. \A q \in Op : q \in Below(p, k)' <=> q \in Below(p, k)
    BY <1>1, <1>2, <1>3, <1>6, <1>7 DEF Below
  <2>2. \A q \in Below(p, k) : id'[q] = id[q]
    BY <1>1
  <2> QED
    BY <2>1, <2>2, TellsSame
<1>8. ASSUME new = "completed" PROVE Tells(PathOf[o], last + 1, After(o))'
  <2>1. o \in Below(PathOf[o], last + 1)'
    BY <1>1, <1>2, <1>5, <1>8 DEF Below
  <2>2. \A q \in Below(PathOf[o], last + 1)' : id'[q] <= id'[o]
    BY <1>1, <1>2, <1>3, <1>4 DEF Below, Done
  <2>3. o \in Latest(Below(PathOf[o], last + 1))'
    BY <2>1, <2>2 DEF Latest
  <2> QED
    BY <2>3 DEF Tells, After
<1>9. ASSUME new # "completed", NEW x
      PROVE  Tells(PathOf[o], last + 1, x)' <=> Tells(PathOf[o], id[o], x)
  <2>1. \A q : q \in Below(PathOf[o], last + 1)' <=> q \in Below(PathOf[o], id[o])
    BY <1>1, <1>2, <1>3, <1>4, <1>5, <1>9 DEF Below, Done
  <2>2. Below(PathOf[o], last + 1)' = Below(PathOf[o], id[o])
    BY <2>1
  <2>3. Latest(Below(PathOf[o], last + 1))' = Latest(Below(PathOf[o], id[o]))
    BY <1>1, <2>2 DEF Latest
  <2> QED
    BY <2>2, <2>3 DEF Tells, AtFirst, After
<1> QED
  BY <1>7, <1>8, <1>9

\* A step that marks an entry.
LEMMA Marks ==
  ASSUME IInv, TypeOK', NEW c \in Call, NEW o \in Op, Marking(c, o),
         NEW new \in {"completed", "failed", "rolled_back"}, NEW pc, NEW v, Moves(c, pc, v),
         entry' = [entry EXCEPT ![o] = new], UNCHANGED <<file, ids, snap>>,
         spoiled \subseteq spoiled', pc \notin Undoing, pc # "log",
         IF c \in Op THEN PlaceOK(c)' ELSE pc = "done",
         \/ PathOf[o] \in spoiled'
         \/ PathOf[o] \in Touched(c)'
         \/ new = "completed" /\ file[PathOf[o]] = After(o)
         \/ new = "rolled_back" /\ At(c, "markback") /\ snap[o] # Missing
  PROVE  IInv'
<1>1. /\ Alone'
      /\ \A d \in Call \ {c} : VictimOK(d)' /\ Touched(d) = {} /\ Touched(d)' = {}
      /\ \A d \in Call \ {c} : call'[d].pc \in {"idle", "done", "dead"}
      /\ \A d \in Call \ {c} : call'[d] = call[d]
      /\ call'[c].pc = pc
  BY OthersEnded DEF Moves
<1>2. /\ last \in Nat /\ id \in [Op -> Nat] /\ id' = id /\ last' = last /\ now' = now
      /\ stamp' = stamp /\ entry \in [Op -> EntryStatus] /\ PathOf[o] \in Path
  BY OperationsAssumption DEF IInv, TypeOK, ids
<1>3. id[o] \in 1..last /\ \A q \in Undoable \ {o} : q \in Op /\ id[q] \in Nat /\ id[q] < id[o]
  BY OnTop
<1>4. /\ \A p, x : \A k \in Nat :
            k <= id[o] \/ p # PathOf[o] => (Tells(p, k, x)' <=> Tells(p, k, x))
      /\ new = "completed" => Tells(PathOf[o], last + 1, After(o))'
      /\ new # "completed" =>
            \A x : Tells(PathOf[o], last + 1, x)' <=> Tells(PathOf[o], id[o], x)
  BY TellsMarked
<1>5. entry[o] # "none" /\ (o \in Undoable \/ call[o].pc \in InWork) /\ (c \in Op => o = c)
  <2>1. CASE c = o /\ call[c].pc \in {"complete", "fail"}
    <3>1. PlaceOK(o)
      BY DEF IInv
    <3> QED
      BY <2>1, <3>1 DEF PlaceOK, Entries, InWork
  <2>2. CASE call[c].pc = "markback" /\ o = Victim(c)
    <3>1. o \in Undoable
      BY <2>2 DEF IInv, VictimOK, Undoing, Latest
    <3>2. c \in Op => o = c
      BY <2>2, OperationsAssumption DEF IInv, PlaceOK, Victim
    <3> QED
      BY <3>1, <3>2 DEF Undoable
  <2> QED
    BY <2>1, <2>2 DEF Marking
<1>6. Ids'
  <2>1. \A q \in Op : Entered(q)' <=> Entered(q)
    BY <1>2, <1>5 DEF Entered
  <2> QED
    BY <1>2, <2>1 DEF IInv, Ids
<1>7. ASSUME NEW q \in Op, q # o PROVE PlaceOK(q)' /\ SnapOK(q)'
  <2>1. q \in Call /\ PlaceOK(q) /\ SnapOK(q) /\ q # c /\ entry'[q] = entry[q]
    BY <1>2, <1>5, <1>7 DEF IInv, Call
  <2>2. call[q].pc \in {"idle", "done", "dead"} /\ call'[q] = call[q]
    BY <1>1, <2>1
  <2>3. PlaceOK(q)'
    BY <1>2, <2>1, <2>2 DEF PlaceOK, InWork, At
  <2>4. q \in Undoable => (SnapTold(q, id[q]) => SnapTold(q, id[q])')
    BY <1>2, <1>3, <1>4, <1>7 DEF SnapTold
  <2>5. SnapOK(q)'
    BY <1>2, <2>1, <2>2, <2>4 DEF SnapOK, InWork, At, Undoable
  <2> QED
    BY <2>3, <2>5
<1>8. PlaceOK(o)'
  <2>1. CASE c = o
    BY <2>1
  <2>2. CASE c # o
    <3>1. o \in Call /\ PlaceOK(o) /\ call'[o] = call[o] /\ call[o].pc \in {"idle", "done", "dead"}
      BY <1>1, <2>2 DEF IInv, Call
    <3>2. call[o].pc # "idle"
      BY <1>5, <3>1 DEF PlaceOK, Entries
    <3> QED
      BY <1>2, <3>1, <3>2 DEF PlaceOK, Entries, EntryStatus, InWork, At
  <2> QED
    BY <2>1, <2>2
<1>9. SnapOK(o)'
  <2>1. SnapTold(o, id[o])
    BY <1>5 DEF IInv, SnapOK
  <2>2. SnapTold(o, id[o])'
    BY <1>2, <1>4, <2>1 DEF SnapTold
  <2>3. ~At(o, "log")'
    BY <1>1, OperationsAssumption DEF At, Call
  <2> QED
    BY <2>2, <2>3 DEF SnapOK
<1>10. VictimOK(c)'
  BY <1>1 DEF VictimOK
<1>11. ASSUME NEW p \in Path PROVE FileOK(p)'
  <2>1. CASE p \in spoiled'
    BY <2>1 DEF FileOK
  <2>2. CASE p # PathOf[o] /\ p \notin spoiled'
    <3>1. p \notin Touched(c)
      BY <1>5, <2>2 DEF Touched, Marking
    <3>2. Tells(p, last + 1, file[p])
      BY <1>1, <2>2, <3>1 DEF IInv, FileOK
    <3> QED
      BY <1>2, <1>4, <2>2, <3>2 DEF FileOK
  <2>3. CASE p = PathOf[o] /\ p \notin spoiled'
    <3>1. CASE PathOf[o] \in Touched(c)'
      BY <2>3, <3>1 DEF FileOK
    <3>2. CASE new = "completed" /\ file[PathOf[o]] = After(o)
      BY <1>2, <1>4, <2>3, <3>2 DEF FileOK, After
    <3>3. CASE new = "rolled_back" /\ At(c, "markback") /\ snap[o] # Missing
      <4>1. o = Victim(c) /\ file[p] = snap[o]
        BY <2>3, <3>3 DEF Marking, At, IInv, VictimOK, Undoing
      <4>2. o \in Undoable
        BY <3>3, <4>1 DEF At, IInv, VictimOK, Undoing, Latest
      <4>3. Tells(p, id[o], snap[o])
        BY <2>3, <3>3, <4>2 DEF IInv, SnapOK, SnapTold
      <4>4. \A x : Tells(p, last + 1, x)' <=> Tells(p, id[o], x)
        BY <1>4, <2>3, <3>3
      <4>5. file' = file
        OBVIOUS
      <4> QED
        BY <4>1, <4>3, <4>4, <4>5 DEF FileOK
    <3> QED
      BY <2>3, <3>1, <3>2, <3>3
  <2> QED
    BY <2>1, <2>2, <2>3
<1> QED
  BY <1>1, <1>6, <1>7, <1>8, <1>9, <1>10, <1>11 DEF IInv

------------------------------------------------------------------------------
\* Every step of the files, the journal, the snapshots and the calls keeps their types.
LEMMA Types ==
  ASSUME IInv, [Next]_vars
  PROVE  TypeOK'
<1> USE OperationsAssumption
<1>1. /\ \A o \in Op : o \in Call /\ PathOf[o] \in Path /\ Torn(o) \in Content
                       /\ After(o) \in Content
      /\ \A c \in Call : call[c] \in CallState
      /\ TypeOK
  BY DEF IInv, TypeOK, Call, Content, Torn, After, Missing
<1>2. ASSUME NEW c \in Call, NEW pc \in Await \cup {"idle", "done", "dead"}, GoTo(c, pc)
      PROVE  call' \in [Call -> CallState]
  <2>1. [call[c] EXCEPT !.pc = pc] \in CallState
    BY <1>1 DEF CallState
  <2> QED
    BY <1>1, <1>2, <2>1 DEF GoTo, TypeOK
<1>3. \A c \in Call : Finally(c) \in Await \cup {"idle", "done", "dead"}
  BY DEF Finally, Await
<1>4. \A o \in Op, new \in EntryStatus : Perhaps(entry, o, new) \subseteq [Op -> EntryStatus]
  BY <1>1 DEF Perhaps, TypeOK
<1>5. \A o \in Op, new \in TxStatus : Perhaps(tx, o, new) \subseteq [Op -> TxStatus]
  BY <1>1 DEF Perhaps, TypeOK
<1>6. ASSUME NEW o \in Op PROVE Spoil(o) => spoiled' \subseteq Path
  BY <1>1 DEF Spoil, TypeOK
<1>7. ASSUME NEW o \in Op PROVE Writes(o) => file' \in [Path -> Content]
  BY <1>1 DEF Writes, TypeOK
<1>8. ASSUME NEW o \in Op, Insert(o) \/ UNCHANGED <<entry, ids>>
      PROVE  /\ entry' \in [Op -> EntryStatus] /\ now' \in Nat /\ stamp' \in [Op -> Nat]
             /\ last' \in Nat /\ id' \in [Op -> Nat]
  BY <1>1, <1>8 DEF Insert, TypeOK, EntryStatus, ids
<1>9. \A c \in Call : call[c].pc \in Undoing => Victim(c) \in Op
  BY DEF IInv, VictimOK, Latest, Undoable
<1>10. CASE UNCHANGED faults
  <2>1. ASSUME NEW c \in Call, Start(c) PROVE TypeOK'
    BY <1>1, <1>2, <1>10, <2>1 DEF Start, journal, ids, snapshots, Await, TypeOK
  <2>2. ASSUME NEW c \in Call, Pick(c) PROVE TypeOK'
    <3>1. \A o \in LastOperations : o \in Op
      BY DEF LastOperations, Undoable
    <3>2. call' \in [Call -> CallState]
      <4>1. CASE GoTo(c, Finally(c))
        BY <1>2, <1>3, <4>1
      <4>2. ASSUME NEW o \in LastOperations,
                   call' = [call EXCEPT ![c] =
                      [pc |-> IF snap[o] # Missing THEN "restore" ELSE "markback", victim |-> o]]
            PROVE  call' \in [Call -> CallState]
        BY <1>1, <3>1, <4>2 DEF TypeOK, CallState, Await
      <4> QED
        BY <2>2, <4>1, <4>2 DEF Pick
    <3> QED
      BY <1>1, <1>10, <2>2, <3>2 DEF Pick, journal, ids, snapshots, TypeOK
  <2>3. ASSUME NEW c \in Call, Restore(c) PROVE TypeOK'
    <3>1. Victim(c) \in Op /\ snap[Victim(c)] \in Content
      BY <1>1, <2>3 DEF Restore, TypeOK
    <3>2. file' \in [Path -> Content] /\ call' \in [Call -> CallState]
      BY <1>1, <1>2, <2>3, <3>1 DEF Restore, TypeOK, Await
    <3> QED
      BY <1>1, <1>10, <2>3, <3>2 DEF Restore, journal, ids, snapshots, TypeOK
  <2>4. ASSUME NEW c \in Call, RestoreMissing(c) PROVE TypeOK'
    <3>1. spoiled' \subseteq Path /\ call' \in [Call -> CallState]
      BY <1>2, <1>3, <1>6, <1>9, <2>4 DEF RestoreMissing, At, Undoing
    <3> QED
      BY <1>1, <1>10, <2>4, <3>1 DEF RestoreMissing, journal, ids, snapshots, TypeOK
  <2>5. ASSUME NEW c \in Call, MarkBack(c) PROVE TypeOK'
    <3>1. Victim(c) \in Op
      BY <1>9, <2>5 DEF MarkBack, At, Undoing
    <3>2. /\ spoiled' \subseteq Path /\ call' \in [Call -> CallState]
          /\ entry' \in [Op -> EntryStatus]
      BY <1>1, <1>2, <1>3, <1>6, <2>5, <3>1 DEF MarkBack, TypeOK, EntryStatus
    <3> QED
      BY <1>1, <1>10, <2>5, <3>2 DEF MarkBack, ids, snapshots, TypeOK
  <2>6. ASSUME NEW o \in Op, Operate(o) PROVE TypeOK'
    <3>1. call' \in [Call -> CallState]
      BY <1>1, <1>2, <2>6
      DEF Operate, Begin, Snapshot, LogBegin, OperationWrites, OperationSucceeds,
          OperationFails, Complete, Commit, Fail, Prune, Await
    <3>2. CASE Begin(o)
      BY <1>1, <1>10, <3>1, <3>2 DEF Begin, ids, snapshots, TypeOK, TxStatus
    <3>3. CASE Snapshot(o)
      BY <1>1, <1>10, <3>1, <3>3 DEF Snapshot, journal, ids, snapshots, TypeOK
    <3>4. CASE LogBegin(o)
      BY <1>1, <1>8, <1>10, <3>1, <3>4 DEF LogBegin, snapshots, TypeOK
    <3>5. CASE OperationWrites(o)
      BY <1>1, <1>7, <1>10, <3>1, <3>5 DEF OperationWrites, journal, ids, snapshots, TypeOK
    <3>6. CASE OperationSucceeds(o)
      BY <1>1, <1>10, <3>1, <3>6 DEF OperationSucceeds, journal, ids, snapshots, TypeOK
    <3>7. CASE OperationFails(o)
      BY <1>1, <1>10, <3>1, <3>7 DEF OperationFails, journal, ids, snapshots, TypeOK
    <3>8. CASE Complete(o)
      BY <1>1, <1>10, <3>1, <3>8 DEF Complete, ids, snapshots, TypeOK, EntryStatus
    <3>9. CASE Commit(o)
      BY <1>1, <1>10, <3>1, <3>9 DEF Commit, ids, snapshots, TypeOK, TxStatus
    <3>10. CASE Fail(o)
      BY <1>1, <1>10, <3>1, <3>10 DEF Fail, ids, snapshots, TypeOK, EntryStatus
    <3>11. CASE Prune(o)
      BY <1>1, <1>10, <3>1, <3>11 DEF Prune, journal, ids, TypeOK
    <3> QED
      BY <2>6, <3>2, <3>3, <3>4, <3>5, <3>6, <3>7, <3>8, <3>9, <3>10, <3>11 DEF Operate
  <2>7. CASE GrowOld
    BY <1>1, <1>10, <2>7 DEF GrowOld, journal, ids, TypeOK
  <2>8. CASE UNCHANGED vars
    BY <1>1, <2>8 DEF vars, TypeOK
  <2>9. CASE Faulty
    BY <1>1, <1>10, <2>9 DEF Faulty, TypeOK
  <2> QED
    BY <2>1, <2>2, <2>3, <2>4, <2>5, <2>6, <2>7, <2>8, <2>9 DEF Next, Undo
<1>11. CASE Faulty
  <2>1. faults' \in 0..MaxFaults
    BY <1>1, <1>11 DEF Faulty, TypeOK
  <2>2. ASSUME NEW o \in Op, SnapshotFails(o) PROVE TypeOK'
    BY <1>1, <1>2, <2>1, <2>2 DEF SnapshotFails, journal, ids, snapshots, Await, TypeOK
  <2>3. ASSUME NEW o \in Op, JournalFails(o) PROVE TypeOK'
    <3>1. call' \in [Call -> CallState] /\ spoiled' \subseteq Path
      BY <1>1, <1>2, <1>6, <2>3 DEF JournalFails, Await, TypeOK
    <3>2. tx' \in [Op -> TxStatus]
      BY <1>1, <1>5, <2>3 DEF JournalFails, TypeOK, TxStatus
    <3>3. /\ entry' \in [Op -> EntryStatus] /\ now' \in Nat /\ stamp' \in [Op -> Nat]
          /\ last' \in Nat /\ id' \in [Op -> Nat]
      BY <1>1, <1>4, <1>8, <2>3 DEF JournalFails, TypeOK, EntryStatus, ids
    <3> QED
      BY <1>1, <2>1, <2>3, <3>1, <3>2, <3>3 DEF JournalFails, snapshots, TypeOK
  <2>4. ASSUME NEW c \in Call, RestoreFails(c) PROVE TypeOK'
    <3>1. Victim(c) \in Op
      BY <1>9, <2>4 DEF RestoreFails, At, Undoing
    <3>2. /\ spoiled' \subseteq Path /\ call' \in [Call -> CallState]
          /\ file' \in [Path -> Content]
      BY <1>1, <1>2, <1>3, <1>6, <1>7, <2>4, <3>1 DEF RestoreFails, TypeOK
    <3> QED
      BY <1>1, <2>1, <2>4, <3>2 DEF RestoreFails, journal, ids, snapshots, TypeOK
  <2>5. ASSUME NEW c \in Call, MarkBackFails(c) PROVE TypeOK'
    <3>1. Victim(c) \in Op
      BY <1>9, <2>5 DEF MarkBackFails, At, Undoing
    <3>2. /\ spoiled' \subseteq Path /\ call' \in [Call -> CallState]
          /\ entry' \in [Op -> EntryStatus]
      BY <1>2, <1>3, <1>4, <1>6, <2>5, <3>1 DEF MarkBackFails, EntryStatus
    <3> QED
      BY <1>1, <2>1, <2>5, <3>2 DEF MarkBackFails, ids, snapshots, TypeOK
  <2>6. ASSUME NEW c \in Call, Cancel(c) PROVE TypeOK'
    <3>1. /\ c \in Op \/ call[c].pc \in {"pick", "restore", "markback"}
          /\ call[c].pc \in Await
      BY <1>1, <2>6 DEF Cancel, Ended, IInv, VictimOK, Undoing, CallState
    <3>2. call' \in [Call -> CallState]
      BY <1>2, <1>3, <2>6 DEF Cancel
    <3>3. tx' \in [Op -> TxStatus]
      BY <1>1, <1>5, <2>6, <3>1 DEF Cancel, At, TypeOK, TxStatus, journal
    <3>4. entry' \in [Op -> EntryStatus] /\ now' \in Nat /\ stamp' \in [Op -> Nat]
          /\ last' \in Nat /\ id' \in [Op -> Nat]
      <4>1. CASE At(c, "log")
        BY <1>8, <2>6, <3>1, <4>1 DEF Cancel, At
      <4>2. CASE ~At(c, "log")
        <5>1. UNCHANGED ids
          BY <2>6, <4>2 DEF Cancel, journal
        <5>2. entry' \in [Op -> EntryStatus]
          BY <1>1, <1>4, <1>9, <2>6, <3>1, <4>2
          DEF Cancel, At, TypeOK, EntryStatus, journal, Undoing
        <5> QED
          BY <1>1, <5>1, <5>2 DEF ids, TypeOK
      <4> QED
        BY <4>1, <4>2
    <3>5. file' \in [Path -> Content]
      BY <1>1, <2>6 DEF Cancel, TypeOK
    <3>6. spoiled' \subseteq Path
      BY <1>1, <1>6, <1>9, <2>6, <3>1 DEF Cancel, At, TypeOK, Undoing
    <3> QED
      BY <1>1, <2>1, <2>6, <3>2, <3>3, <3>4, <3>5, <3>6 DEF Cancel, snapshots, TypeOK
  <2>7. CASE Crash
    <3>1. \A c \in Call : [call[c] EXCEPT !.pc = "dead"] \in CallState
      BY <1>1 DEF CallState
    <3>2. call' \in [Call -> CallState]
      BY <1>1, <2>7, <3>1 DEF Crash
    <3>3. spoiled' \subseteq Path
      BY <1>1, <2>7 DEF Crash, Touched, TypeOK
    <3> QED
      BY <1>1, <2>1, <2>7, <3>2, <3>3 DEF Crash, journal, ids, snapshots, TypeOK
  <2> QED
    BY <1>11, <2>2, <2>3, <2>4, <2>5, <2>6, <2>7 DEF Faulty
<1> QED
  BY <1>10, <1>11 DEF Next, vars

------------------------------------------------------------------------------
LEMMA Initially ==
  ASSUME Init
  PROVE  IInv
<1> USE OperationsAssumption
<1>1. /\ now = 0 /\ last = 0 /\ stamp = id /\ spoiled = {} /\ faults = 0
      /\ \A o \in Op : entry[o] = "none" /\ id[o] = 0 /\ snap[o] = Missing
      /\ \A c \in Call : call[c] = [pc |-> "idle", victim |-> NoOp]
      /\ \A p \in Path : file[p] = AtFirst(p)
  BY DEF Init
<1>2. TypeOK
  BY DEF Init, TypeOK, AtFirst, Original, Missing, Content, TxStatus, EntryStatus, CallState
<1>3. Alone /\ Ids
  BY <1>1, <1>2 DEF Alone, Ended, Ids, Entered, TypeOK
<1>4. ASSUME NEW o \in Op PROVE PlaceOK(o) /\ SnapOK(o)
  <2>1. o \in Call
    BY DEF Call
  <2> QED
    BY <1>1, <2>1 DEF PlaceOK, SnapOK, Entries, InWork, At, Undoable
<1>5. \A c \in Call : VictimOK(c)
  BY <1>1 DEF VictimOK, Undoing
<1>6. ASSUME NEW p \in Path PROVE FileOK(p)
  <2>1. Below(p, last + 1) = {}
    BY <1>1 DEF Below, Done
  <2> QED
    BY <1>1, <2>1 DEF FileOK, Tells
<1> QED
  BY <1>2, <1>3, <1>4, <1>5, <1>6 DEF IInv

LEMMA TellsStill ==
  ASSUME UNCHANGED <<entry, ids>>
  PROVE  \A p, k, x : Tells(p, k, x)' <=> Tells(p, k, x)
<1>1. UNCHANGED <<entry, id>>
  BY DEF ids
<1> QED
  BY <1>1 DEF Tells, Below, Done, Latest

\* A snapshot stays what the entries tell when its operation moves on.
LEMMA SnapStays ==
  ASSUME IInv, NEW o \in Op, UNCHANGED <<entry, ids>>, snap'[o] = snap[o],
         spoiled \subseteq spoiled', ~At(o, "log")',
         call'[o].pc \in InWork => call[o].pc \in InWork
  PROVE  SnapOK(o)'
<1>1. /\ SnapOK(o) /\ id' = id /\ entry' = entry
      /\ \A p, k, x : Tells(p, k, x)' <=> Tells(p, k, x)
  BY TellsStill DEF IInv, ids
<1>2. SnapTold(o, id[o]) => SnapTold(o, id[o])'
  BY <1>1 DEF SnapTold
<1> QED
  BY <1>1, <1>2 DEF SnapOK, Undoable

\* What the invariant says of one call.
LEMMA OfCall ==
  ASSUME IInv, NEW c \in Call
  PROVE  /\ call[c].pc \in Await \cup {"idle", "done", "dead"}
         /\ call[c].pc \in Undoing => Victim(c) \in Op /\ (c \in Op => Victim(c) = c)
         /\ c \notin Op => call[c].pc \in Undoing \cup {"idle", "pick", "done", "dead"}
         /\ VictimOK(c)
         /\ c \in Op => PlaceOK(c) /\ SnapOK(c)
<1>1. call[c] \in CallState /\ VictimOK(c) /\ (c \in Op => PlaceOK(c) /\ SnapOK(c))
  BY DEF IInv, TypeOK
<1>2. call[c].pc \in Undoing => Victim(c) \in Op
  BY <1>1 DEF VictimOK, Latest, Undoable
<1> QED
  BY <1>1, <1>2, OperationsAssumption DEF CallState, VictimOK, PlaceOK, Victim

LEMMA Starts ==
  ASSUME OneAtATime, IInv, TypeOK', NEW c \in Call, Start(c)
  PROVE  IInv'
<1> DEFINE pc == IF c \in Op THEN "begin" ELSE "pick"
<1>1. Moves(c, pc, Victim(c))
  <2>1. call'[c] = [call[c] EXCEPT !.pc = pc] /\ \A d \in Call \ {c} : call'[d] = call[d]
    BY DEF Start, GoTo, IInv, TypeOK
  <2>2. \A d \in Call : Ended(d)
    BY DEF OneAtATime, Start
  <2>3. call[c] \in CallState
    BY DEF IInv, TypeOK
  <2> QED
    BY <2>1, <2>2, <2>3 DEF Moves, CallState, Victim
<1>2. /\ call[c].pc = "idle" /\ call'[c].pc = pc /\ call'[c].victim = Victim(c)
      /\ UNCHANGED <<file, entry, ids, snap, spoiled>>
  BY <1>1 DEF Start, At, Moves, journal, snapshots
<1>3. c \in Op => PlaceOK(c)' /\ SnapOK(c)'
  <2>1. ASSUME c \in Op PROVE PlaceOK(c)'
    BY <1>2, <2>1, OfCall DEF PlaceOK, Entries, InWork, At, Victim
  <2>2. ASSUME c \in Op PROVE SnapOK(c)'
    BY <1>2, <2>2, SnapStays DEF InWork, At
  <2> QED
    BY <2>1, <2>2
<1>4. VictimOK(c)' /\ Touched(c) = {}
  BY <1>2 DEF VictimOK, Undoing, Touched
<1> HIDE DEF pc
<1> QED
  BY <1>1, <1>2, <1>3, <1>4, Still

\* A step of an operation that leaves the journal as it is.
LEMMA OperationStill ==
  ASSUME IInv, TypeOK', NEW o \in Op, NEW pc, ~Ended(o), GoTo(o, pc),
         UNCHANGED <<entry, ids>>, snap' = snap, spoiled \subseteq spoiled',
         pc \notin Undoing \cup {"idle", "log"}, PlaceOK(o)',
         pc \in InWork => call[o].pc \in InWork,
         \A p \in Path \ spoiled' :
            p \notin Touched(o)' => p \notin Touched(o) /\ file'[p] = file[p]
  PROVE  IInv'
<1>1. o \in Call /\ Moves(o, pc, Victim(o)) /\ call'[o].pc = pc
  BY GoesTo DEF Moves, Call
<1>2. SnapOK(o)'
  BY <1>1, SnapStays DEF At
<1>3. VictimOK(o)'
  BY <1>1 DEF VictimOK
<1> QED
  BY <1>1, <1>2, <1>3, Still

\* Where an operation goes, and what is known of it there.
LEMMA OperationMoves ==
  ASSUME IInv, NEW o \in Op, NEW pc, ~Ended(o), GoTo(o, pc)
  PROVE  /\ o \in Call /\ Moves(o, pc, Victim(o))
         /\ call'[o].pc = pc /\ call'[o].victim = call[o].victim
         /\ PlaceOK(o) /\ SnapOK(o) /\ entry \in [Op -> EntryStatus] /\ PathOf[o] \in Path
         /\ Touched(o) = IF call[o].pc \in {"working", "complete", "fail", "pick"}
                                             \cup Undoing THEN {PathOf[o]} ELSE {}
         /\ Touched(o)' = IF pc \in {"working", "complete", "fail", "pick"} THEN {PathOf[o]}
                          ELSE IF pc \in Undoing THEN {PathOf[Victim(o)]} \cap Path ELSE {}
<1>1. o \in Call /\ Moves(o, pc, Victim(o))
  BY GoesTo DEF Call
<1>2. /\ call'[o].pc = pc /\ call'[o].victim = call[o].victim
      /\ PlaceOK(o) /\ SnapOK(o) /\ entry \in [Op -> EntryStatus] /\ PathOf[o] \in Path
  BY <1>1, OperationsAssumption DEF Moves, Victim, IInv, TypeOK
<1>3. call[o].pc \in Undoing => Victim(o) = o
  BY <1>1, OfCall
<1>4. \A p : p \in Touched(o) <=>
          p = PathOf[o] /\ call[o].pc \in {"working", "complete", "fail", "pick"} \cup Undoing
  BY <1>2, <1>3 DEF Touched, Undoing
<1>5. \A p : p \in Touched(o)' <=>
          \/ p = PathOf[o] /\ pc \in {"working", "complete", "fail", "pick"}
          \/ p = PathOf[Victim(o)] /\ p \in Path /\ pc \in Undoing
  BY <1>2 DEF Touched, Undoing, Victim
<1> QED
  BY <1>1, <1>2, <1>4, <1>5 DEF Undoing

LEMMA Operates ==
  ASSUME OneAtATime, IInv, TypeOK', NEW o \in Op, Operate(o)
  PROVE  IInv'
<1>1. ~Ended(o)
  BY DEF Operate, Begin, Snapshot, LogBegin, OperationWrites, OperationSucceeds,
         OperationFails, Complete, Commit, Fail, Prune, At, Ended
<1>2. CASE Begin(o)
  <2>1. /\ UNCHANGED <<file, entry, ids, snap, spoiled>> /\ GoTo(o, "snapshot")
        /\ call[o].pc = "begin"
    BY <1>2 DEF Begin, At, snapshots
  <2>2. PlaceOK(o)' /\ Touched(o) = {} /\ Touched(o)' = {}
    BY <1>1, <2>1, OperationMoves DEF PlaceOK, Entries, InWork, At, Undoing
  <2> QED
    BY <1>1, <2>1, <2>2, OperationStill DEF InWork, Undoing
<1>3. CASE Snapshot(o)
  <2>1. /\ UNCHANGED <<file, entry, ids, spoiled>> /\ GoTo(o, "log") /\ call[o].pc = "snapshot"
        /\ IF file[PathOf[o]] = Missing THEN snap' = snap
           ELSE snap' = [snap EXCEPT ![o] = file[PathOf[o]]]
    BY <1>3 DEF Snapshot, At, journal, snapshots
  <2>2. PlaceOK(o)' /\ Touched(o) = {} /\ Touched(o)' = {}
    BY <1>1, <2>1, OperationMoves DEF PlaceOK, Entries, InWork, At, Undoing
  <2>3. o \in Call /\ Moves(o, "log", Victim(o)) /\ call'[o].pc = "log"
    BY <1>1, <2>1, OperationMoves
  <2>4. SnapTold(o, last + 1)'
    <3>1. snap[o] = Missing /\ snap \in [Op -> Content] /\ PathOf[o] \in Path
      BY <2>1, OperationsAssumption DEF IInv, PlaceOK, TypeOK
    <3>2. snap'[o] # Missing => snap'[o] = file[PathOf[o]]
      BY <2>1, <3>1
    <3>3. PathOf[o] \notin spoiled => Tells(PathOf[o], last + 1, file[PathOf[o]])
      <4>1. \A d \in Call : Touched(d) = {}
        BY <2>2, <2>3, OthersEnded
      <4> QED
        BY <3>1, <4>1 DEF IInv, FileOK
    <3>4. /\ \A p, k, x : Tells(p, k, x)' <=> Tells(p, k, x)
          /\ last' = last /\ spoiled' = spoiled
      BY <2>1, TellsStill DEF ids
    <3> QED
      BY <3>2, <3>3, <3>4 DEF SnapTold
  <2>5. SnapOK(o)'
    <3>1. entry'[o] = "none"
      BY <1>1, <2>1, OperationMoves DEF PlaceOK, Entries
    <3> QED
      BY <2>3, <2>4, <3>1 DEF SnapOK, Undoable, InWork
  <2>6. VictimOK(o)'
    BY <2>3 DEF VictimOK, Undoing
  <2>7. \A q \in Op \ {o} : snap'[q] = snap[q]
    BY <2>1 DEF IInv, TypeOK
  <2> QED
    BY <2>1, <2>2, <2>3, <2>5, <2>6, <2>7, Still
<1>4. CASE LogBegin(o)
  <2>1. At(o, "log") /\ Insert(o) /\ UNCHANGED <<file, snap, spoiled>> /\ GoTo(o, "operate")
    BY <1>4 DEF LogBegin, snapshots
  <2> QED
    BY <1>1, <2>1, OperationMoves, Enters
<1>5. CASE OperationWrites(o)
  <2>1. /\ UNCHANGED <<entry, ids, snap, spoiled>> /\ GoTo(o, "working")
        /\ call[o].pc = "operate" /\ \A p \in Path \ {PathOf[o]} : file'[p] = file[p]
    BY <1>5 DEF OperationWrites, Writes, At, journal, snapshots, IInv, TypeOK
  <2>2. PlaceOK(o)' /\ Touched(o) = {} /\ Touched(o)' = {PathOf[o]}
    BY <1>1, <2>1, OperationMoves DEF PlaceOK, Entries, InWork, At, Undoing, ids
  <2> QED
    BY <1>1, <2>1, <2>2, OperationStill DEF InWork, Undoing
<1>6. CASE OperationSucceeds(o)
  <2>1. /\ UNCHANGED <<entry, ids, snap, spoiled>> /\ GoTo(o, "complete")
        /\ call[o].pc \in {"operate", "working"} /\ file' = [file EXCEPT ![PathOf[o]] = After(o)]
    BY <1>6 DEF OperationSucceeds, At, journal, snapshots
  <2>2. file'[PathOf[o]] = After(o) /\ \A p \in Path \ {PathOf[o]} : file'[p] = file[p]
    BY <2>1, OperationsAssumption DEF IInv, TypeOK
  <2>3. PlaceOK(o)'
    BY <1>1, <2>1, <2>2, OperationMoves DEF PlaceOK, Entries, InWork, At, Undoing, ids, After
  <2>4. Touched(o) \subseteq {PathOf[o]} /\ Touched(o)' = {PathOf[o]}
    BY <1>1, <2>1, OperationMoves
  <2> QED
    BY <1>1, <2>1, <2>2, <2>3, <2>4, OperationStill DEF InWork, Undoing
<1>7. CASE OperationFails(o)
  <2>1. /\ UNCHANGED <<file, entry, ids, snap, spoiled>> /\ GoTo(o, "fail")
        /\ call[o].pc \in {"operate", "working"}
    BY <1>7 DEF OperationFails, At, journal, snapshots
  <2>2. PlaceOK(o)' /\ Touched(o) \subseteq {PathOf[o]} /\ Touched(o)' = {PathOf[o]}
    BY <1>1, <2>1, OperationMoves DEF PlaceOK, Entries, InWork, At, Undoing, ids
  <2> QED
    BY <1>1, <2>1, <2>2, OperationStill DEF InWork, Undoing
<1>8. CASE Complete(o)
  <2>1. /\ UNCHANGED <<file, ids, snap, spoiled>> /\ GoTo(o, "commit")
        /\ call[o].pc = "complete" /\ entry' = [entry EXCEPT ![o] = "completed"]
    BY <1>8 DEF Complete, At, snapshots
  <2>2. PlaceOK(o)' /\ file[PathOf[o]] = After(o)
    BY <1>1, <2>1, OperationMoves DEF PlaceOK, Entries, InWork, At, Undoing, ids
  <2>3. Marking(o, o)
    BY <2>1 DEF Marking
  <2> QED
    BY <1>1, <2>1, <2>2, <2>3, OperationMoves, Marks DEF Undoing
<1>9. CASE Commit(o)
  <2>1. /\ UNCHANGED <<file, entry, ids, snap, spoiled>> /\ GoTo(o, "prune")
        /\ call[o].pc = "commit"
    BY <1>9 DEF Commit, At, snapshots
  <2>2. PlaceOK(o)' /\ Touched(o) = {} /\ Touched(o)' = {}
    BY <1>1, <2>1, OperationMoves DEF PlaceOK, Entries, InWork, At, Undoing, EntryStatus
  <2> QED
    BY <1>1, <2>1, <2>2, OperationStill DEF InWork, Undoing
<1>10. CASE Fail(o)
  <2>1. /\ UNCHANGED <<file, ids, snap, spoiled>> /\ GoTo(o, "pick")
        /\ call[o].pc = "fail" /\ entry' = [entry EXCEPT ![o] = "failed"]
    BY <1>10 DEF Fail, At, snapshots
  <2>2. PlaceOK(o)' /\ PathOf[o] \in Touched(o)'
    BY <1>1, <2>1, OperationMoves DEF PlaceOK, Entries, InWork, At, Undoing, ids
  <2>3. Marking(o, o)
    BY <2>1 DEF Marking
  <2> QED
    BY <1>1, <2>1, <2>2, <2>3, OperationMoves, Marks DEF Undoing
<1>11. CASE Prune(o)
  <2>1. /\ UNCHANGED <<file, entry, ids, snap, spoiled>> /\ GoTo(o, "done")
        /\ call[o].pc = "prune"
    BY <1>11 DEF Prune, At, journal
  <2>2. PlaceOK(o)' /\ Touched(o) = {} /\ Touched(o)' = {}
    BY <1>1, <2>1, OperationMoves DEF PlaceOK, Entries, InWork, At, Undoing, EntryStatus
  <2> QED
    BY <1>1, <2>1, <2>2, OperationStill DEF InWork, Undoing
<1> QED
  BY <1>2, <1>3, <1>4, <1>5, <1>6, <1>7, <1>8, <1>9, <1>10, <1>11 DEF Operate

\* A failing statement of the journal, or one cut off, may still mark the entry.
LEMMA MarksPerhaps ==
  ASSUME IInv, TypeOK', NEW o \in Op, call[o].pc \in {"complete", "fail"},
         NEW new \in {"completed", "failed"}, entry' \in Perhaps(entry, o, new),
         NEW pc \in {"fail", "prune"}, GoTo(o, pc), UNCHANGED <<file, ids, snap>>,
         spoiled \subseteq spoiled', pc = "fail" => new = "completed",
         \/ PathOf[o] \in spoiled' \/ pc = "fail"
         \/ At(o, "complete") /\ new = "completed" /\ entry' # entry
  PROVE  IInv'
<1>1. ~Ended(o)
  BY DEF Ended
<1>2. entry[o] \in {"started", "completed"} /\ entry \in [Op -> EntryStatus]
  BY <1>1, OperationMoves DEF PlaceOK, Entries
<1>3. entry'[o] \in EntryStatus /\ (pc = "fail" => entry'[o] \in {"started", "completed"})
  BY <1>2 DEF Perhaps, EntryStatus
<1>4. PlaceOK(o)' /\ Touched(o) = {PathOf[o]} /\ (pc = "fail" => Touched(o)' = {PathOf[o]})
  BY <1>1, <1>3, OperationMoves DEF PlaceOK, Entries, InWork, At, Undoing, ids
<1>5. CASE entry' = entry
  BY <1>1, <1>4, <1>5, OperationStill DEF InWork, Undoing
<1>6. CASE entry' # entry
  <2>1. entry' = [entry EXCEPT ![o] = new]
    BY <1>6 DEF Perhaps
  <2>2. Marking(o, o)
    BY DEF Marking
  <2>3. At(o, "complete") => file[PathOf[o]] = After(o)
    BY <1>1, OperationMoves DEF PlaceOK
  <2> QED
    BY <1>1, <1>4, <2>1, <2>2, <2>3, OperationMoves, Marks DEF Undoing
<1> QED
  BY <1>5, <1>6

LEMMA OperationFaults ==
  ASSUME OneAtATime, IInv, TypeOK', NEW o \in Op, SnapshotFails(o) \/ JournalFails(o)
  PROVE  IInv'
<1>1. ~Ended(o)
  BY DEF SnapshotFails, JournalFails, At, Ended
<1>2. ASSUME UNCHANGED <<file, entry, ids, snap, spoiled>>, GoTo(o, "prune"),
             call[o].pc \in {"begin", "snapshot", "log"}
      PROVE  IInv'
  <2>1. PlaceOK(o)' /\ Touched(o) = {} /\ Touched(o)' = {}
    BY <1>1, <1>2, OperationMoves DEF PlaceOK, Entries, InWork, At, Undoing, EntryStatus
  <2> QED
    BY <1>1, <1>2, <2>1, OperationStill DEF InWork, Undoing
<1>3. CASE SnapshotFails(o)
  BY <1>2, <1>3 DEF SnapshotFails, At, journal, snapshots
<1>4. CASE JournalFails(o)
  <2>1. UNCHANGED <<file, snap>>
    BY <1>4 DEF JournalFails, snapshots
  <2>2. CASE At(o, "begin")
    BY <1>2, <1>4, <2>1, <2>2 DEF JournalFails, At
  <2>3. CASE At(o, "log")
    <3>1. GoTo(o, "prune") /\ UNCHANGED spoiled /\ (Insert(o) \/ UNCHANGED <<entry, ids>>)
      BY <1>4, <2>3 DEF JournalFails, At
    <3>2. CASE Insert(o)
      BY <1>1, <2>1, <2>3, <3>1, <3>2, OperationMoves, Enters
    <3>3. CASE UNCHANGED <<entry, ids>>
      BY <1>2, <2>1, <2>3, <3>1, <3>3 DEF At
    <3> QED
      BY <3>1, <3>2, <3>3
  <2>4. CASE At(o, "complete")
    BY <1>4, <2>1, <2>4, MarksPerhaps DEF JournalFails, At
  <2>5. CASE At(o, "commit")
    <3>1. UNCHANGED <<entry, ids, spoiled>> /\ GoTo(o, "fail") /\ call[o].pc = "commit"
      BY <1>4, <2>5 DEF JournalFails, At
    <3>2. PlaceOK(o)' /\ Touched(o) = {} /\ Touched(o)' = {PathOf[o]}
      BY <1>1, <3>1, OperationMoves DEF PlaceOK, Entries, InWork, At, Undoing, ids
    <3> QED
      BY <1>1, <2>1, <3>1, <3>2, OperationStill DEF InWork, Undoing
  <2>6. CASE At(o, "fail")
    BY <1>4, <2>1, <2>6, MarksPerhaps DEF JournalFails, At, Spoil
  <2> QED
    BY <1>4, <2>2, <2>3, <2>4, <2>5, <2>6 DEF JournalFails
<1> QED
  BY <1>3, <1>4

------------------------------------------------------------------------------
\* A step of an undo that leaves the journal as it is.
LEMMA UndoStill ==
  ASSUME IInv, TypeOK', NEW c \in Call, NEW pc, NEW v, Moves(c, pc, v),
         call[c].pc \in Undoing \cup {"pick"}, UNCHANGED <<entry, ids, snap>>,
         spoiled \subseteq spoiled', pc \in Undoing \cup {"prune", "done"},
         pc = "prune" => c \in Op, c \in Op => v \in {NoOp, c}, VictimOK(c)',
         \A p \in Path \ spoiled' :
            p \notin Touched(c)' => p \notin Touched(c) /\ file'[p] = file[p]
  PROVE  IInv'
<1>1. call'[c].pc = pc /\ call'[c].victim = v
  BY DEF Moves
<1>2. ASSUME c \in Op PROVE PlaceOK(c)' /\ SnapOK(c)'
  <2>1. entry'[c] \in EntryStatus
    BY <1>2 DEF IInv, TypeOK
  <2>2. PlaceOK(c)'
    BY <1>1, <1>2, <2>1 DEF PlaceOK, Entries, InWork, At, Undoing
  <2>3. SnapOK(c)'
    BY <1>1, <1>2, SnapStays DEF InWork, At, Undoing
  <2> QED
    BY <2>2, <2>3
<1> QED
  BY <1>1, <1>2, Still

\* An undo that ends without a mark spoils its file.
LEMMA UndoGivesUp ==
  ASSUME IInv, TypeOK', NEW c \in Call, call[c].pc \in Undoing, NEW pc \in {"prune", "done"},
         GoTo(c, pc), pc = "prune" => c \in Op, UNCHANGED <<entry, ids, snap>>,
         Spoil(Victim(c)), \A p \in Path \ {PathOf[Victim(c)]} : file'[p] = file[p]
  PROVE  IInv'
<1>1. ~Ended(c)
  BY DEF Ended, Undoing
<1>2. Moves(c, pc, Victim(c)) /\ call'[c].pc = pc
  BY <1>1, GoesTo DEF Moves
<1>3. c \in Op => Victim(c) \in {NoOp, c}
  BY OfCall
<1>4. VictimOK(c)'
  BY <1>2, OfCall DEF VictimOK, Undoing
<1>5. Touched(c) \subseteq {PathOf[Victim(c)]}
  BY DEF Touched, Undoing
<1> QED
  BY <1>2, <1>3, <1>4, <1>5, UndoStill DEF Spoil

LEMMA Picks ==
  ASSUME OneAtATime, IInv, TypeOK', NEW c \in Call, Pick(c)
  PROVE  IInv'
<1>1. call[c].pc = "pick" /\ ~Ended(c) /\ UNCHANGED <<file, entry, ids, snap, spoiled>>
  BY DEF Pick, At, Ended, journal, snapshots
<1>2. c \in Op => c \in Undoable /\ id[c] = last /\ call[c].victim \in {NoOp, c}
  BY <1>1, OfCall DEF PlaceOK, Entries, InWork, Undoable
<1>3. CASE Undoable = {} /\ GoTo(c, Finally(c))
  <2>1. c \notin Op /\ GoTo(c, "done")
    BY <1>2, <1>3 DEF Finally
  <2>2. Moves(c, "done", Victim(c))
    BY <1>1, <2>1, GoesTo
  <2>3. VictimOK(c)' /\ Touched(c) = {}
    BY <1>1, <2>1, <2>2 DEF VictimOK, Undoing, Moves, Touched
  <2> QED
    BY <1>1, <2>1, <2>2, <2>3, UndoStill
<1>4. ASSUME NEW o \in LastOperations,
             call' = [call EXCEPT ![c] =
                [pc |-> IF snap[o] # Missing THEN "restore" ELSE "markback", victim |-> o]]
      PROVE  IInv'
  <2> DEFINE pc == IF snap[o] # Missing THEN "restore" ELSE "markback"
  <2>1. Moves(c, pc, o)
    <3>1. call \in [Call -> CallState] /\ \A d \in Call \ {c} : Ended(d)
      BY <1>1 DEF IInv, TypeOK, Alone
    <3> QED
      BY <1>4, <3>1 DEF Moves
  <2>2. o \in Latest(Undoable) /\ o \in Op /\ o \in Undoable
    BY DEF LastOperations, Latest, Undoable, IInv, Ids
  <2>3. c \in Op => o = c
    <3>1. /\ \A q \in Op : entry[q] # "none" => id[q] \in 1..last
          /\ \A q, r \in Op : entry[q] # "none" /\ id[q] = id[r] => q = r
          /\ id \in [Op -> Nat] /\ last \in Nat
      BY DEF IInv, Ids, Entered, TypeOK
    <3>2. ASSUME c \in Op PROVE id[o] = last /\ id[c] = last
      BY <1>2, <2>2, <3>1, <3>2 DEF Latest, Undoable
    <3> QED
      BY <2>2, <3>1, <3>2 DEF Undoable
  <2>4. call'[c].pc = pc /\ call'[c].victim = o
    BY <2>1 DEF Moves
  <2>5. Latest(Undoable)' = Latest(Undoable)
    BY <1>1 DEF Latest, Undoable, ids
  <2>6. VictimOK(c)'
    BY <1>1, <2>2, <2>4, <2>5 DEF VictimOK, Undoing, At, Victim
  <2>7. Touched(c)' = {PathOf[o]} /\ Touched(c) \subseteq {PathOf[o]}
    BY <1>1, <2>2, <2>3, <2>4, OperationsAssumption DEF Touched, Victim
  <2>8. pc \in Undoing /\ pc # "prune"
    BY DEF Undoing
  <2> HIDE DEF pc
  <2> QED
    BY <1>1, <2>1, <2>3, <2>6, <2>7, <2>8, UndoStill
<1> QED
  BY <1>3, <1>4 DEF Pick

\* An undo that ends by marking its entry, or may have.
LEMMA UndoMarks ==
  ASSUME IInv, TypeOK', NEW c \in Call, At(c, "markback"),
         entry' \in Perhaps(entry, Victim(c), "rolled_back"),
         NEW pc \in {"prune", "done"}, GoTo(c, pc),
         pc = "prune" => c \in Op, UNCHANGED <<file, ids, snap>>,
         \/ Spoil(Victim(c))
         \/ snap[Victim(c)] # Missing /\ spoiled' = spoiled /\ entry' # entry
  PROVE  IInv'
<1>1. call[c].pc = "markback" /\ ~Ended(c) /\ Victim(c) \in Op /\ Marking(c, Victim(c))
      /\ (c \in Op => Victim(c) = c)
  BY OfCall DEF At, Ended, Undoing, Marking
<1>2. Moves(c, pc, Victim(c)) /\ call'[c].pc = pc /\ call'[c].victim = Victim(c)
  BY <1>1, GoesTo DEF Moves
<1>3. CASE entry' = entry
  BY <1>1, <1>3, UndoGivesUp DEF Undoing
<1>4. CASE entry' # entry
  <2>1. entry' = [entry EXCEPT ![Victim(c)] = "rolled_back"]
    BY <1>4 DEF Perhaps
  <2>2. IF c \in Op THEN PlaceOK(c)' ELSE pc = "done"
    <3>1. ASSUME c \in Op PROVE entry'[c] \in EntryStatus
      BY <3>1 DEF TypeOK
    <3> QED
      BY <1>1, <1>2, <3>1 DEF PlaceOK, Entries, InWork, At
  <2>3. \/ PathOf[Victim(c)] \in spoiled'
        \/ snap[Victim(c)] # Missing
    BY DEF Spoil
  <2>4. spoiled \subseteq spoiled'
    BY DEF Spoil
  <2> QED
    BY <1>1, <1>2, <2>1, <2>2, <2>3, <2>4, Marks DEF Undoing
<1> QED
  BY <1>3, <1>4

LEMMA Undoes ==
  ASSUME IInv, TypeOK', NEW c \in Call, Restore(c) \/ RestoreMissing(c) \/ RestoreFails(c)
                                        \/ MarkBack(c) \/ MarkBackFails(c)
  PROVE  IInv'
<1>1. Finally(c) \in {"prune", "done"} /\ (Finally(c) = "prune" => c \in Op)
  BY DEF Finally
<1>2. call \in [Call -> CallState] /\ file \in [Path -> Content] /\ entry \in [Op -> EntryStatus]
  BY DEF IInv, TypeOK
<1>3. CASE Restore(c)
  <2>1. /\ UNCHANGED <<entry, ids, snap, spoiled>> /\ call[c].pc = "restore" /\ ~Ended(c)
        /\ file' = [file EXCEPT ![PathOf[Victim(c)]] = snap[Victim(c)]]
        /\ GoTo(c, "markback")
    BY <1>3 DEF Restore, At, Ended, journal, snapshots
  <2>2. /\ Victim(c) \in Latest(Undoable) /\ snap[Victim(c)] # Missing /\ Victim(c) \in Op
        /\ PathOf[Victim(c)] \in Path /\ (c \in Op => Victim(c) = c)
    BY <2>1, OfCall, OperationsAssumption DEF VictimOK, At, Undoing
  <2>3. Moves(c, "markback", Victim(c)) /\ call'[c].pc = "markback"
        /\ call'[c].victim = Victim(c)
    BY <2>1, GoesTo DEF Moves
  <2>4. /\ file'[PathOf[Victim(c)]] = snap[Victim(c)]
        /\ \A p \in Path \ {PathOf[Victim(c)]} : file'[p] = file[p]
    BY <1>2, <2>1, <2>2
  <2>5. Latest(Undoable)' = Latest(Undoable)
    BY <2>1 DEF Latest, Undoable, ids
  <2>6. VictimOK(c)'
    BY <2>1, <2>2, <2>3, <2>4, <2>5 DEF VictimOK, Undoing, At, Victim
  <2>7. Touched(c)' = {PathOf[Victim(c)]} /\ Touched(c) = {PathOf[Victim(c)]}
    BY <2>1, <2>2, <2>3 DEF Touched, Victim
  <2> QED
    BY <2>1, <2>2, <2>3, <2>4, <2>6, <2>7, UndoStill DEF Undoing
<1>4. CASE RestoreMissing(c)
  BY <1>1, <1>4, UndoGivesUp DEF RestoreMissing, At, Undoing, journal, snapshots
<1>5. CASE RestoreFails(c)
  <2>1. \A p \in Path \ {PathOf[Victim(c)]} : file'[p] = file[p]
    BY <1>2, <1>5 DEF RestoreFails, Writes
  <2> QED
    BY <1>1, <1>5, <2>1, UndoGivesUp DEF RestoreFails, At, Undoing, journal, snapshots
<1>6. CASE MarkBack(c)
  <2>1. call[c].pc = "markback" /\ entry' = [entry EXCEPT ![Victim(c)] = "rolled_back"]
    BY <1>6 DEF MarkBack, At
  <2>2. Victim(c) \in Undoable
    BY <2>1, OfCall DEF VictimOK, Undoing, Latest
  <2>3. entry' # entry
    BY <1>2, <2>1, <2>2 DEF Undoable
  <2> QED
    BY <1>1, <1>6, <2>3, UndoMarks DEF MarkBack, Perhaps, snapshots
<1>7. CASE MarkBackFails(c)
  BY <1>1, <1>7, UndoMarks DEF MarkBackFails, snapshots
<1> QED
  BY <1>3, <1>4, <1>5, <1>6, <1>7

\* CancelledError: an operation goes to the finally clause or ends, a rollback ends.
LEMMA Cancels ==
  ASSUME OneAtATime, IInv, TypeOK', NEW c \in Call, Cancel(c)
  PROVE  IInv'
<1> DEFINE pc == IF At(c, "prune") THEN "done" ELSE Finally(c)
<1>1. /\ ~Ended(c) /\ GoTo(c, pc) /\ snap' = snap /\ pc \in {"prune", "done"}
      /\ pc = "prune" => c \in Op
      /\ c \in Op /\ pc = "done" => call[c].pc = "prune"
  BY DEF Cancel, snapshots, Finally, At
<1> HIDE DEF pc
<1>2. /\ call[c].pc \in Await
      /\ call[c].pc \in Undoing \cup {"pick"} \/ c \in Op
      /\ entry \in [Op -> EntryStatus] /\ file \in [Path -> Content]
  BY <1>1, OfCall DEF Ended, IInv, TypeOK
\* An operation that leaves the journal as it is.
<1>3. ASSUME c \in Op, UNCHANGED <<file, entry, ids>>, spoiled \subseteq spoiled',
             \/ call[c].pc \in {"begin", "snapshot", "log", "operate", "commit", "prune"}
             \/ PathOf[c] \in spoiled' /\ call[c].pc \notin Undoing
      PROVE  IInv'
  <2>1. entry'[c] \in EntryStatus
    BY <1>2, <1>3
  <2>2. PlaceOK(c)'
    BY <1>1, <1>3, <2>1, OperationMoves DEF PlaceOK, Entries, InWork, At
  <2>3. Touched(c) \subseteq spoiled' /\ Touched(c)' = {}
    BY <1>1, <1>3, OperationMoves DEF Undoing
  <2> QED
    BY <1>1, <1>3, <2>2, <2>3, OperationStill DEF InWork, Undoing
<1>4. CASE call[c].pc \in {"begin", "snapshot", "prune", "operate", "working", "commit"}
  <2>1. c \in Op
    BY <1>2, <1>4 DEF Undoing
  <2>2. UNCHANGED <<file, entry, ids>> /\ spoiled \subseteq spoiled'
        /\ (At(c, "working") => PathOf[c] \in spoiled')
    BY <1>4 DEF Cancel, At, Spoil, journal
  <2> QED
    BY <1>3, <1>4, <2>1, <2>2 DEF At, Undoing
<1>5. CASE At(c, "log")
  <2>1. c \in Op /\ UNCHANGED <<file, spoiled>> /\ (Insert(c) \/ UNCHANGED <<entry, ids>>)
    BY <1>2, <1>5 DEF Cancel, At, Undoing
  <2>2. CASE Insert(c)
    <3>1. pc = "prune"
      BY <1>1, <1>5, <2>1 DEF At
    <3> QED
      BY <1>1, <1>5, <2>1, <2>2, <3>1, OperationMoves, Enters
  <2>3. CASE UNCHANGED <<entry, ids>>
    <3>1. call[c].pc = "log" /\ spoiled \subseteq spoiled' /\ UNCHANGED file
      BY <1>5, <2>1 DEF At
    <3> QED
      BY <1>3, <2>1, <2>3, <3>1
  <2> QED
    BY <2>1, <2>2, <2>3
<1>6. CASE At(c, "complete") \/ At(c, "fail")
  <2>1. c \in Op /\ UNCHANGED <<file, ids>>
    BY <1>2, <1>6 DEF Cancel, At, Undoing
  <2>2. pc = "prune"
    BY <1>1, <1>6, <2>1 DEF At
  <2>3. CASE At(c, "complete")
    <3>1. /\ entry' \in Perhaps(entry, c, "completed")
          /\ IF entry' = entry THEN Spoil(c) ELSE spoiled' = spoiled
      BY <2>3 DEF Cancel, At
    <3> QED
      BY <1>1, <2>1, <2>2, <2>3, <3>1, MarksPerhaps DEF At, Spoil
  <2>4. CASE At(c, "fail")
    <3>1. entry' \in Perhaps(entry, c, "failed") /\ Spoil(c)
      BY <2>4 DEF Cancel, At
    <3> QED
      BY <1>1, <2>1, <2>2, <2>4, <3>1, MarksPerhaps DEF At, Spoil
  <2> QED
    BY <1>6, <2>3, <2>4
<1>7. CASE At(c, "pick")
  <2>1. UNCHANGED <<file, entry, ids>> /\ IF c \in Op THEN Spoil(c) ELSE UNCHANGED spoiled
    BY <1>7 DEF Cancel, At, journal
  <2>2. CASE c \in Op
    BY <1>3, <1>7, <2>1, <2>2 DEF At, Spoil, Undoing
  <2>3. CASE c \notin Op
    <3>1. Moves(c, pc, Victim(c)) /\ call'[c].pc = "done"
      BY <1>1, <2>3, GoesTo DEF Moves
    <3>2. VictimOK(c)' /\ Touched(c) = {}
      BY <1>7, <2>3, <3>1 DEF VictimOK, Undoing, Touched, At
    <3> QED
      BY <1>1, <1>7, <2>1, <2>3, <3>1, <3>2, UndoStill DEF At
  <2> QED
    BY <2>2, <2>3
<1>8. CASE At(c, "restore")
  <2>1. UNCHANGED <<entry, ids>> /\ Spoil(Victim(c))
        /\ \A p \in Path \ {PathOf[Victim(c)]} : file'[p] = file[p]
    BY <1>2, <1>8 DEF Cancel, At, journal
  <2> QED
    BY <1>1, <1>8, <2>1, UndoGivesUp DEF At, Undoing
<1>9. CASE At(c, "markback")
  <2>1. /\ entry' \in Perhaps(entry, Victim(c), "rolled_back") /\ Spoil(Victim(c))
        /\ UNCHANGED <<file, ids>>
    BY <1>9 DEF Cancel, At
  <2> QED
    BY <1>1, <1>9, <2>1, UndoMarks
<1> QED
  BY <1>2, <1>4, <1>5, <1>6, <1>7, <1>8, <1>9 DEF Await, At

\* The process dies: the one call under way, if any, spoils the files it was at work on.
LEMMA Crashes ==
  ASSUME IInv, TypeOK', Crash
  PROVE  IInv'
<1>1. PICK c \in Call : ~Ended(c)
  BY DEF Crash
<1>2. \A d \in Call \ {c} : Ended(d)
  BY <1>1 DEF IInv, Alone
<1>3. UNCHANGED <<file, entry, ids, snap>> /\ spoiled \subseteq spoiled' /\ Touched(c) \subseteq spoiled'
  BY DEF Crash, journal, snapshots
<1>4. GoTo(c, "dead")
  <2>1. call \in [Call -> CallState]
    BY DEF IInv, TypeOK
  <2>2. call' = [call EXCEPT ![c] = [call[c] EXCEPT !.pc = "dead"]]
    BY <1>1, <1>2, <2>1 DEF Crash
  <2> QED
    BY <2>1, <2>2 DEF GoTo
<1>5. Moves(c, "dead", Victim(c)) /\ call'[c].pc = "dead" /\ call'[c].victim = call[c].victim
  BY <1>1, <1>4, GoesTo DEF Moves, Victim
<1>6. VictimOK(c)' /\ Touched(c)' = {}
  BY <1>5 DEF VictimOK, Undoing, Touched
<1>7. ASSUME c \in Op PROVE PlaceOK(c)' /\ SnapOK(c)'
  <2>1. entry'[c] \in EntryStatus /\ PlaceOK(c)
    BY <1>3, <1>7 DEF IInv, TypeOK
  <2>2. PlaceOK(c)'
    BY <1>5, <2>1 DEF PlaceOK, Entries, InWork, At
  <2>3. SnapOK(c)'
    BY <1>3, <1>5, <1>7, SnapStays DEF InWork, At
  <2> QED
    BY <2>2, <2>3
<1> QED
  BY <1>3, <1>5, <1>6, <1>7, Still

\* A step that touches neither files nor calls nor entries.
LEMMA Unmoved ==
  ASSUME IInv, TypeOK', UNCHANGED <<file, entry, ids, snap, call, spoiled>>
  PROVE  IInv'
<1>1. /\ UNCHANGED <<file, entry, snap, call, spoiled, now, stamp, id, last>>
      /\ \A p, k, x : Tells(p, k, x)' <=> Tells(p, k, x)
  BY TellsStill DEF ids
<1>2. Alone' /\ Ids'
  BY <1>1 DEF IInv, Alone, Ended, Ids, Entered
<1>3. ASSUME NEW o \in Op PROVE PlaceOK(o)' /\ SnapOK(o)'
  <2>1. PlaceOK(o)'
    BY <1>1 DEF IInv, PlaceOK, At
  <2>2. \A k : SnapTold(o, k)' <=> SnapTold(o, k)
    BY <1>1 DEF SnapTold
  <2>3. SnapOK(o)'
    BY <1>1, <2>2 DEF IInv, SnapOK, Undoable, At
  <2> QED
    BY <2>1, <2>3
<1>4. \A c \in Call : VictimOK(c)'
  BY <1>1 DEF IInv, VictimOK, Latest, Undoable, At, Victim
<1>5. \A p \in Path : FileOK(p)'
  BY <1>1 DEF IInv, FileOK, Touched, Victim
<1> QED
  BY <1>2, <1>3, <1>4, <1>5 DEF IInv

\* Every step keeps the invariant.
LEMMA Inductive ==
  ASSUME OneAtATime, IInv, [Next]_vars
  PROVE  IInv'
<1>1. TypeOK'
  BY Types
<1>2. ASSUME NEW c \in Call, Start(c) PROVE IInv'
  BY <1>1, <1>2, Starts
<1>3. ASSUME NEW c \in Call, Undo(c) PROVE IInv'
  BY <1>1, <1>3, Picks, Undoes DEF Undo
<1>4. ASSUME NEW o \in Op, Operate(o) PROVE IInv'
  BY <1>1, <1>4, Operates
<1>5. CASE GrowOld
  BY <1>1, <1>5, Unmoved DEF GrowOld, journal
<1>6. CASE Faulty
  BY <1>1, <1>6, OperationFaults, Undoes, Cancels, Crashes DEF Faulty
<1>7. CASE UNCHANGED vars
  BY <1>1, <1>7, Unmoved DEF vars, ids
<1> QED
  BY <1>2, <1>3, <1>4, <1>5, <1>6, <1>7 DEF Next

\* Of runs with one call at a time and no two entries of one second, the type
\* invariant and what the entries say of files, snapshots and calls.
THEOREM Invariance ==
  ASSUME OneAtATime
  PROVE  Spec => []IInv
<1>1. Init => IInv
  BY Initially
<1>2. IInv /\ [Next]_vars => IInv'
  BY Inductive
<1> QED
  BY <1>1, <1>2, PTL DEF Spec

\* Files, journal, snapshots and calls keep their types.
THEOREM TypeCorrect ==
  ASSUME OneAtATime
  PROVE  Spec => []TypeOK
<1>1. IInv => TypeOK
  BY DEF IInv
<1> QED
  BY <1>1, Invariance, PTL

\* With no call under way, the journal tells what every file is that no undo was kept
\* from putting right: what the last completed operation on it made of it, or what it
\* was at first (journal.py, rollback_manager.py, execute_file_operation).
THEOREM JournalTells ==
  ASSUME OneAtATime
  PROVE  Spec => []JournalTellsFile
<1>1. IInv => JournalTellsFile
  <2>1. SUFFICES ASSUME IInv, \A c \in Call : Ended(c), NEW p \in Path \ spoiled
                 PROVE  IF Done(p) = {} THEN file[p] = AtFirst(p)
                        ELSE \E o \in Latest(Done(p)) : file[p] = After(o)
    BY DEF JournalTellsFile
  <2>2. \A c \in Call : Touched(c) = {}
    BY <2>1 DEF Ended, Touched
  <2>3. Tells(p, last + 1, file[p])
    BY <2>1, <2>2 DEF IInv, FileOK
  <2>4. Below(p, last + 1) = Done(p)
    <3>1. \A o \in Done(p) : id[o] \in 1..last /\ last \in Nat
      BY <2>1 DEF Done, IInv, Ids, Entered, TypeOK
    <3> QED
      BY <3>1 DEF Below
  <2>5. Done(p) = {} => Latest(Done(p)) = {}
    BY DEF Latest
  <2> QED
    BY <2>3, <2>4, <2>5 DEF Tells
<1> QED
  BY <1>1, Invariance, PTL

\* What the automatic rollback of an operation undoes is that operation
\* (sync_engine.py:257): its entry is the last one, and it has failed.
THEOREM OwnUndo ==
  ASSUME OneAtATime
  PROVE  Spec => UndoesFailed
<1>1. IInv' => \A o \in Op : Victim(o)' \in {NoOp, o}
  BY DEF IInv, PlaceOK, Victim
<1>2. IInv /\ IInv' /\ [Next]_vars =>
        [\A o \in Op : At(o, "pick") /\ ~At(o, "pick")' /\ Victim(o)' # NoOp => Victim(o)' = o]_vars
  BY <1>1
<1> QED
  BY <1>2, Invariance, PTL DEF Spec, UndoesFailed

\* What a step does to the entries.
EntryStep ==
    \/ UNCHANGED <<entry, id>>
    \/ \E o \in Op : entry[o] = "none" /\ Insert(o)
    \/ \E c \in Call, o \in Op, new \in EntryStatus :
           Marking(c, o) /\ entry' = [entry EXCEPT ![o] = new] /\ UNCHANGED id

LEMMA EntrySteps ==
  ASSUME IInv, [Next]_vars
  PROVE  EntryStep
<1>1. ASSUME NEW c \in Call, NEW o \in Op, NEW new \in EntryStatus, Marking(c, o),
             entry' \in Perhaps(entry, o, new), UNCHANGED ids
      PROVE  EntryStep
  BY <1>1 DEF Perhaps, ids, EntryStep
<1>2. ASSUME NEW o \in Op, Insert(o) \/ UNCHANGED <<entry, ids>>, At(o, "log")
      PROVE  EntryStep
  <2>1. entry[o] = "none"
    BY <1>2 DEF IInv, PlaceOK, Entries, At
  <2> QED
    BY <1>2, <2>1 DEF ids, EntryStep
<1>3. UNCHANGED <<entry, ids>> => EntryStep
  BY DEF ids, EntryStep
<1>4. \A o \in Op : /\ o \in Call
                    /\ At(o, "complete") \/ At(o, "fail") => Marking(o, o)
  BY DEF Marking, At, Call
<1>5. \A c \in Call : At(c, "markback") => Victim(c) \in Op /\ Marking(c, Victim(c))
  BY OfCall DEF Marking, At, Undoing
<1>6. \A c \in Call : At(c, "begin") \/ At(c, "log") \/ At(c, "complete") \/ At(c, "commit")
                      \/ At(c, "fail") => c \in Op
  BY OfCall DEF At, Undoing
<1>7. {"completed", "failed", "rolled_back"} \subseteq EntryStatus
  BY DEF EntryStatus
<1>8. ASSUME NEW c \in Call, Start(c) \/ Undo(c) \/ RestoreFails(c) \/ MarkBackFails(c)
       PROVE  EntryStep
  <2>1. CASE MarkBack(c) \/ MarkBackFails(c)
    BY <1>1, <1>5, <1>7, <2>1 DEF MarkBack, MarkBackFails, Perhaps
  <2>2. CASE Start(c) \/ Pick(c) \/ Restore(c) \/ RestoreMissing(c) \/ RestoreFails(c)
    BY <1>3, <2>2 DEF Start, Pick, Restore, RestoreMissing, RestoreFails, journal
  <2> QED
    BY <1>8, <2>1, <2>2 DEF Undo
<1>9. ASSUME NEW o \in Op, Operate(o) PROVE EntryStep
  <2>1. CASE LogBegin(o)
    BY <1>2, <2>1 DEF LogBegin
  <2>2. CASE Complete(o) \/ Fail(o)
    BY <1>1, <1>4, <1>7, <2>2 DEF Complete, Fail, Perhaps
  <2>3. CASE ~LogBegin(o) /\ ~Complete(o) /\ ~Fail(o)
    BY <1>3, <1>9, <2>3 DEF Operate, Begin, Snapshot, OperationWrites, OperationSucceeds,
       OperationFails, Commit, Prune, journal
  <2> QED
    BY <2>1, <2>2, <2>3
<1>10. ASSUME NEW o \in Op, SnapshotFails(o) \/ JournalFails(o) PROVE EntryStep
  <2>1. CASE At(o, "log")
    BY <1>2, <1>3, <1>10, <2>1 DEF SnapshotFails, JournalFails, At, journal
  <2>2. CASE At(o, "complete")
    BY <1>1, <1>4, <1>7, <1>10, <2>2 DEF SnapshotFails, JournalFails, At
  <2>3. CASE At(o, "fail")
    BY <1>1, <1>4, <1>7, <1>10, <2>3 DEF SnapshotFails, JournalFails, At
  <2>4. CASE ~At(o, "log") /\ ~At(o, "complete") /\ ~At(o, "fail")
    BY <1>3, <1>10, <2>4 DEF SnapshotFails, JournalFails, journal
  <2> QED
    BY <2>1, <2>2, <2>3, <2>4
<1>11. ASSUME NEW c \in Call, Cancel(c) PROVE EntryStep
  <2>1. CASE At(c, "log")
    BY <1>2, <1>6, <1>11, <2>1 DEF Cancel, At
  <2>2. CASE At(c, "complete")
    BY <1>1, <1>4, <1>6, <1>7, <1>11, <2>2 DEF Cancel, At
  <2>3. CASE At(c, "fail")
    BY <1>1, <1>4, <1>6, <1>7, <1>11, <2>3 DEF Cancel, At
  <2>4. CASE At(c, "markback")
    BY <1>1, <1>5, <1>7, <1>11, <2>4 DEF Cancel, At
  <2>5. CASE ~At(c, "log") /\ ~At(c, "complete") /\ ~At(c, "fail") /\ ~At(c, "markback")
    BY <1>3, <1>11, <2>5 DEF Cancel, journal
  <2> QED
    BY <2>1, <2>2, <2>3, <2>4, <2>5
<1>12. CASE Crash \/ GrowOld \/ UNCHANGED vars
  BY <1>3, <1>12 DEF Crash, GrowOld, vars, journal, ids
<1> QED
  <2>1. CASE Faulty
    BY <1>8, <1>10, <1>11, <1>12, <2>1 DEF Faulty
  <2>2. CASE Next /\ ~Faulty
    BY <1>8, <1>9, <1>12, <2>2 DEF Next
  <2> QED
    BY <1>12, <2>1, <2>2

\* What is in effect is a stack: completing an operation puts it on top, and what is
\* marked failed or rolled back is the one on top.
THEOREM UndoOrder ==
  ASSUME OneAtATime
  PROVE  Spec => LastInFirstOut
<1>1. Init => Stack!Init
  BY DEF Init, Stack!Init, InEffect
<1>2. IInv /\ [Next]_vars => [Stack!Next]_InEffect
  <2>1. SUFFICES ASSUME IInv, [Next]_vars PROVE Stack!Do \/ Stack!Undo \/ UNCHANGED InEffect
    BY DEF Stack!Next
  <2>2. entry \in [Op -> EntryStatus] /\ id \in [Op -> Nat]
    BY <2>1 DEF IInv, TypeOK
  <2>3. CASE UNCHANGED <<entry, id>>
    BY <2>3 DEF InEffect
  <2>4. ASSUME NEW o \in Op, entry[o] = "none", Insert(o) PROVE UNCHANGED InEffect
    <3>1. \A q \in Op : /\ entry'[q] = "completed" <=> entry[q] = "completed"
                        /\ entry[q] = "completed" => id'[q] = id[q]
      BY <2>2, <2>4 DEF Insert
    <3> QED
      BY <3>1 DEF InEffect
  <2>5. ASSUME NEW c \in Call, NEW o \in Op, NEW new \in EntryStatus, Marking(c, o),
               entry' = [entry EXCEPT ![o] = new], UNCHANGED id
        PROVE  Stack!Do \/ Stack!Undo \/ UNCHANGED InEffect
    <3> DEFINE e == <<id[o], o>>
    <3>1. id[o] \in Nat /\ \A q \in Op \ {o} : entry[q] = "completed" => id[q] < id[o]
      BY <2>1, <2>2, <2>5, OnTop DEF Undoable
    <3>2. \A q \in Op \ {o} : entry'[q] = entry[q]
      BY <2>2, <2>5
    <3>3. entry'[o] = new
      BY <2>2, <2>5
    <3>4. CASE new = "completed" /\ entry[o] # "completed"
      <4>1. InEffect' = InEffect \cup {e}
        BY <2>5, <3>2, <3>3, <3>4 DEF InEffect
      <4>2. \A f \in InEffect : f[1] < e[1]
        BY <3>1, <3>4 DEF InEffect
      <4>3. Stack!Do
        BY <3>1, <4>1, <4>2 DEF Stack!Do, Stack!Above
      <4> QED
        BY <4>3
    <3>5. CASE new # "completed" /\ entry[o] = "completed"
      <4>1. InEffect' = InEffect \ {e}
        BY <2>5, <3>2, <3>3, <3>5 DEF InEffect
      <4>2. e \in InEffect
        BY <3>5 DEF InEffect
      <4>3. \A f \in InEffect : f[1] <= e[1]
        <5>1. \A q \in Op : entry[q] = "completed" => id[q] <= id[o]
          BY <2>2, <3>1
        <5> QED
          BY <5>1 DEF InEffect
      <4>4. Stack!Undo
        BY <4>1, <4>2, <4>3 DEF Stack!Undo, Stack!Top
      <4> QED
        BY <4>4
    <3>6. CASE new = "completed" <=> entry[o] = "completed"
      BY <2>5, <3>2, <3>3, <3>6 DEF InEffect
    <3> QED
      BY <3>4, <3>5, <3>6
  <2> QED
    BY <2>1, <2>3, <2>4, <2>5, EntrySteps DEF EntryStep
<1> QED
  BY <1>1, <1>2, Invariance, PTL DEF Spec, LastInFirstOut, Stack!Spec
==============================================================================
