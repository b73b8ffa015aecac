----------------------------- MODULE DeadLetters -----------------------------
(***************************************************************************)
(* DLQManager: the table of events whose callback failed, and the workers  *)
(* that retry them, one per manager that has the database open (two of a   *)
(* process, or of two processes).  A statement with its commit is one      *)
(* step: every operation opens a connection of its own.                    *)
(*                                                                         *)
(* Time is kept as what is compared with it: whether a row's next_retry_at *)
(* has come, and whether its updated_at lies more than 60 s back.          *)
(***************************************************************************)
EXTENDS Naturals, FiniteSets, SequencesExt

CONSTANTS
    Letter, Worker, NoLetter,
    Quick,         \* letters whose callback ends within 60 s
    MaxAttempts, BatchSize,
    MaxFaults      \* bound on stops, crashes and failing statements

ASSUME LetterAssumption ==
    /\ NoLetter \notin Letter
    /\ Quick \subseteq Letter
    /\ MaxAttempts \in Nat \ {0} /\ BatchSize \in Nat \ {0} /\ MaxFaults \in Nat

VARIABLES
    row,       \* dead_letter_events
    due,       \* rows whose next_retry_at has come, in the order of next_retry_at
    worker,    \* the local variables of each _retry_loop
    known,     \* letters whose handler_name the resolver finds
    faults,
    handled,   \* letters whose callback has returned (history)
    failures,  \* how often their callback has raised (history)
    overran,   \* letters whose callback was running when its row was 60 s old (history)
    lost       \* letters whose outcome was not recorded (history)

vars == <<row, due, worker, known, faults, handled, failures, overran, lost>>

Status == {"absent", "pending", "in_progress", "dead", "deleted"}
Row == [status : Status, attempts : Nat, stale : BOOLEAN]

\* A fetched row as far as it is used: row.id and row.attempts.
Fetched == [id : Letter, attempts : Nat]
Verdict == {"none", "success", "failure", "unknown"}
WorkerState ==
    [pc : {"off", "recover", "idle", "batch", "call", "outcome", "failed"},
     batch : Seq(Fetched), id : Letter \cup {NoLetter}, attempts : Nat,
     verdict : Verdict]

Off == [pc |-> "off", batch |-> <<>>, id |-> NoLetter, attempts |-> 0, verdict |-> "none"]

Init ==
    /\ row = [l \in Letter |-> [status |-> "absent", attempts |-> 0, stale |-> FALSE]]
    /\ due = <<>>
    /\ worker = [w \in Worker |-> Off]
    /\ known = {} /\ faults = 0
    /\ handled = {} /\ failures = [l \in Letter |-> 0] /\ overran = {} /\ lost = {}

------------------------------------------------------------------------------
At(w, pc) == worker[w].pc = pc
Mine(w) == worker[w].id

\* A row gets another next_retry_at, or none.
Unscheduled(l) ==
    IF Contains(due, l) THEN RemoveAt(due, CHOOSE i \in DOMAIN due : due[i] = l) ELSE due

\* INSERT, or UPDATE ... SET status, attempts, next_retry_at, updated_at, which does
\* not find a row that is deleted.
Write(l, status, attempts) ==
    /\ row' = IF row[l].status = "deleted" THEN row
              ELSE [row EXCEPT ![l] = [status |-> status, attempts |-> attempts, stale |-> FALSE]]
    /\ due' = Unscheduled(l)

\* The callback of a row is awaited.
Calling(l) == {w \in Worker : At(w, "call") /\ Mine(w) = l}

Fault == faults < MaxFaults /\ faults' = faults + 1

\* enqueue()
Enqueue(l) ==
    /\ row[l].status = "absent"
    /\ Write(l, "pending", 0)
    /\ UNCHANGED <<worker, known, faults, handled, failures, overran, lost>>

\* CoreEventBus.subscribe() of the callback.
Register(l) ==
    /\ known' = known \cup {l}
    /\ UNCHANGED <<row, due, worker, faults, handled, failures, overran, lost>>

Start(w) ==
    /\ At(w, "off")
    /\ worker' = [worker EXCEPT ![w].pc = "recover"]
    /\ UNCHANGED <<row, due, known, faults, handled, failures, overran, lost>>

\* Mutated form: whatever its age.
RecoveredAll ==
    [l \in Letter |-> IF row[l].status = "in_progress"
                      THEN [row[l] EXCEPT !.status = "pending", !.stale = FALSE] ELSE row[l]]

Recovered ==
    [l \in Letter |-> IF row[l].status = "in_progress" /\ row[l].stale
                      THEN [row[l] EXCEPT !.status = "pending", !.stale = FALSE] ELSE row[l]]

\* _recover_stale_rows(), once per start.
Recover(w) ==
    /\ At(w, "recover")
    /\ worker' = [worker EXCEPT ![w].pc = "idle"]
    /\ row' = Recovered
    /\ UNCHANGED <<due, known, faults, handled, failures, overran, lost>>

\* It is outside the loop's try: the task ends, and nobody awaits it.
RecoverFails(w) ==
    /\ At(w, "recover") /\ Fault
    /\ worker' = [worker EXCEPT ![w].pc = "failed"]
    /\ UNCHANGED <<row, due, known, handled, failures, overran, lost>>

\* The rows a worker is about to process, with the attempts it has read.
Reads(w, rows) ==
    worker' = [worker EXCEPT ![w] = [@ EXCEPT
        !.pc = "batch",
        !.batch = [i \in DOMAIN rows |-> [id |-> rows[i], attempts |-> row[rows[i]].attempts]]]]

Pending == {l \in Letter : Contains(due, l) /\ row[l].status = "pending"}
Sooner(k, l) == \E i, j \in DOMAIN due : i < j /\ due[i] = k /\ due[j] = l

\* ORDER BY next_retry_at LIMIT batch_size: rows is the beginning of S.
FirstOf(S, rows) ==
    /\ \A i, j \in DOMAIN rows : i < j => Sooner(rows[i], rows[j])
    /\ \A l \in S \ ToSet(rows) :
           Len(rows) = BatchSize /\ \A i \in DOMAIN rows : Sooner(rows[i], l)

ReadsFirst(w, S) ==
    \E n \in 1..BatchSize : \E rows \in [1..n -> S] : FirstOf(S, rows) /\ Reads(w, rows)

\* Mutated form: whatever their status.
FetchAnyStatus(w) ==
    /\ At(w, "idle")
    /\ ReadsFirst(w, ToSet(due))
    /\ UNCHANGED <<row, due, known, faults, handled, failures, overran, lost>>

\* _fetch_due_batch()
Fetch(w) ==
    /\ At(w, "idle")
    /\ ReadsFirst(w, Pending)
    /\ UNCHANGED <<row, due, known, faults, handled, failures, overran, lost>>

BatchEnds(w) ==
    /\ At(w, "batch") /\ worker[w].batch = <<>>
    /\ worker' = [worker EXCEPT ![w].pc = "idle"]
    /\ UNCHANGED <<row, due, known, faults, handled, failures, overran, lost>>

Takes(w) == LET f == Head(worker[w].batch)
            IN [worker[w] EXCEPT !.pc = "call", !.batch = Tail(@),
                                 !.id = f.id, !.attempts = f.attempts]
First(w) == Head(worker[w].batch).id
Claimed(l) == [row EXCEPT ![l] = [@ EXCEPT !.status = "in_progress", !.stale = FALSE]]

\* Mutated form: the UPDATE without AND status = 'pending'.
ClaimAny(w) ==
    /\ At(w, "batch") /\ worker[w].batch # <<>>
    /\ worker' = [worker EXCEPT ![w] = Takes(w)]
    /\ row' = IF row[First(w)].status = "deleted" THEN row ELSE Claimed(First(w))
    /\ UNCHANGED <<due, known, faults, handled, failures, overran, lost>>

\* The claim of _process_row; a row that is not pending any more is passed over.
Claim(w) ==
    /\ At(w, "batch") /\ worker[w].batch # <<>>
    /\ IF row[First(w)].status = "pending"
       THEN /\ worker' = [worker EXCEPT ![w] = Takes(w)]
            /\ row' = Claimed(First(w))
       ELSE /\ worker' = [worker EXCEPT ![w].batch = Tail(@)]
            /\ UNCHANGED row
    /\ UNCHANGED <<due, known, faults, handled, failures, overran, lost>>

\* The loop logs the error and fetches anew.
ClaimFails(w) ==
    /\ At(w, "batch") /\ worker[w].batch # <<>> /\ Fault
    /\ worker' = [worker EXCEPT ![w] = [@ EXCEPT !.pc = "idle", !.batch = <<>>]]
    /\ UNCHANGED <<row, due, known, handled, failures, overran, lost>>

Ends(w, verdict) == worker' = [worker EXCEPT ![w] = [@ EXCEPT !.pc = "outcome", !.verdict = verdict]]

Unresolved(w) ==
    /\ At(w, "call") /\ Mine(w) \notin known
    /\ Ends(w, "unknown")
    /\ UNCHANGED <<row, due, known, faults, handled, failures, overran, lost>>

CallbackReturns(w) ==
    /\ At(w, "call") /\ Mine(w) \in known
    /\ Ends(w, "success")
    /\ handled' = handled \cup {Mine(w)}
    /\ UNCHANGED <<row, due, known, faults, failures, overran, lost>>

CallbackRaises(w) ==
    /\ At(w, "call") /\ Mine(w) \in known
    /\ Ends(w, "failure")
    /\ failures' = [failures EXCEPT ![Mine(w)] = IF @ < MaxAttempts THEN @ + 1 ELSE @]
    /\ UNCHANGED <<row, due, known, faults, handled, overran, lost>>

Next1(w) == [worker[w] EXCEPT !.pc = "batch", !.id = NoLetter, !.attempts = 0, !.verdict = "none"]

Deleted(l) ==
    /\ row' = [row EXCEPT ![l].status = "deleted"]
    /\ due' = Unscheduled(l)

\* Mutated form: a row whose callback is not known counts as tried.
OutcomeCounting(w) ==
    LET n == worker[w].attempts + 1
    IN CASE worker[w].verdict = "success" -> Deleted(Mine(w))
         [] worker[w].verdict # "success" /\ n >= MaxAttempts -> Write(Mine(w), "dead", n)
         [] OTHER -> Write(Mine(w), "pending", n)

\* What _process_row writes afterwards, with the attempts it fetched and whatever
\* the row's status is by then.
Outcome(w) ==
    LET n == worker[w].attempts + 1
    IN CASE worker[w].verdict = "success" -> Deleted(Mine(w))
         [] worker[w].verdict = "unknown" -> Write(Mine(w), "pending", row[Mine(w)].attempts)
         [] worker[w].verdict = "failure" /\ n >= MaxAttempts -> Write(Mine(w), "dead", n)
         [] OTHER -> Write(Mine(w), "pending", n)

Record(w) ==
    /\ At(w, "outcome")
    /\ Outcome(w)
    /\ worker' = [worker EXCEPT ![w] = Next1(w)]
    /\ UNCHANGED <<known, faults, handled, failures, overran, lost>>

\* The row stays in progress; the rest of the batch is fetched anew.
RecordFails(w) ==
    /\ At(w, "outcome") /\ Fault
    /\ worker' = [worker EXCEPT ![w] = [Off EXCEPT !.pc = "idle"]]
    /\ lost' = lost \cup {Mine(w)}
    /\ UNCHANGED <<row, due, known, handled, failures, overran>>

\* The task is cancelled by stop(), or the process dies; a statement that was on
\* its way may still take effect.
StopWorker(w) ==
    /\ ~At(w, "off") /\ Fault
    /\ worker' = [worker EXCEPT ![w] = Off]
    /\ \/ /\ UNCHANGED <<row, due>>
          /\ lost' = IF At(w, "outcome") THEN lost \cup {Mine(w)} ELSE lost
       \/ At(w, "recover") /\ row' = Recovered /\ UNCHANGED <<due, lost>>
       \/ At(w, "outcome") /\ Outcome(w) /\ UNCHANGED lost
       \/ /\ At(w, "batch") /\ worker[w].batch # <<>> /\ row[First(w)].status = "pending"
          /\ row' = Claimed(First(w)) /\ UNCHANGED <<due, lost>>
    /\ UNCHANGED <<known, handled, failures, overran>>

------------------------------------------------------------------------------
\* next_retry_at comes; 60 s pass since updated_at.
BecomeDue(l) ==
    /\ row[l].status = "pending" /\ ~Contains(due, l)
    /\ due' = Append(due, l)
    /\ UNCHANGED <<row, worker, known, faults, handled, failures, overran, lost>>

BecomeStale(l) ==
    /\ row[l].status = "in_progress" /\ ~row[l].stale
    /\ l \in Quick => Calling(l) = {} /\ ~ \E w \in Worker : At(w, "outcome") /\ Mine(w) = l
    /\ row' = [row EXCEPT ![l].stale = TRUE]
    /\ overran' = IF \E w \in Worker : Mine(w) = l THEN overran \cup {l} ELSE overran
    /\ UNCHANGED <<due, worker, known, faults, handled, failures, lost>>

Progress(w) ==
    \/ Recover(w) \/ RecoverFails(w)
    \/ Fetch(w) \/ BatchEnds(w) \/ Claim(w) \/ ClaimFails(w)
    \/ Unresolved(w) \/ CallbackReturns(w) \/ CallbackRaises(w)
    \/ Record(w) \/ RecordFails(w)

Next ==
    \/ \E l \in Letter : Enqueue(l) \/ Register(l) \/ BecomeDue(l) \/ BecomeStale(l)
    \/ \E w \in Worker : Start(w) \/ Progress(w) \/ StopWorker(w)

Spec == Init /\ [][Next]_vars

\* Statements end and callbacks return; time passes; managers are started.
FairSpec ==
    /\ Spec
    /\ \A w \in Worker : WF_vars(Progress(w)) /\ WF_vars(Start(w))
    /\ \A l \in Letter : WF_vars(BecomeDue(l)) /\ WF_vars(BecomeStale(l))

------------------------------------------------------------------------------
\* Type invariant: the rows, the batches and what the workers work on.
TypeOK ==
    /\ row \in [Letter -> Row]
    /\ due \in Seq(Letter) /\ IsInjective(due)
    /\ worker \in [Worker -> WorkerState]
    /\ \A w \in Worker : Len(worker[w].batch) <= BatchSize
    /\ known \subseteq Letter /\ handled \subseteq Letter
    /\ overran \subseteq Letter /\ lost \subseteq Letter
    /\ faults \in 0..MaxFaults
    /\ failures \in [Letter -> 0..MaxAttempts]

\* "Evita double-dispatch" (dlq_manager.py:268-270): two workers await the callback of
\* one letter at the same time only if it once took longer than the 60 s after which
\* another worker's start takes the row back.
NoDoubleDispatch ==
    \A l \in Letter \ overran : Cardinality(Calling(l)) <= 1

\* A letter whose callback has returned is not tried again, unless its deletion was
\* not recorded or its row was taken back meanwhile.
NotRepeated ==
    \A l \in handled \ (overran \cup lost) : Calling(l) = {}

\* A letter is given up only when its callback has raised MaxAttempts times: attempts
\* are written from a row fetched long before, which may count too few, never too
\* many (dlq_manager.py:312-314).
DeadDeserved ==
    \A l \in Letter : row[l].status = "dead" => failures[l] = MaxAttempts

Stranded(l) == row[l].status = "in_progress" /\ \A w \in Worker : Mine(w) # l
Serving == \E w \in Worker : worker[w].pc \notin {"off", "failed"}

\* A letter whose callback is known is retried until it is handled or dead, or a
\* stop, a crash or a failing statement strands it, or no worker is left.
Retried ==
    \A l \in Letter :
        row[l].status = "pending" /\ l \in known
            ~> row[l].status \in {"deleted", "dead"} \/ Stranded(l) \/ ~Serving

\* "Recupera filas in_progress estancadas de un crash/cancelación previos"
\* (dlq_manager.py:205).
StrandedRecovered ==
    \A l \in Letter : Stranded(l) ~> ~Stranded(l) \/ ~Serving
=============================================================================
