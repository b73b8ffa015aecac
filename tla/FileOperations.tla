---------------------------- MODULE FileOperations ----------------------------
(***************************************************************************)
(* File operations of the sync engine (execute_file_operation) with the    *)
(* journal, the snapshots and the rollback manager they use, and rollbacks *)
(* that the supervisor executes on demand.  Every entry is one agent's,    *)
(* "sync_engine".  A call may be cancelled or fail at every await, and the *)
(* process may die.                                                        *)
(***************************************************************************)
EXTENDS Naturals

CONSTANTS
    Op, Rollback, NoOp,  \* calls of execute_file_operation and of execute_rollback
    Path, PathOf,        \* the file an operation is about
    Deletes,             \* operations that remove their file; the others write it
    Existing,            \* files there are before the first operation
    Overlap,             \* calls run at the same time
    Ties,                \* two entries may get the same second
    Faults,              \* what may fail
    MaxFaults            \* bound: how often

Call == Op \cup Rollback
Fault == {"journal", "snapshot", "evict", "restore", "cancel", "crash"}

\* What a file holds: what was there before, nothing, or what an operation wrote.
Content == [by : Op \cup {NoOp}, is : {"whole", "torn", "missing"}]
Original == [by |-> NoOp, is |-> "whole"]
Missing == [by |-> NoOp, is |-> "missing"]
Torn(o) == [by |-> o, is |-> "torn"]
After(o) == IF o \in Deletes THEN Missing ELSE [by |-> o, is |-> "whole"]

AtFirst(p) == IF p \in Existing THEN Original ELSE Missing

ASSUME OperationsAssumption ==
    /\ NoOp \notin Op
    /\ Op \cap Rollback = {}
    /\ PathOf \in [Op -> Path]
    /\ Deletes \subseteq Op
    /\ Existing \subseteq Path
    /\ Overlap \in BOOLEAN /\ Ties \in BOOLEAN
    /\ Faults \subseteq Fault
    /\ MaxFaults \in Nat

VARIABLES
    now,      \* the second of the last entry
    file,     \* the files
    tx,       \* status in transactions
    entry,    \* status in journal_entries
    stamp,    \* timestamp in journal_entries
    id,       \* id in journal_entries, counted up; 0 without an entry
    last,     \* the last id given out
    snap,     \* what the snapshot of an operation holds; Missing if none was taken
    store,    \* operations whose snapshot file exists
    old,      \* snapshots of more than max_pruning_age_days
    call,     \* where each call is, and the entry it undoes
    spoiled,  \* files an undo could not put right, or was not tried for (history)
    faults    \* how often something has failed (history)

vars == <<now, file, tx, entry, stamp, id, last, snap, store, old, call, spoiled, faults>>

ids == <<now, stamp, id, last>>
journal == <<tx, entry, ids>>
snapshots == <<snap, store, old>>

TxStatus == {"none", "pending", "committed"}
EntryStatus == {"none", "started", "completed", "failed", "rolled_back"}
Await == {"begin", "snapshot", "log", "operate", "working", "complete", "commit", "fail",
          "pick", "restore", "markback", "prune"}
CallState == [pc : Await \cup {"idle", "done", "dead"}, victim : Op \cup {NoOp}]

Init ==
    /\ now = 0
    /\ file = [p \in Path |-> AtFirst(p)]
    /\ tx = [o \in Op |-> "none"]
    /\ entry = [o \in Op |-> "none"]
    /\ stamp = [o \in Op |-> 0]
    /\ id = [o \in Op |-> 0]
    /\ last = 0
    /\ snap = [o \in Op |-> Missing]
    /\ store = {}
    /\ old = {}
    /\ call = [c \in Call |-> [pc |-> "idle", victim |-> NoOp]]
    /\ spoiled = {}
    /\ faults = 0

At(c, pc) == call[c].pc = pc
GoTo(c, pc) == call' = [call EXCEPT ![c] = [@ EXCEPT !.pc = pc]]
Ended(c) == call[c].pc \in {"idle", "done", "dead"}

\* A rollback is over; an operation goes on to the finally clause.
Finally(c) == IF c \in Op THEN "prune" ELSE "done"

Writes(o) == file' = [file EXCEPT ![PathOf[o]] = Torn(o)]
Spoil(o) == spoiled' = spoiled \cup {PathOf[o]}

\* What a failing or cancelled statement may leave of the row that it sets to new:
\* a later commit on the connection keeps a statement whose own commit failed.
Perhaps(rows, o, new) == {rows, [rows EXCEPT ![o] = new]}

------------------------------------------------------------------------------
Start(c) ==
    /\ At(c, "idle")
    /\ Overlap \/ \A d \in Call : Ended(d)
    /\ GoTo(c, IF c \in Op THEN "begin" ELSE "pick")
    /\ UNCHANGED <<file, journal, snapshots, spoiled>>

Begin(o) ==
    /\ At(o, "begin")
    /\ tx' = [tx EXCEPT ![o] = "pending"]
    /\ GoTo(o, "snapshot")
    /\ UNCHANGED <<file, entry, ids, snapshots, spoiled>>

\* No snapshot of a file that is not there.  create_snapshot ends with
\* _enforce_size_limit, which removes whole days of snapshots, today's included.
Snapshot(o) ==
    /\ At(o, "snapshot")
    /\ IF file[PathOf[o]] = Missing
       THEN UNCHANGED snapshots
       ELSE /\ snap' = [snap EXCEPT ![o] = file[PathOf[o]]]
            /\ \/ store' = store \cup {o} /\ UNCHANGED old
               \/ "evict" \in Faults /\ store' = {} /\ old' = {}
    /\ GoTo(o, "log")
    /\ UNCHANGED <<file, journal, spoiled>>

SnapshotFails(o) ==
    /\ At(o, "snapshot") /\ file[PathOf[o]] # Missing /\ "snapshot" \in Faults
    /\ GoTo(o, "prune")
    /\ UNCHANGED <<file, journal, snapshots, spoiled>>

\* The timestamps have whole seconds, so that two entries may get the same.
Insert(o) ==
    /\ entry' = [entry EXCEPT ![o] = "started"]
    /\ now' \in (IF Ties /\ last # 0 THEN {now} ELSE {}) \cup {now + 1}
    /\ stamp' = [stamp EXCEPT ![o] = now']
    /\ last' = last + 1
    /\ id' = [id EXCEPT ![o] = last']

LogBegin(o) ==
    /\ At(o, "log")
    /\ Insert(o)
    /\ GoTo(o, "operate")
    /\ UNCHANGED <<file, tx, snapshots, spoiled>>

OperationWrites(o) ==
    /\ At(o, "operate") /\ o \notin Deletes
    /\ Writes(o)
    /\ GoTo(o, "working")
    /\ UNCHANGED <<journal, snapshots, spoiled>>

OperationSucceeds(o) ==
    /\ At(o, IF o \in Deletes THEN "operate" ELSE "working")
    /\ file' = [file EXCEPT ![PathOf[o]] = After(o)]
    /\ GoTo(o, "complete")
    /\ UNCHANGED <<journal, snapshots, spoiled>>

OperationFails(o) ==
    /\ call[o].pc \in {"operate", "working"}
    /\ GoTo(o, "fail")
    /\ UNCHANGED <<file, journal, snapshots, spoiled>>

Complete(o) ==
    /\ At(o, "complete")
    /\ entry' = [entry EXCEPT ![o] = "completed"]
    /\ GoTo(o, "commit")
    /\ UNCHANGED <<file, tx, ids, snapshots, spoiled>>

Commit(o) ==
    /\ At(o, "commit")
    /\ tx' = [tx EXCEPT ![o] = "committed"]
    /\ GoTo(o, "prune")
    /\ UNCHANGED <<file, entry, ids, snapshots, spoiled>>

\* The operation, complete_operation or commit_transaction has raised.
Fail(o) ==
    /\ At(o, "fail")
    /\ entry' = [entry EXCEPT ![o] = "failed"]
    /\ GoTo(o, "pick")
    /\ UNCHANGED <<file, tx, ids, snapshots, spoiled>>

\* JournalTransactionError or sqlite3.Error of a call of the journal.
JournalFails(o) ==
    /\ "journal" \in Faults
    /\ \/ /\ At(o, "begin")
          /\ tx' \in Perhaps(tx, o, "pending")
          /\ GoTo(o, "prune")
          /\ UNCHANGED <<entry, ids, spoiled>>
       \/ /\ At(o, "log")
          /\ Insert(o) \/ UNCHANGED <<entry, ids>>
          /\ GoTo(o, "prune")
          /\ UNCHANGED <<tx, spoiled>>
       \/ /\ At(o, "complete")
          /\ entry' \in Perhaps(entry, o, "completed")
          /\ GoTo(o, "fail")
          /\ UNCHANGED <<tx, ids, spoiled>>
       \/ /\ At(o, "commit")
          /\ tx' \in Perhaps(tx, o, "committed")
          /\ GoTo(o, "fail")
          /\ UNCHANGED <<entry, ids, spoiled>>
       \/ /\ At(o, "fail")
          /\ entry' \in Perhaps(entry, o, "failed")
          /\ GoTo(o, "prune")
          /\ Spoil(o)
          /\ UNCHANGED <<tx, ids>>
    /\ UNCHANGED <<file, snapshots>>

------------------------------------------------------------------------------
Undoable == {o \in Op : entry[o] \in {"completed", "failed"}}

\* Mutated form: the oldest entry.
LastOperationsAscending == {o \in Undoable : \A q \in Undoable : stamp[o] <= stamp[q]}

\* Mutated form: operations that failed are not looked for.
LastOperationsCompleted ==
    LET done == {o \in Op : entry[o] = "completed"}
    IN {o \in done : \A q \in done : stamp[q] <= stamp[o]}

\* ORDER BY timestamp DESC LIMIT 1: among entries of one second, any.
LastOperations == {o \in Undoable : \A q \in Undoable : stamp[q] <= stamp[o]}

\* get_last_operation.
Pick(c) ==
    /\ At(c, "pick")
    /\ \/ /\ Undoable = {}
          /\ GoTo(c, Finally(c))
       \/ \E o \in LastOperations :
             call' = [call EXCEPT ![c] = [pc |-> IF snap[o] # Missing THEN "restore" ELSE "markback",
                                          victim |-> o]]
    /\ UNCHANGED <<file, journal, snapshots, spoiled>>

Victim(c) == call[c].victim

\* Mutated form: the file is put back only if the operation failed.
RestoreFailed(c) ==
    /\ At(c, "restore") /\ Victim(c) \in store
    /\ file' = IF entry[Victim(c)] = "failed"
               THEN [file EXCEPT ![PathOf[Victim(c)]] = snap[Victim(c)]] ELSE file
    /\ GoTo(c, "markback")
    /\ UNCHANGED <<journal, snapshots, spoiled>>

Restore(c) ==
    /\ At(c, "restore") /\ Victim(c) \in store
    /\ file' = [file EXCEPT ![PathOf[Victim(c)]] = snap[Victim(c)]]
    /\ GoTo(c, "markback")
    /\ UNCHANGED <<journal, snapshots, spoiled>>

\* The snapshot is gone: JournalSnapshotError leaves undo_last_operation.
RestoreMissing(c) ==
    /\ At(c, "restore") /\ Victim(c) \notin store
    /\ GoTo(c, Finally(c))
    /\ Spoil(Victim(c))
    /\ UNCHANGED <<file, journal, snapshots>>

\* The copy fails, or what was copied is not what the checksum says and the file
\* is as before.
RestoreFails(c) ==
    /\ At(c, "restore") /\ Victim(c) \in store /\ "restore" \in Faults
    /\ UNCHANGED file \/ Writes(Victim(c))
    /\ GoTo(c, Finally(c))
    /\ Spoil(Victim(c))
    /\ UNCHANGED <<journal, snapshots>>

\* Without a snapshot nothing was put back, and nothing is deleted either.
MarkBack(c) ==
    /\ At(c, "markback")
    /\ entry' = [entry EXCEPT ![Victim(c)] = "rolled_back"]
    /\ GoTo(c, Finally(c))
    /\ IF snap[Victim(c)] = Missing THEN Spoil(Victim(c)) ELSE UNCHANGED spoiled
    /\ UNCHANGED <<file, tx, ids, snapshots>>

MarkBackFails(c) ==
    /\ At(c, "markback") /\ "journal" \in Faults
    /\ entry' \in Perhaps(entry, Victim(c), "rolled_back")
    /\ GoTo(c, Finally(c))
    /\ Spoil(Victim(c))
    /\ UNCHANGED <<file, tx, ids, snapshots>>

\* _passive_pruning: over the limit, snapshots of more than 30 days are deleted.
Prune(o) ==
    /\ At(o, "prune")
    /\ \/ UNCHANGED <<store, old>>
       \/ old # {} /\ store' = store \ old /\ old' = {}
    /\ GoTo(o, "done")
    /\ UNCHANGED <<file, journal, snap, spoiled>>

------------------------------------------------------------------------------
\* CancelledError at an await of a call, which except Exception does not
\* see: only the finally clause runs.  A statement or a copy already handed to a
\* thread takes effect all the same.
Cancel(c) ==
    /\ "cancel" \in Faults
    /\ ~Ended(c)
    /\ GoTo(c, IF At(c, "prune") THEN "done" ELSE Finally(c))
    /\ \/ /\ At(c, "begin")
          /\ tx' \in Perhaps(tx, c, "pending")
          /\ UNCHANGED <<file, entry, ids, spoiled>>
       \/ /\ call[c].pc \in {"snapshot", "prune"}
          /\ UNCHANGED <<file, journal, spoiled>>
       \/ /\ At(c, "log")
          /\ Insert(c) \/ UNCHANGED <<entry, ids>>
          /\ UNCHANGED <<file, tx, spoiled>>
       \/ /\ call[c].pc \in {"operate", "working"}
          /\ IF At(c, "working") THEN Spoil(c) ELSE UNCHANGED spoiled
          /\ UNCHANGED <<file, journal>>
       \/ /\ At(c, "complete")
          /\ entry' \in Perhaps(entry, c, "completed")
          /\ IF entry' = entry THEN Spoil(c) ELSE UNCHANGED spoiled
          /\ UNCHANGED <<file, tx, ids>>
       \/ /\ At(c, "commit")
          /\ tx' \in Perhaps(tx, c, "committed")
          /\ UNCHANGED <<file, entry, ids, spoiled>>
       \/ /\ At(c, "fail")
          /\ entry' \in Perhaps(entry, c, "failed")
          /\ Spoil(c)
          /\ UNCHANGED <<file, tx, ids>>
       \/ /\ At(c, "pick")
          /\ IF c \in Op THEN Spoil(c) ELSE UNCHANGED spoiled
          /\ UNCHANGED <<file, journal>>
       \/ /\ At(c, "restore")
          /\ file' \in {file} \cup {[file EXCEPT ![PathOf[v]] = snap[v]] : v \in store \cap {Victim(c)}}
          /\ Spoil(Victim(c))
          /\ UNCHANGED journal
       \/ /\ At(c, "markback")
          /\ entry' \in Perhaps(entry, Victim(c), "rolled_back")
          /\ Spoil(Victim(c))
          /\ UNCHANGED <<file, tx, ids>>
    /\ UNCHANGED snapshots

\* The file an unfinished call was at work on.
Touched(c) ==
    {p \in Path :
        \/ call[c].pc \in {"working", "complete", "fail", "pick"} /\ c \in Op /\ p = PathOf[c]
        \/ call[c].pc \in {"restore", "markback"} /\ p = PathOf[Victim(c)]}

\* Calls of the next process follow; entries and snapshots are on disk.
Crash ==
    /\ "crash" \in Faults
    /\ \E c \in Call : ~Ended(c)
    /\ call' = [c \in Call |-> IF Ended(c) THEN call[c] ELSE [call[c] EXCEPT !.pc = "dead"]]
    /\ spoiled' = spoiled \cup UNION {Touched(c) : c \in Call}
    /\ UNCHANGED <<file, journal, snapshots>>

\* A month goes by.
GrowOld ==
    /\ store # old /\ \A c \in Call : Ended(c)
    /\ old' = store
    /\ UNCHANGED <<file, journal, snap, store, call, spoiled>>

Operate(o) ==
    \/ Begin(o) \/ Snapshot(o) \/ LogBegin(o)
    \/ OperationWrites(o) \/ OperationSucceeds(o) \/ OperationFails(o)
    \/ Complete(o) \/ Commit(o) \/ Fail(o) \/ Prune(o)

Undo(c) == Pick(c) \/ Restore(c) \/ RestoreMissing(c) \/ MarkBack(c)

Faulty ==
    /\ faults < MaxFaults
    /\ faults' = faults + 1
    /\ \/ \E o \in Op : SnapshotFails(o) \/ JournalFails(o)
       \/ \E c \in Call : RestoreFails(c) \/ MarkBackFails(c) \/ Cancel(c)
       \/ Crash

Next ==
    \/ /\ \/ \E c \in Call : Start(c) \/ Undo(c)
          \/ \E o \in Op : Operate(o)
          \/ GrowOld
       /\ UNCHANGED faults
    \/ Faulty

Spec == Init /\ [][Next]_vars

------------------------------------------------------------------------------
\* Type invariant: the files, the journal, the snapshots and the calls.
TypeOK ==
    /\ now \in Nat
    /\ file \in [Path -> Content]
    /\ tx \in [Op -> TxStatus]
    /\ entry \in [Op -> EntryStatus]
    /\ stamp \in [Op -> Nat]
    /\ id \in [Op -> Nat] /\ last \in Nat
    /\ snap \in [Op -> Content]
    /\ store \subseteq Op
    /\ old \subseteq store
    /\ call \in [Call -> CallState]
    /\ spoiled \subseteq Path
    /\ faults \in 0..MaxFaults

Done(p) == {o \in Op : entry[o] = "completed" /\ PathOf[o] = p}
Latest(ops) == {o \in ops : \A q \in ops : id[q] <= id[o]}

\* The journal tells what the files are: with no call under way, a file is what the
\* last completed operation on it made of it, or what it was at first, however often
\* operations failed, were undone, pruned, cancelled or cut off.  Spoiled files are
\* those an undo had no snapshot for or was kept from ("permitiendo rollback completo",
\* journal.py:6).
JournalTellsFile ==
    (\A c \in Call : Ended(c)) =>
        \A p \in Path \ spoiled :
            IF Done(p) = {} THEN file[p] = AtFirst(p)
            ELSE \E o \in Latest(Done(p)) : file[p] = After(o)

\* An operation that fails is what its automatic rollback undoes ("marcar como FAILED
\* y ejecutar rollback automático", sync_engine.py:257), and not somebody else's.
UndoesFailed ==
    [][\A o \in Op : At(o, "pick") /\ ~At(o, "pick")' /\ Victim(o)' # NoOp => Victim(o)' = o]_vars

\* What is in effect is a stack: every step completes an operation or takes back the
\* last one.
InEffect == {<<id[o], o>> : o \in {q \in Op : entry[q] = "completed"}}
Stack == INSTANCE UndoStack WITH inEffect <- InEffect
LastInFirstOut == Stack!Spec
==============================================================================
