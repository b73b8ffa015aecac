---------------------------- MODULE ToolPipelines ----------------------------
(***************************************************************************)
(* The services that run a modding tool over a plugin file (Synthesis,     *)
(* xEdit, DynDOLOD), each under a SnapshotTransactionLock and with a       *)
(* transaction in the operation journal.  A run is one call of a service.  *)
(* The calls of the lock manager are single steps here; ResourceLocks has  *)
(* their insides.  A run may be cancelled or fail at every await.          *)
(***************************************************************************)
EXTENDS LockTable

CONSTANTS
    Run, NoRun, File, Resource,
    ServiceOf,   \* which service a run is a call of
    FileOf,      \* the plugin its tool writes
    LockOf,      \* the resource_id it locks
    AgentOf,     \* the AGENT_ID of its service
    Slow,        \* runs whose tool may take longer than the lease
    InitialFile, \* the plugins before the first run: Original or Missing
    Cancels,     \* the awaits at which tasks are cancelled
    Faults,      \* what may fail
    TTL, MaxTime

Service == {"synthesis", "xedit", "dyndolod"}
Await == {"acquiring", "snapshot", "begin", "tool", "running", "commit", "announce",
          "restore", "release", "mark", "publish"}
Fault == {"snapshot", "evict", "restore", "journal", "locks", "bus", "crash"}

\* What a plugin file holds: what was there before, or what a run's tool wrote.
Content == [by : Run \cup {NoRun}, whole : BOOLEAN]
Original == [by |-> NoRun, whole |-> TRUE]
Missing == [by |-> NoRun, whole |-> FALSE]
Torn(s) == [by |-> s, whole |-> FALSE]
Output(s) == [by |-> s, whole |-> TRUE]

ASSUME PipelineAssumption ==
    /\ NoRun \notin Run
    /\ ServiceOf \in [Run -> Service]
    /\ FileOf \in [Run -> File]
    /\ LockOf \in [Run -> Resource]
    /\ AgentOf \in [Run -> Agent]
    /\ Slow \subseteq Run
    /\ InitialFile \in [File -> {Original, Missing}]
    /\ Cancels \subseteq Await
    /\ Faults \subseteq Fault
    /\ TTL \in Nat /\ MaxTime \in Nat

VARIABLES
    now,      \* time.time()
    row,      \* resource_locks
    file,     \* the plugins on disk
    good,     \* what the last run that came to a good end left (history)
    spoiled,  \* plugins written by a run that nobody could roll back (history)
    stored,   \* runs whose snapshot file is still on disk
    run       \* the local variables of each call, its journal row and its event

vars == <<now, row, file, good, spoiled, stored, run>>

Exc == {"none", "refused", "early", "domain", "other", "late", "cancel"}
TxStatus == {"none", "pending", "committed", "rolled_back"}

RunState ==
    [pc : Await \cup {"idle", "done", "dead"},
     exc : Exc,                          \* the exception on its way out
     listed : BOOLEAN,                   \* target_files is not empty
     snap : Content,                     \* self.snapshots; Missing when empty
     expires : 0..MaxTime + TTL,         \* lock_info.expires_at
     tx : TxStatus,                      \* status of its row in transactions
     known : BOOLEAN,                    \* tx_id is not None
     told : {"nothing", "success", "failed", "rolled_back"},  \* the completed event
     orphan : BOOLEAN,                   \* its process goes on without it
     copying : BOOLEAN]                  \* its restore goes on without it

Fresh == [pc |-> "idle", exc |-> "none", listed |-> FALSE, snap |-> Missing,
          expires |-> 0, tx |-> "none", known |-> FALSE, told |-> "nothing",
          orphan |-> FALSE, copying |-> FALSE]

DynDOLOD(s) == ServiceOf[s] = "dyndolod"
MyFile(s) == file[FileOf[s]]
MyLock(s) == row[LockOf[s]]
At(s, pc) == run[s].pc = pc

Init ==
    /\ now = 0
    /\ row = [r \in Resource |-> NoRow]
    /\ file = InitialFile
    /\ good = InitialFile
    /\ spoiled = {}
    /\ stored = {}
    /\ run = [s \in Run |-> Fresh]

------------------------------------------------------------------------------
Becomes(s, d) == run' = [run EXCEPT ![s] = d]

GoTo(s, pc) == Becomes(s, [run[s] EXCEPT !.pc = pc])

\* An exception inside the async with block: __aexit__ restores first.
Raise(s, exc) == Becomes(s, [run[s] EXCEPT !.pc = "restore", !.exc = exc])

\* Mutated form: cancellation is left alone, as the other services do.
AfterReleaseNoCancelHandler(s, exc) ==
    CASE exc = "none" /\ ~DynDOLOD(s) -> "commit"
      [] exc = "none" /\ DynDOLOD(s) -> "done"
      [] exc = "cancel" -> "done"
      [] OTHER -> IF run[s].known THEN "mark" ELSE "publish"

\* Mutated form: a success is announced before it is committed.
AfterReleaseCommitLast(s, exc) ==
    CASE exc = "none" -> "publish"
      [] exc = "cancel" -> "done"
      [] OTHER -> IF run[s].known THEN "mark" ELSE "publish"

\* Where a run goes when __aexit__ has released the lock: Synthesis and xEdit
\* commit outside the lock and let CancelledError pass, DynDOLOD has committed
\* inside and has a handler for CancelledError.
AfterRelease(s, exc) ==
    CASE exc = "none" /\ ~DynDOLOD(s) -> "commit"
      [] exc = "none" /\ DynDOLOD(s) -> "done"
      [] exc = "cancel" /\ ~(DynDOLOD(s) /\ run[s].known) -> "done"
      [] OTHER -> IF run[s].known THEN "mark" ELSE "publish"

\* The call begins.  Synthesis and DynDOLOD look whether there is a file to take
\* a snapshot of before they wait for the lock; xEdit always lists its target.
Start(s) ==
    /\ At(s, "idle")
    /\ Becomes(s, [run[s] EXCEPT !.pc = "acquiring",
                                 !.listed = ServiceOf[s] = "xedit" \/ MyFile(s) # Missing])
    /\ UNCHANGED <<now, row, file, good, spoiled, stored>>

TakeLock(s) == row' = [row EXCEPT ![LockOf[s]] = Upsert(@, AgentOf[s], now, TTL)]

\* Mutated form: the lease is counted twice.
AcquireTwoLeases(s) ==
    /\ At(s, "acquiring")
    /\ Claimable(MyLock(s), now)
    /\ TakeLock(s)
    /\ Becomes(s, [run[s] EXCEPT !.pc = "snapshot", !.expires = now + TTL + TTL])
    /\ UNCHANGED <<now, file, good, spoiled, stored>>

Acquire(s) ==
    /\ At(s, "acquiring")
    /\ Claimable(MyLock(s), now)
    /\ TakeLock(s)
    /\ Becomes(s, [run[s] EXCEPT !.pc = "snapshot", !.expires = now + TTL])
    /\ UNCHANGED <<now, file, good, spoiled, stored>>

\* Mutated form: the attempts are not counted.
RefusedNever(s) == At(s, "acquiring") /\ FALSE /\ UNCHANGED vars

\* LockAcquisitionError: contention, or a database that fails every attempt.
Refused(s) ==
    /\ At(s, "acquiring")
    /\ Becomes(s, [run[s] EXCEPT !.pc = "publish", !.exc = "refused"])
    /\ UNCHANGED <<now, row, file, good, spoiled, stored>>

\* create_snapshot ends with _enforce_size_limit, which removes whole days of
\* snapshots, today's included.
Snapshot(s) ==
    /\ At(s, "snapshot")
    /\ LET takes == run[s].listed /\ MyFile(s) # Missing
       IN /\ Becomes(s, [run[s] EXCEPT !.pc = "begin",
                                       !.snap = IF takes THEN MyFile(s) ELSE Missing])
          /\ \/ stored' = IF takes THEN stored \cup {s} ELSE stored
             \/ "evict" \in Faults /\ takes /\ stored' = {}
    /\ UNCHANGED <<now, row, file, good, spoiled>>

SnapshotFails(s) ==
    /\ At(s, "snapshot") /\ run[s].listed /\ "snapshot" \in Faults
    /\ Becomes(s, [run[s] EXCEPT !.pc = "release", !.exc = "early"])
    /\ UNCHANGED <<now, row, file, good, spoiled, stored>>

Begin(s) ==
    /\ At(s, "begin")
    /\ Becomes(s, [run[s] EXCEPT !.pc = "tool", !.tx = "pending", !.known = TRUE])
    /\ UNCHANGED <<now, row, file, good, spoiled, stored>>

\* The insert failed, or its commit did and a later one keeps the row.
BeginFails(s) ==
    /\ At(s, "begin") /\ "journal" \in Faults
    /\ \E tx \in {"none", "pending"} :
         Becomes(s, [run[s] EXCEPT !.pc = "restore", !.exc = "other", !.tx = tx])
    /\ UNCHANGED <<now, row, file, good, spoiled, stored>>

ToolWrites(s) ==
    /\ At(s, "tool")
    /\ GoTo(s, "running")
    /\ file' = [file EXCEPT ![FileOf[s]] = Torn(s)]
    /\ UNCHANGED <<now, row, good, spoiled, stored>>

\* The run will not be rolled back any more.
Succeed(s) ==
    /\ good' = [good EXCEPT ![FileOf[s]] = Output(s)]
    /\ spoiled' = IF file'[FileOf[s]] = Output(s) THEN spoiled \ {FileOf[s]}
                                                  ELSE spoiled \cup {FileOf[s]}

\* The tool's result is accepted: Synthesis and xEdit leave the block, DynDOLOD
\* commits first.
ToolSucceeds(s) ==
    /\ At(s, "running")
    /\ file' = [file EXCEPT ![FileOf[s]] = Output(s)]
    /\ IF DynDOLOD(s) THEN GoTo(s, "commit") /\ UNCHANGED <<good, spoiled>>
                      ELSE GoTo(s, "release") /\ Succeed(s)
    /\ UNCHANGED <<now, row, stored>>

\* xEdit with an empty conflict report does not run the tool.
NothingToDo(s) ==
    /\ At(s, "tool") /\ ServiceOf[s] = "xedit"
    /\ GoTo(s, "release")
    /\ UNCHANGED <<now, row, file, good, spoiled, stored>>

\* It cannot be started, times out and is killed, fails, or its output is not valid.
ToolFails(s) ==
    /\ run[s].pc \in {"tool", "running"}
    /\ \E exc \in {"domain", "other"} : Raise(s, exc)
    /\ UNCHANGED <<now, row, file, good, spoiled, stored>>

Commit(s) ==
    /\ At(s, "commit")
    /\ Becomes(s, [run[s] EXCEPT !.pc = IF DynDOLOD(s) THEN "announce" ELSE "publish",
                                 !.tx = "committed"])
    /\ UNCHANGED <<now, row, file, good, spoiled, stored>>

CommitFails(s) ==
    /\ At(s, "commit") /\ "journal" \in Faults
    /\ IF DynDOLOD(s) THEN Raise(s, "other")
       ELSE Becomes(s, [run[s] EXCEPT !.pc = "mark", !.exc = "late"])
    /\ UNCHANGED <<now, row, file, good, spoiled, stored>>

\* DynDOLOD publishes its success while it holds the lock.
Announce(s) ==
    /\ At(s, "announce")
    /\ Becomes(s, [run[s] EXCEPT !.pc = "release", !.told = "success"])
    /\ UNCHANGED <<now, row, file, stored>>
    /\ Succeed(s)

\* Mutated form: the failure is only logged.
AnnounceFailsLogged(s) ==
    /\ At(s, "announce") /\ "bus" \in Faults
    /\ Becomes(s, [run[s] EXCEPT !.pc = "release", !.exc = "other"])
    /\ UNCHANGED <<now, row, file, good, spoiled, stored>>

AnnounceFails(s) ==
    /\ At(s, "announce") /\ "bus" \in Faults
    /\ Raise(s, "other")
    /\ UNCHANGED <<now, row, file, good, spoiled, stored>>

\* The run's rollback is over; its output is still there if there was no snapshot,
\* or none any more, or it could not be copied.
GiveUp(s) ==
    /\ GoTo(s, "release")
    /\ spoiled' = IF MyFile(s).by = s THEN spoiled \cup {FileOf[s]} ELSE spoiled
    /\ UNCHANGED file

HasSnapshot(s) == run[s].snap # Missing /\ s \in stored

\* Mutated form: only domain errors are rolled back.
RestoreDomain(s) ==
    /\ At(s, "restore")
    /\ IF HasSnapshot(s) /\ run[s].exc = "domain"
       THEN /\ GoTo(s, "release")
            /\ file' = [file EXCEPT ![FileOf[s]] = run[s].snap]
            /\ UNCHANGED spoiled
       ELSE GoTo(s, "release") /\ UNCHANGED <<file, spoiled>>
    /\ UNCHANGED <<now, row, good, stored>>

\* __aexit__ with an exception: put the snapshot back; one that is gone is logged.
Restore(s) ==
    /\ At(s, "restore")
    /\ IF HasSnapshot(s)
       THEN /\ GoTo(s, "release")
            /\ file' = [file EXCEPT ![FileOf[s]] = run[s].snap]
            /\ UNCHANGED spoiled
       ELSE GiveUp(s)
    /\ UNCHANGED <<now, row, good, stored>>

\* restore_snapshot raises (swallowed), perhaps halfway through the copy.
RestoreFails(s) ==
    /\ At(s, "restore") /\ run[s].snap # Missing /\ "restore" \in Faults
    /\ \/ GiveUp(s)
       \/ /\ GoTo(s, "release")
          /\ file' = [file EXCEPT ![FileOf[s]] = Torn(s)]
          /\ spoiled' = spoiled \cup {FileOf[s]}
    /\ UNCHANGED <<now, row, good, stored>>

Release(s) ==
    /\ At(s, "release")
    /\ row' = [row EXCEPT ![LockOf[s]] = Delete(@, AgentOf[s])]
    /\ GoTo(s, AfterRelease(s, run[s].exc))
    /\ UNCHANGED <<now, file, good, spoiled, stored>>

\* _safe_release swallows the error; the row stays until it expires.
ReleaseFails(s) ==
    /\ At(s, "release") /\ "locks" \in Faults
    /\ GoTo(s, AfterRelease(s, run[s].exc))
    /\ UNCHANGED <<now, row, file, good, spoiled, stored>>

\* mark_transaction_rolled_back does not look at the status.
Mark(s) ==
    /\ At(s, "mark")
    /\ Becomes(s, [run[s] EXCEPT !.tx = "rolled_back",
                                 !.pc = IF run[s].exc = "cancel" THEN "done" ELSE "publish"])
    /\ UNCHANGED <<now, row, file, good, spoiled, stored>>

\* The handlers swallow the error, but for the domain handlers of Synthesis and
\* xEdit, which it leaves through.
MarkFails(s) ==
    /\ At(s, "mark") /\ "journal" \in Faults
    /\ GoTo(s, IF run[s].exc = "cancel" \/ (run[s].exc = "domain" /\ ~DynDOLOD(s))
               THEN "done" ELSE "publish")
    /\ UNCHANGED <<now, row, file, good, spoiled, stored>>

\* success and rolled_back of the completed event.
Report(s) ==
    CASE run[s].exc = "none" -> "success"
      [] run[s].exc \in {"refused", "late"} -> "failed"
      [] run[s].exc = "early" -> IF DynDOLOD(s) THEN "rolled_back" ELSE "failed"
      [] OTHER -> IF run[s].listed \/ DynDOLOD(s) THEN "rolled_back" ELSE "failed"

Publish(s) ==
    /\ At(s, "publish")
    /\ Becomes(s, [run[s] EXCEPT !.pc = "done", !.told = Report(s)])
    /\ UNCHANGED <<now, row, file, good, spoiled, stored>>

PublishFails(s) ==
    /\ At(s, "publish") /\ "bus" \in Faults
    /\ GoTo(s, "done")
    /\ UNCHANGED <<now, row, file, good, spoiled, stored>>

------------------------------------------------------------------------------
(* CancelledError at an await.  A statement already handed to a database's *)
(* worker thread takes effect all the same, a child process is not killed, *)
(* a copy already handed to a thread goes on.                              *)

Cancelled(s, pc) == Becomes(s, [run[s] EXCEPT !.pc = pc, !.exc = "cancel"])

\* __aenter__ has no handler for it: the row of the lock is left behind.
CancelEntering(s) ==
    /\ run[s].pc \in {"acquiring", "snapshot"}
    /\ Cancelled(s, "done")
    /\ \/ UNCHANGED row
       \/ At(s, "acquiring") /\ TakeLock(s)
    /\ UNCHANGED <<now, file, good, spoiled, stored>>

\* The transaction may be in the journal, but tx_id has not been assigned.
CancelBegin(s) ==
    /\ At(s, "begin")
    /\ \E tx \in {"none", "pending"} :
         Becomes(s, [run[s] EXCEPT !.pc = "restore", !.exc = "cancel", !.tx = tx])
    /\ UNCHANGED <<now, row, file, good, spoiled, stored>>

CancelTool(s) ==
    /\ run[s].pc \in {"tool", "running"}
    /\ Becomes(s, [run[s] EXCEPT !.pc = "restore", !.exc = "cancel",
                                 !.orphan = At(s, "running")])
    /\ UNCHANGED <<now, row, file, good, spoiled, stored>>

\* Mutated form: Synthesis and xEdit mark the transaction as DynDOLOD does.
CancelCommitMarks(s) ==
    /\ At(s, "commit")
    /\ \E tx \in {"pending", "committed"} :
         Becomes(s, [run[s] EXCEPT !.pc = IF DynDOLOD(s) THEN "restore" ELSE "mark",
                                   !.exc = "cancel", !.tx = tx])
    /\ UNCHANGED <<now, row, file, good, spoiled, stored>>

CancelCommit(s) ==
    /\ At(s, "commit")
    /\ \E tx \in {"pending", "committed"} :
         Becomes(s, [run[s] EXCEPT !.pc = IF DynDOLOD(s) THEN "restore" ELSE "done",
                                   !.exc = "cancel", !.tx = tx])
    /\ UNCHANGED <<now, row, file, good, spoiled, stored>>

CancelAnnounce(s) ==
    /\ At(s, "announce")
    /\ Cancelled(s, "restore")
    /\ UNCHANGED <<now, row, file, good, spoiled, stored>>

\* The copy has not begun and never will, or it goes on in its thread while the
\* finally clause releases the lock.
CancelRestore(s) ==
    /\ At(s, "restore")
    /\ \E on \in BOOLEAN :
         /\ on => HasSnapshot(s)
         /\ Becomes(s, [run[s] EXCEPT !.pc = "release", !.exc = "cancel", !.copying = on])
    /\ spoiled' = IF MyFile(s).by = s THEN spoiled \cup {FileOf[s]} ELSE spoiled
    /\ UNCHANGED <<now, row, file, good, stored>>

CancelRelease(s) ==
    /\ At(s, "release")
    /\ Cancelled(s, AfterRelease(s, "cancel"))
    /\ row' \in {row, [row EXCEPT ![LockOf[s]] = Delete(@, AgentOf[s])]}
    /\ UNCHANGED <<now, file, good, spoiled, stored>>

CancelLast(s) ==
    /\ run[s].pc \in {"mark", "publish"}
    /\ \E tx \in {run[s].tx} \cup (IF At(s, "mark") THEN {"rolled_back"} ELSE {}) :
         Becomes(s, [run[s] EXCEPT !.pc = "done", !.exc = "cancel", !.tx = tx])
    /\ UNCHANGED <<now, row, file, good, spoiled, stored>>

Cancel(s) ==
    /\ run[s].pc \in Cancels
    /\ \/ CancelEntering(s) \/ CancelBegin(s) \/ CancelTool(s)
       \/ CancelCommit(s) \/ CancelAnnounce(s) \/ CancelRestore(s)
       \/ CancelRelease(s) \/ CancelLast(s)

\* What goes on without its task, over whatever is in the file by now.
OrphanEnds(s) ==
    /\ run[s].orphan
    /\ Becomes(s, [run[s] EXCEPT !.orphan = FALSE])
    /\ file' = [file EXCEPT ![FileOf[s]] = Output(s)]
    /\ spoiled' = spoiled \cup {FileOf[s]}
    /\ UNCHANGED <<now, row, good, stored>>

CopyEnds(s) ==
    /\ run[s].copying
    /\ Becomes(s, [run[s] EXCEPT !.copying = FALSE])
    /\ file' = [file EXCEPT ![FileOf[s]] = run[s].snap]
    /\ spoiled' = spoiled \cup {FileOf[s]}
    /\ UNCHANGED <<now, row, good, stored>>

------------------------------------------------------------------------------
\* From the acquired lock to its release.
Inside(s) ==
    \/ run[s].pc \in {"snapshot", "begin", "tool", "running", "announce", "restore", "release"}
    \/ At(s, "commit") /\ DynDOLOD(s)

\* The time-outs of the tools (300 s for Synthesis, 120 s for xEdit) are below the
\* lease of 600 s, that of DynDOLOD (14400 s) is not: only slow runs are still
\* inside when their lease has run out.
Tick ==
    /\ now < MaxTime
    /\ \A s \in Run : Inside(s) /\ s \notin Slow => now < run[s].expires
    /\ now' = now + 1
    /\ UNCHANGED <<row, file, good, spoiled, stored, run>>

\* The process dies; its children do not, and the databases and files remain.
Crash ==
    /\ "crash" \in Faults
    /\ \E s \in Run : run[s].pc \in Await
    /\ run' = [s \in Run |->
                 [run[s] EXCEPT !.pc = IF @ \in Await THEN "dead" ELSE @,
                                !.copying = FALSE,
                                !.orphan = @ \/ At(s, "running")]]
    /\ spoiled' = spoiled \cup {f \in File : file[f] # good[f]}
    /\ UNCHANGED <<now, row, file, good, stored>>

Progress(s) ==
    \/ Acquire(s) \/ Refused(s) \/ Snapshot(s) \/ SnapshotFails(s)
    \/ Begin(s) \/ BeginFails(s)
    \/ ToolWrites(s) \/ ToolSucceeds(s) \/ NothingToDo(s) \/ ToolFails(s)
    \/ Commit(s) \/ CommitFails(s) \/ Announce(s) \/ AnnounceFails(s)
    \/ Restore(s) \/ RestoreFails(s) \/ Release(s) \/ ReleaseFails(s)
    \/ Mark(s) \/ MarkFails(s) \/ Publish(s) \/ PublishFails(s)

Next ==
    \/ \E s \in Run : Start(s) \/ Progress(s) \/ Cancel(s) \/ OrphanEnds(s) \/ CopyEnds(s)
    \/ Tick
    \/ Crash

Spec == Init /\ [][Next]_vars

\* Statements return, copies end, and every tool ends or is killed at its time-out.
FairSpec == Spec /\ \A s \in Run : WF_vars(Progress(s))

------------------------------------------------------------------------------
\* Type invariant: the lock table, the files and the local variables of the runs.
TypeOK ==
    /\ now \in 0..MaxTime
    /\ row \in [Resource -> Row]
    /\ file \in [File -> Content]
    /\ good \in [File -> Content]
    /\ spoiled \subseteq File
    /\ stored \subseteq Run
    /\ run \in [Run -> RunState]

\* Runs on one plugin are inside the lock one at a time, whatever is cancelled,
\* fails or dies, and whatever rows that leaves behind: locks.py "prevents race
\* conditions and VFS corruption when multiple agents modify MO2 resources in
\* parallel" (locks.py:8-9).
OneWriter ==
    \A s, t \in Run : s # t /\ FileOf[s] = FileOf[t] => ~(Inside(s) /\ Inside(t))

\* When nobody is inside, a plugin is what the last successful run left, or what
\* was there before: a run takes effect entirely or not at all, and restoring
\* never undoes somebody else's success (SnapshotTransactionLock, locks.py:441-442).
\* Spoiled plugins are those of a crash, of a run without a snapshot it could put
\* back, of an orphaned process and of a copy that outlived its task.
AllOrNothing ==
    \A f \in File :
        \/ \E s \in Run : FileOf[s] = f /\ Inside(s)
        \/ file[f] = good[f]
        \/ f \in spoiled

\* The completed event tells the front ends the truth: success means that the
\* journal has the transaction committed, rolled_back that the run's output is
\* not in the file, unless that could not be done.
HonestEvent ==
    \A s \in Run :
        /\ run[s].told = "success" => run[s].tx = "committed"
        /\ run[s].told = "rolled_back" /\ FileOf[s] \notin spoiled => MyFile(s).by # s

\* A committed transaction of Synthesis or xEdit stays committed, although
\* mark_transaction_rolled_back would overwrite it (journal.py:874-892).
CommittedFinal ==
    [][\A s \in Run : run[s].tx = "committed" => run'[s].tx = "committed"]_vars

\* A DynDOLOD run that has ended does not leave its transaction pending:
\* "NUNCA dejar TX en PENDING" (dyndolod_service.py:369).
NeverPending ==
    \A s \in Run : At(s, "done") /\ DynDOLOD(s) => run[s].tx # "pending"

\* Every call returns or raises: no await blocks for good, because contention,
\* failing statements and hanging tools all end (locks.py:257, the time-outs of
\* the runners).
RunsEnd == \A s \in Run : run[s].pc \in Await ~> run[s].pc \in {"done", "dead"}

\* The lock "is always released": no row without a run inside (locks.py:31-32).
LockReleased ==
    \A r \in Resource : row[r] # NoRow => \E s \in Run : LockOf[s] = r /\ Inside(s)

\* "On exception: files rolled back, then lock released" (locks.py:442): once a run
\* that was to be rolled back has ended, its output is not in the file.
RolledBack ==
    \A s \in Run :
        At(s, "done") /\ run[s].exc \in {"domain", "other", "cancel"} /\ run[s].snap # Missing
            => MyFile(s).by # s
==============================================================================
