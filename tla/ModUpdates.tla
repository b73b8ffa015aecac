------------------------------ MODULE ModUpdates ------------------------------
(***************************************************************************)
(* SyncEngine.check_for_updates, a task group with one task per mod, and   *)
(* the downloads the agent enqueues: metadata from a client with a circuit *)
(* breaker, the operator's approval (Approvals), a download that is tried  *)
(* again, the registry, and a journal transaction around it all.  The      *)
(* semaphores only delay a task: each is released however its holder ends. *)
(***************************************************************************)
EXTENDS Approvals

CONSTANTS
    Mod,           \* the mods of an update cycle; Mod \cup {Agent} are the request_ids
    Agent,         \* the download_mod call of the agent
    SameFile,      \* the mod whose file the agent downloads too
    MaxTries,      \* stop_after_attempt
    Threshold,     \* _CB_FAILURE_THRESHOLD
    MaxCycles,     \* bound: update cycles
    MaxCalls,      \* bound: calls of download_mod
    MaxFaults      \* bound: failures of the journal, the registry or a task

ASSUME UpdatesAssumption ==
    /\ Id = Mod \cup {Agent} /\ Agent \notin Mod /\ SameFile \in Mod
    /\ {MaxTries, Threshold, MaxCycles} \subseteq Nat \ {0} /\ {MaxCalls, MaxFaults} \subseteq Nat

File(j) == IF j = Agent THEN SameFile ELSE j

VARIABLES
    cycle,       \* check_for_updates, how often it was called, and download_mod
    job,         \* per mod and for the agent: where the task is and how often it has tried
    tx,          \* the journal transaction of an update
    stored,      \* the mods whose new version is in the registry
    file,        \* the download in the staging directory
    downloader,  \* is the engine given a downloader
    failures,    \* _failure_count of the breaker
    breaker,     \* its _state
    faults,      \* how often something has failed that should not (history)
    opened,      \* which of the two have opened the file they share (history)
    late         \* the updates that failed after the upsert (history)

engine == <<cycle, job, tx, stored, file, downloader, failures, breaker, faults, opened, late>>
vars == <<guard, channel, engine>>

Pcs == {"idle", "begin", "fetch", "fetching", "info", "ask", "download", "writing",
        "refuse", "upsert", "log", "commit", "mark", "done"}
Results == {"none", "updated", "current", "error", "isolated", "raised", "cancelled"}
Txs == {"none", "pending", "committed", "rolled_back"}

Fresh == [pc |-> "idle", try |-> 1, result |-> "none"]

Init ==
    /\ ApprovalsInit
    /\ cycle = [pc |-> "idle", count |-> 0, calls |-> 0]
    /\ job = [j \in Id |-> Fresh]
    /\ tx = [m \in Mod |-> "none"]
    /\ stored = {} /\ late = {} /\ opened = {}
    /\ file = [m \in Mod |-> "none"]
    /\ downloader \in BOOLEAN
    /\ failures = 0 /\ breaker = "closed"
    /\ faults = 0

At(j, pc) == job[j].pc = pc
Becomes(j, new) == job' = [job EXCEPT ![j] = new]
GoTo(j, pc) == Becomes(j, [job[j] EXCEPT !.pc = pc, !.try = 1])
Fault == faults < MaxFaults /\ faults' = faults + 1

\* The task's result is known; an update first commits or marks its transaction.
Ends(j, pc, result) == Becomes(j, [job[j] EXCEPT !.pc = pc, !.try = 1, !.result = result])

\* Mutated form: an update that fails leaves its transaction as it is.
FailsUnmarked(j, result) == Ends(j, "done", result)

Fails(j, result) == Ends(j, IF j \in Mod /\ tx[j] # "none" THEN "mark" ELSE "done", result)

------------------------------------------------------------------------------
(* The update of one mod. *)

StartCycle ==
    /\ cycle.pc \in {"idle", "returned", "raised"} /\ cycle.count < MaxCycles
    /\ cycle' = [cycle EXCEPT !.pc = "running", !.count = @ + 1]
    /\ job' = [j \in Id |-> IF j \in Mod THEN [Fresh EXCEPT !.pc = "begin"] ELSE job[j]]
    /\ tx' = [m \in Mod |-> "none"]
    /\ stored' = {} /\ late' = {}
    /\ UNCHANGED <<guard, channel, file, downloader, failures, breaker, faults, opened>>

Begin(m) ==
    /\ At(m, "begin")
    /\ \/ tx' = [tx EXCEPT ![m] = "pending"] /\ GoTo(m, "fetch") /\ UNCHANGED faults
       \/ Fault /\ Fails(m, "raised") /\ UNCHANGED tx
    /\ UNCHANGED <<guard, channel, cycle, stored, file, downloader, failures, breaker, opened, late>>

\* _safe_fetch_info: a failed attempt is followed by the next one or by an error.
Retry(m) ==
    IF job[m].try < MaxTries
    THEN Becomes(m, [job[m] EXCEPT !.pc = "fetch", !.try = @ + 1])
    ELSE Fails(m, "error")

\* fetch_mod_info while the breaker is open raises CircuitOpenError, which is retried.
Fetch(m) ==
    /\ At(m, "fetch")
    /\ IF breaker = "open" THEN Retry(m) ELSE Becomes(m, [job[m] EXCEPT !.pc = "fetching"])
    /\ UNCHANGED <<guard, channel, cycle, tx, stored, file, downloader, failures, breaker, faults, opened, late>>

RecordFailure ==
    /\ failures' = IF failures < Threshold THEN failures + 1 ELSE failures
    /\ breaker' = IF failures + 1 >= Threshold THEN "open" ELSE breaker

\* Without a version, with the local one, or without a downloader the update ends here.
FetchReturns(m) ==
    /\ At(m, "fetching")
    /\ failures' = 0 /\ breaker' = "closed"
    /\ \/ downloader /\ GoTo(m, "info")
       \/ ~downloader /\ Ends(m, "commit", "error")
       \/ \E result \in {"error", "current"} : Ends(m, "commit", result)
    /\ UNCHANGED <<guard, channel, cycle, tx, stored, file, downloader, faults, opened, late>>

\* A ClientError or a bad status is tried again; an OSError is not, and the wrapper of the
\* task keeps it to this mod.  The breaker does not count what is none of these: a
\* ValueError, or an error of the gateway, which the wrapper does not know either.
FetchFails(m) ==
    /\ At(m, "fetching")
    /\ \/ RecordFailure /\ (Retry(m) \/ Fails(m, "isolated"))
       \/ Fails(m, "isolated") /\ UNCHANGED <<failures, breaker>>
       \/ Fails(m, "raised") /\ UNCHANGED <<failures, breaker>>
    /\ UNCHANGED <<guard, channel, cycle, tx, stored, file, downloader, faults, opened, late>>

\* 60 s after the last failure.
BreakerRecovers ==
    /\ breaker = "open"
    /\ breaker' = "half-open"
    /\ UNCHANGED <<guard, channel, cycle, job, tx, stored, file, downloader, failures, faults, opened, late>>

\* get_file_info, with its attempts.  A ClientError is an error of this mod; a
\* DownloadError is none of those the update or its wrapper knows.
FileInfo(j) ==
    /\ At(j, "info")
    /\ \/ GoTo(j, "ask")
       \/ j \in Mod /\ \E result \in {"error", "isolated", "raised"} : Fails(j, result)
       \/ j = Agent /\ Ends(j, "done", "error")
    /\ UNCHANGED <<guard, channel, cycle, tx, stored, file, downloader, failures, breaker, faults, opened, late>>

Refused(j) == IF j = Agent THEN Ends(j, "done", "error") ELSE GoTo(j, "refuse")

\* Mutated form: TIMEOUT counts as consent.
DecidedNotDenied(j) ==
    /\ At(j, "ask")
    /\ \/ \E consent \in {"approved", "timeout"} : Answered(j, consent) /\ GoTo(j, "download")
       \/ Answered(j, "denied") /\ Refused(j)
    /\ UNCHANGED <<channel, cycle, tx, stored, file, downloader, failures, breaker, faults, opened, late>>

\* request_approval returns.  The agent's download goes on in a task of its own, which
\* asks for the file's metadata again.
Decided(j) ==
    /\ At(j, "ask")
    /\ \/ Answered(j, "approved") /\ GoTo(j, "download")
       \/ \E refusal \in {"denied", "timeout"} : Answered(j, refusal) /\ Refused(j)
    /\ UNCHANGED <<channel, cycle, tx, stored, file, downloader, failures, breaker, faults, opened, late>>

\* An update that was refused is marked as rolled back; here a failure is not swallowed.
Refuse(m) ==
    /\ At(m, "refuse")
    /\ \/ tx' = [tx EXCEPT ![m] = "rolled_back"] /\ Ends(m, "done", "error") /\ UNCHANGED faults
       \/ Fault /\ Fails(m, "raised") /\ UNCHANGED tx
    /\ UNCHANGED <<guard, channel, cycle, stored, file, downloader, failures, breaker, opened, late>>

Asks(j) ==
    /\ At(j, "ask")
    /\ Ask(j) \/ Waits(j)
    /\ UNCHANGED engine
------------------------------------------------------------------------------
(* The download into the staging directory. *)

Contents == {"none", "partial", "good"}
Shared(m) == m = SameFile /\ {SameFile, Agent} \subseteq opened
Leaves(j, contents) == file' = [file EXCEPT ![File(j)] = contents]
NotOurs == UNCHANGED <<guard, channel, cycle, tx, stored, downloader, failures, breaker, faults, late>>

Downloaded(j) == IF j = Agent THEN Ends(j, "done", "updated") ELSE GoTo(j, "upsert")

\* Mutated form: the update goes on without the file.
DownloadErrorIgnored(j) == IF j = Agent THEN Ends(j, "done", "error") ELSE GoTo(j, "upsert")

DownloadError(j) == IF j = Agent THEN Ends(j, "done", "error") ELSE Fails(j, "raised")

Opens(j) == opened' = IF File(j) = SameFile THEN opened \cup {j} ELSE opened

\* The file is opened under its final name, or it cannot be, or the request is refused.
OpenFile(j) ==
    /\ At(j, "download")
    /\ \/ Becomes(j, [job[j] EXCEPT !.pc = "writing"]) /\ Opens(j) /\ Leaves(j, "partial")
       \/ DownloadError(j) /\ UNCHANGED <<opened, file>>
       \/ j \in Mod /\ Fails(j, "isolated") /\ UNCHANGED <<opened, file>>
    /\ NotOurs

\* The bytes are all there and their MD5 is the one of the API.  Two downloads of one file
\* write, truncate and unlink each other's.
Written(j) ==
    /\ At(j, "writing")
    /\ \E contents \in IF Shared(File(j)) THEN Contents ELSE {"good"} : Leaves(j, contents)
    /\ Downloaded(j)
    /\ UNCHANGED opened /\ NotOurs

\* The connection breaks or the MD5 differs: what is there is removed, if it can be, and
\* the download tried again, depending on the error.
WriteFails(j) ==
    /\ At(j, "writing")
    /\ \E contents \in {"none", "partial"} : Leaves(j, contents)
    /\ \/ /\ job[j].try < MaxTries
          /\ Becomes(j, [job[j] EXCEPT !.pc = "download", !.try = @ + 1])
       \/ DownloadError(j)
    /\ UNCHANGED opened /\ NotOurs

\* Without a premium key the operator fetches the file, and what has the size that the API
\* tells is taken (the API is taken to tell one); or an hour passes, which is one more
\* DownloadError (OpenFile).
ManualDownload(j) ==
    /\ At(j, "download")
    /\ Leaves(j, "good") /\ Opens(j) /\ Downloaded(j)
    /\ NotOurs

------------------------------------------------------------------------------
(* The registry and the end of the transaction. *)

Upsert(m) ==
    /\ At(m, "upsert")
    /\ \/ stored' = stored \cup {m} /\ GoTo(m, "log") /\ UNCHANGED faults
       \/ Fault /\ Fails(m, "raised") /\ UNCHANGED stored
    /\ UNCHANGED <<guard, channel, cycle, tx, file, downloader, failures, breaker, opened, late>>

LogTask(m) ==
    /\ At(m, "log")
    /\ \/ Ends(m, "commit", "updated") /\ UNCHANGED <<faults, late>>
       \/ Fault /\ Fails(m, "raised") /\ late' = late \cup {m}
    /\ UNCHANGED <<guard, channel, cycle, tx, stored, file, downloader, failures, breaker, opened>>

Commit(m) ==
    /\ At(m, "commit")
    /\ \/ /\ tx' = [tx EXCEPT ![m] = "committed"]
          /\ GoTo(m, "done") /\ UNCHANGED <<faults, late>>
       \/ Fault /\ Fails(m, "raised") /\ late' = late \cup {m} /\ UNCHANGED tx
    /\ UNCHANGED <<guard, channel, cycle, stored, file, downloader, failures, breaker, opened>>

\* A marking that fails is only logged.
Mark(m) ==
    /\ At(m, "mark")
    /\ GoTo(m, "done")
    /\ \/ tx' = [tx EXCEPT ![m] = "rolled_back"] /\ UNCHANGED faults
       \/ Fault /\ UNCHANGED tx
    /\ UNCHANGED <<guard, channel, cycle, stored, file, downloader, failures, breaker, opened, late>>

------------------------------------------------------------------------------
(* The task group. *)

\* A task that raises makes the group cancel the others.
Aborts ==
    /\ cycle.pc = "running"
    /\ \E m \in Mod : At(m, "done") /\ job[m].result = "raised"
    /\ cycle' = [cycle EXCEPT !.pc = "aborting"]
    /\ UNCHANGED <<guard, channel, job, tx, stored, file, downloader, failures, breaker, faults, opened, late>>

\* What a cancelled task leaves: a statement in the database's thread is run or not, a
\* file stays as it is, and no handler marks the transaction.
CancelRequest(j) ==
    IF call[j] \in {"notify", "waiting"} THEN Abandon(j)
    ELSE /\ Calling(j, "idle")
         /\ UNCHANGED <<pending, decision, signalled, answer, forgotten, channel>>

CancelUpdate(m) ==
    /\ cycle.pc = "aborting" /\ job[m].pc \notin {"idle", "done"}
    /\ Ends(m, "done", "cancelled")
    /\ \E end \in CASE At(m, "begin") -> {"none", "pending"}
                    [] At(m, "commit") -> {"pending", "committed"}
                    [] At(m, "mark") \/ At(m, "refuse") -> {"pending", "rolled_back"}
                    [] OTHER -> {tx[m]} : tx' = [tx EXCEPT ![m] = end]
    /\ stored' \in {stored, IF At(m, "upsert") THEN stored \cup {m} ELSE stored}
    /\ CancelRequest(m)
    /\ UNCHANGED <<cycle, file, downloader, failures, breaker, faults, opened, late>>

CycleOver ==
    /\ cycle.pc \in {"running", "aborting"} /\ \A m \in Mod : At(m, "done")
    /\ cycle.pc = "running" => \A m \in Mod : job[m].result # "raised"
    /\ cycle' = [cycle EXCEPT !.pc = IF cycle.pc = "running" THEN "returned" ELSE "raised"]
    /\ UNCHANGED <<guard, channel, job, tx, stored, file, downloader, failures, breaker, faults, opened, late>>

------------------------------------------------------------------------------
(* The agent's download. *)

AgentDownloads ==
    /\ job[Agent].pc \in {"idle", "done"} /\ downloader
    /\ cycle.calls < MaxCalls /\ cycle' = [cycle EXCEPT !.calls = @ + 1]
    /\ Becomes(Agent, [Fresh EXCEPT !.pc = "info"])
    /\ UNCHANGED <<guard, channel, tx, stored, file, downloader, failures, breaker, faults, opened, late>>

\* Its call is cancelled, or shutdown() cancels what it has enqueued.
CancelAgent ==
    /\ job[Agent].pc \notin {"idle", "done"} /\ Fault
    /\ Ends(Agent, "done", "cancelled")
    /\ CancelRequest(Agent)
    /\ UNCHANGED <<cycle, tx, stored, file, downloader, failures, breaker, opened, late>>

------------------------------------------------------------------------------
Downloading(j) ==
    \/ FileInfo(j) \/ Asks(j) \/ Decided(j)
    \/ OpenFile(j) \/ Written(j) \/ WriteFails(j) \/ ManualDownload(j)
Updating(m) ==
    /\ cycle.pc = "running"
    /\ \/ Begin(m) \/ Fetch(m) \/ FetchReturns(m) \/ FetchFails(m)
       \/ Downloading(m)
       \/ Refuse(m) \/ Upsert(m) \/ LogTask(m) \/ Commit(m) \/ Mark(m)
Grouping == Aborts \/ CycleOver \/ \E m \in Mod : CancelUpdate(m)
Tasks == Grouping \/ Downloading(Agent) \/ \E m \in Mod : Updating(m)

Next ==
    \/ Tasks
    \/ StartCycle \/ BreakerRecovers \/ AgentDownloads \/ CancelAgent
    \/ Channel /\ UNCHANGED engine

Spec == Init /\ [][Next]_vars

------------------------------------------------------------------------------
\* Type invariant: the guard, the tasks, the journal, the breaker and the files.
TypeOK ==
    /\ ApprovalsTypeOK
    /\ cycle \in [pc : {"idle", "running", "aborting", "returned", "raised"}, count : 0..MaxCycles, calls : 0..MaxCalls]
    /\ job \in [Id -> [pc : Pcs, try : 1..MaxTries, result : Results]]
    /\ tx \in [Mod -> Txs] /\ stored \subseteq Mod /\ late \subseteq Mod /\ opened \subseteq Id
    /\ file \in [Mod -> Contents] /\ downloader \in BOOLEAN
    /\ failures \in 0..Threshold /\ breaker \in {"closed", "open", "half-open"}
    /\ faults \in 0..MaxFaults

\* "Step 2 - Mandatory HITL confirmation" (nexus_tools.py:117): nothing is fetched, and no
\* new version registered, for a request that was denied, ran out, was repeated or was
\* given up; the answer that counts is the last one taken for this very request.
NoneUnapproved ==
    \A j \in Id :
        \/ job[j].pc \in {"download", "writing", "upsert", "log"}
        \/ j \in stored
        => answer[j] = "approved"

\* Of what an update cycle leaves, journal, registry and results tell the same: a mod that
\* is reported as updated is committed and registered, what is marked as rolled back was
\* not registered, unless it failed after the upsert; and only a cancelled task, or a
\* marking that failed, leaves a transaction pending.
CycleTells ==
    cycle.pc \in {"returned", "raised"} =>
        \A m \in Mod :
            /\ cycle.pc = "returned" => job[m].result \in {"updated", "current", "error", "isolated"}
            /\ job[m].result = "updated" => tx[m] = "committed" /\ m \in stored
            /\ tx[m] = "rolled_back" => m \notin stored \ late
            /\ tx[m] = "pending" => job[m].result = "cancelled" \/ faults > 0

\* A version is registered only when its file is complete in the staging directory,
\* whatever failed, was tried again or was cancelled before, unless the agent and an update
\* download the same file.
Delivered == \A m \in stored : file[m] = "good" \/ Shared(m)

\* "a single mod failure never aborts the entire cycle" (sync_engine.py:374): a cycle
\* raises only if the journal or the registry has failed.
SingleFailureIsolated == cycle.pc = "raised" => faults > 0
==============================================================================
