---------------------------- MODULE ModUpdatesProofs ----------------------------
(***************************************************************************)
(* Type correctness of ModUpdates, that neither an update nor the agent    *)
(* fetches or registers a file without the operator's consent, and that    *)
(* journal, registry, results and files agree when a cycle is over.        *)
(*                                                                         *)
(* A task that has been told to go on relies on the answer that is in the  *)
(* guard, and later answers for its id would change that.  They are taken  *)
(* for a pending request only.  So the inductive invariant follows an id:  *)
(* a request is pending while its caller waits at "ask", or because its    *)
(* caller was cancelled while the prompt was sent; and then no later       *)
(* request with this id is let through, so that no task relies on it.      *)
(* On top of it Told follows each update, and Complete each file.          *)
(***************************************************************************)
EXTENDS ModUpdates, SequenceTheorems, TLAPS

Jobs == [pc : Pcs, try : 1..MaxTries, result : Results]

\* The places of a task that rely on the consent, and those after the registry's upsert.
Relying == {"download", "writing", "upsert", "log"}
Registered == {"log", "commit", "mark", "done"}

CallAtAsk == \A j \in Id : call[j] # "idle" => job[j].pc = "ask"

Asked ==
    \A j \in Id :
        call[j] \in {"notify", "waiting"} =>
            j \in pending /\ (decision[j] = "approved" => answer[j] = "approved")

Blocked ==
    \A j \in forgotten :
        /\ j \in pending /\ call[j] \in {"idle", "denied"}
        /\ job[j].pc \notin Relying /\ j \notin stored

StoredLate == \A m \in stored : job[m].pc \in Registered

Consent == CallAtAsk /\ Asked /\ ApprovedByAnswer /\ PendingHasCaller /\ Blocked /\ StoredLate /\ NoneUnapproved

\* Outside a cycle its tasks are not under way.
Between == cycle.pc \notin {"running", "aborting"} => \A m \in Mod : job[m].pc \in {"idle", "done"}

IInv == TypeOK /\ Between /\ Consent

------------------------------------------------------------------------------
(* What a step does to the tasks. *)

Moves(j, pcs) ==
    /\ job' \in [Id -> Jobs]
    /\ \A i \in Id \ {j} : job'[i] = job[i]
    /\ job'[j].pc \in pcs

LEMMA Becoming ==
    ASSUME TypeOK, NEW j \in Id, NEW new \in Jobs, Becomes(j, new)
    PROVE  Moves(j, {new.pc})
  BY DEF TypeOK, Becomes, Moves, Jobs

\* GoTo, Ends, Fails and Retry move one task.
LEMMA GoesTo ==
    ASSUME TypeOK, NEW j \in Id, NEW pc \in Pcs, GoTo(j, pc)
    PROVE  Moves(j, {pc})
  <1> DEFINE new == [job[j] EXCEPT !.pc = pc, !.try = 1]
  <1>1. job[j] \in Jobs  BY DEF TypeOK, Jobs
  <1>2. 1 \in 1..MaxTries  BY UpdatesAssumption
  <1>3. new \in Jobs /\ new.pc = pc  BY <1>1, <1>2 DEF Jobs
  <1>4. Becomes(j, new)  BY DEF GoTo
  <1> HIDE DEF new
  <1> QED  BY <1>3, <1>4, Becoming

LEMMA Ended ==
    ASSUME TypeOK, NEW j \in Id, NEW pc \in Pcs, NEW result \in Results, Ends(j, pc, result)
    PROVE  Moves(j, {pc})
  <1> DEFINE new == [job[j] EXCEPT !.pc = pc, !.try = 1, !.result = result]
  <1>1. job[j] \in Jobs  BY DEF TypeOK, Jobs
  <1>2. 1 \in 1..MaxTries  BY UpdatesAssumption
  <1>3. new \in Jobs /\ new.pc = pc  BY <1>1, <1>2 DEF Jobs
  <1>4. Becomes(j, new)  BY DEF Ends
  <1> HIDE DEF new
  <1> QED  BY <1>3, <1>4, Becoming

LEMMA Failed ==
    ASSUME TypeOK, NEW j \in Id, NEW result \in Results, Fails(j, result)
    PROVE  Moves(j, {"mark", "done"})
  <1>1. CASE j \in Mod /\ tx[j] # "none"
    <2>1. Ends(j, "mark", result)  BY <1>1 DEF Fails
    <2> QED  BY <2>1, Ended DEF Pcs, Moves
  <1>2. CASE ~(j \in Mod /\ tx[j] # "none")
    <2>1. Ends(j, "done", result)  BY <1>2 DEF Fails
    <2> QED  BY <2>1, Ended DEF Pcs, Moves
  <1> QED  BY <1>1, <1>2

LEMMA Steps ==
    ASSUME TypeOK, NEW j \in Id, NEW pc \in Pcs, Becomes(j, [job[j] EXCEPT !.pc = pc])
    PROVE  Moves(j, {pc})
  <1> DEFINE new == [job[j] EXCEPT !.pc = pc]
  <1>1. new \in Jobs /\ new.pc = pc  BY DEF TypeOK, Jobs
  <1>2. Becomes(j, new)  OBVIOUS
  <1> HIDE DEF new
  <1> QED  BY <1>1, <1>2, Becoming

LEMMA TriesAgain ==
    ASSUME TypeOK, NEW j \in Id, NEW pc \in Pcs, job[j].try < MaxTries,
           Becomes(j, [job[j] EXCEPT !.pc = pc, !.try = @ + 1])
    PROVE  Moves(j, {pc})
  <1> DEFINE new == [job[j] EXCEPT !.pc = pc, !.try = @ + 1]
  <1>1. job[j] \in Jobs  BY DEF TypeOK, Jobs
  <1>2. job[j].try + 1 \in 1..MaxTries  BY <1>1, UpdatesAssumption DEF Jobs
  <1>3. new \in Jobs /\ new.pc = pc  BY <1>1, <1>2 DEF Jobs
  <1>4. Becomes(j, new)  OBVIOUS
  <1> HIDE DEF new
  <1> QED  BY <1>3, <1>4, Becoming

LEMMA Retried ==
    ASSUME TypeOK, NEW j \in Id, Retry(j)
    PROVE  Moves(j, {"fetch", "mark", "done"})
  <1>1. CASE job[j].try < MaxTries
    <2>1. Becomes(j, [job[j] EXCEPT !.pc = "fetch", !.try = @ + 1])  BY <1>1 DEF Retry
    <2> QED  BY <1>1, <2>1, TriesAgain DEF Pcs, Moves
  <1>2. CASE ~(job[j].try < MaxTries)
    <2>1. Fails(j, "error")  BY <1>2 DEF Retry
    <2> QED  BY <2>1, Failed DEF Results, Moves
  <1> QED  BY <1>1, <1>2

------------------------------------------------------------------------------
(* Steps of a task that is not at "ask". *)

JobStep(j) ==
    /\ UNCHANGED <<call, pending, decision, signalled, answer, forgotten>>
    /\ job[j].pc # "ask"
    /\ \A i \in Id \ {j} : job'[i] = job[i]
    /\ job'[j].pc \in Relying => job[j].pc \in Relying
    /\ \A m \in stored' : m \in stored \/ (m = j /\ job[j].pc = "upsert" /\ job'[j].pc \in Registered)
    /\ j \in stored => job'[j].pc \in Registered

LEMMA StepKeepsConsent ==
    ASSUME IInv, NEW j \in Id, JobStep(j), stored' \subseteq Mod
    PROVE  Consent'
  <1> USE DEF IInv, Consent, JobStep
  <1>0. stored' \subseteq Id /\ forgotten \subseteq Id  BY UpdatesAssumption DEF TypeOK, ApprovalsTypeOK
  <1>1. CallAtAsk'  BY DEF CallAtAsk
  <1>2. Asked'  BY DEF Asked
  <1>3. ApprovedByAnswer'  BY DEF ApprovedByAnswer
  <1>4. PendingHasCaller'  BY DEF PendingHasCaller
  <1>5. Blocked'  BY <1>0 DEF Blocked, Relying
  <1>6. StoredLate'  BY <1>0 DEF StoredLate
  <1>7. NoneUnapproved'
    <2> SUFFICES ASSUME NEW i \in Id, job'[i].pc \in Relying \/ i \in stored'
                 PROVE  answer[i] = "approved"
      BY DEF NoneUnapproved, Relying
    <2>1. job[i].pc \in Relying \/ i \in stored  BY DEF Relying
    <2> QED  BY <2>1 DEF NoneUnapproved, Relying
  <1> QED  BY <1>1, <1>2, <1>3, <1>4, <1>5, <1>6, <1>7

LEMMA SameApprovals ==
    ASSUME ApprovalsTypeOK, UNCHANGED <<guard, channel>>
    PROVE  ApprovalsTypeOK'
  <1>1. /\ call' = call /\ pending' = pending /\ decision' = decision /\ signalled' = signalled
        /\ answer' = answer /\ forgotten' = forgotten
    BY DEF guard
  <1>2. /\ operator' = operator /\ authorised' = authorised /\ mail' = mail /\ sent' = sent
    BY DEF channel
  <1> QED  BY <1>1, <1>2 DEF ApprovalsTypeOK

LEMMA DownloadErrorMoves ==
    ASSUME TypeOK, NEW j \in Id, DownloadError(j)
    PROVE  Moves(j, {"mark", "done"})
  <1>1. CASE j = Agent  BY <1>1, Ended DEF DownloadError, Pcs, Results, Moves
  <1>2. CASE j # Agent  BY <1>2, Failed DEF DownloadError, Results, Moves
  <1> QED  BY <1>1, <1>2

LEMMA DownloadedMoves ==
    ASSUME TypeOK, NEW j \in Id, Downloaded(j)
    PROVE  Moves(j, {"upsert", "done"})
  <1>1. CASE j = Agent  BY <1>1, Ended DEF Downloaded, Pcs, Results, Moves
  <1>2. CASE j # Agent  BY <1>2, GoesTo DEF Downloaded, Pcs, Moves
  <1> QED  BY <1>1, <1>2

LEMMA LeavesType ==
    ASSUME TypeOK, NEW j \in Id, NEW contents \in Contents, Leaves(j, contents)
    PROVE  file' \in [Mod -> Contents]
  BY UpdatesAssumption DEF TypeOK, Leaves, File

LEMMA BeginStep ==
    ASSUME IInv, NEW m \in Mod, Begin(m)
    PROVE  TypeOK' /\ JobStep(m)
  <1>0. TypeOK /\ ApprovalsTypeOK /\ m \in Id  BY UpdatesAssumption DEF IInv, TypeOK
  <1>1. Moves(m, {"fetch", "mark", "done"})
    <2>1. CASE GoTo(m, "fetch")  BY <1>0, <2>1, GoesTo DEF Pcs, Moves
    <2>2. CASE Fails(m, "raised")  BY <1>0, <2>2, Failed DEF Results, Moves
    <2> QED  BY <2>1, <2>2 DEF Begin
  <1>2. ApprovalsTypeOK'  BY <1>0, SameApprovals DEF Begin
  <1>3. tx' \in [Mod -> Txs]  BY <1>0 DEF Begin, TypeOK, Txs
  <1>4. faults' \in 0..MaxFaults  BY <1>0, UpdatesAssumption DEF Begin, TypeOK, Fault
  <1>5. TypeOK'
    BY <1>0, <1>1, <1>2, <1>3, <1>4 DEF Begin, TypeOK, Moves, Jobs
  <1>6. JobStep(m)
    BY <1>0, <1>1 DEF Begin, JobStep, guard, Moves, At, Relying, IInv, Consent, StoredLate, Registered
  <1> QED  BY <1>5, <1>6

LEMMA FetchStep ==
    ASSUME IInv, NEW m \in Mod, Fetch(m)
    PROVE  TypeOK' /\ JobStep(m)
  <1>0. TypeOK /\ ApprovalsTypeOK /\ m \in Id  BY UpdatesAssumption DEF IInv, TypeOK
  <1>1. Moves(m, {"fetch", "fetching", "mark", "done"})
    <2>1. CASE Retry(m)  BY <1>0, <2>1, Retried DEF Moves
    <2>2. CASE Becomes(m, [job[m] EXCEPT !.pc = "fetching"])  BY <1>0, <2>2, Steps DEF Pcs, Moves
    <2> QED  BY <2>1, <2>2 DEF Fetch
  <1>2. ApprovalsTypeOK'  BY <1>0, SameApprovals DEF Fetch
  <1>3. TypeOK'
    BY <1>0, <1>1, <1>2 DEF Fetch, TypeOK, Moves, Jobs
  <1>4. JobStep(m)
    BY <1>0, <1>1 DEF Fetch, JobStep, guard, Moves, At, Relying, IInv, Consent, StoredLate, Registered
  <1> QED  BY <1>3, <1>4

LEMMA FetchReturnsStep ==
    ASSUME IInv, NEW m \in Mod, FetchReturns(m)
    PROVE  TypeOK' /\ JobStep(m)
  <1>0. TypeOK /\ ApprovalsTypeOK /\ m \in Id  BY UpdatesAssumption DEF IInv, TypeOK
  <1>1. Moves(m, {"info", "commit"})
    <2>1. CASE GoTo(m, "info")  BY <1>0, <2>1, GoesTo DEF Pcs, Moves
    <2>2. CASE \E result \in {"error", "current"} : Ends(m, "commit", result)  BY <1>0, <2>2, Ended DEF Pcs, Results, Moves
    <2> QED  BY <2>1, <2>2 DEF FetchReturns
  <1>2. ApprovalsTypeOK'  BY <1>0, SameApprovals DEF FetchReturns
  <1>3. failures' \in 0..Threshold  BY <1>0, UpdatesAssumption DEF FetchReturns
  <1>4. TypeOK'
    BY <1>0, <1>1, <1>2, <1>3 DEF FetchReturns, TypeOK, Moves, Jobs
  <1>5. JobStep(m)
    BY <1>0, <1>1 DEF FetchReturns, JobStep, guard, Moves, At, Relying, IInv, Consent, StoredLate, Registered
  <1> QED  BY <1>4, <1>5

LEMMA FetchFailsStep ==
    ASSUME IInv, NEW m \in Mod, FetchFails(m)
    PROVE  TypeOK' /\ JobStep(m)
  <1>0. TypeOK /\ ApprovalsTypeOK /\ m \in Id  BY UpdatesAssumption DEF IInv, TypeOK
  <1>1. Moves(m, {"fetch", "mark", "done"})
    <2>1. CASE Retry(m)  BY <1>0, <2>1, Retried DEF Moves
    <2>2. CASE \E result \in {"isolated", "raised"} : Fails(m, result)  BY <1>0, <2>2, Failed DEF Results, Moves
    <2> QED  BY <2>1, <2>2 DEF FetchFails
  <1>2. ApprovalsTypeOK'  BY <1>0, SameApprovals DEF FetchFails
  <1>3. failures' \in 0..Threshold  BY <1>0, UpdatesAssumption DEF FetchFails, RecordFailure, TypeOK
  <1>4. breaker' \in {"closed", "open", "half-open"}  BY <1>0 DEF FetchFails, RecordFailure, TypeOK
  <1>5. TypeOK'
    BY <1>0, <1>1, <1>2, <1>3, <1>4 DEF FetchFails, TypeOK, Moves, Jobs
  <1>6. JobStep(m)
    BY <1>0, <1>1 DEF FetchFails, JobStep, guard, Moves, At, Relying, IInv, Consent, StoredLate, Registered
  <1> QED  BY <1>5, <1>6

LEMMA FileInfoStep ==
    ASSUME IInv, NEW j \in Id, FileInfo(j)
    PROVE  TypeOK' /\ JobStep(j)
  <1>0. TypeOK /\ ApprovalsTypeOK /\ j \in Id  BY UpdatesAssumption DEF IInv, TypeOK
  <1>1. Moves(j, {"ask", "mark", "done"})
    <2>1. CASE GoTo(j, "ask")  BY <1>0, <2>1, GoesTo DEF Pcs, Moves
    <2>2. CASE \E result \in {"error", "isolated", "raised"} : Fails(j, result)  BY <1>0, <2>2, Failed DEF Results, Moves
    <2>3. CASE Ends(j, "done", "error")  BY <1>0, <2>3, Ended DEF Pcs, Results, Moves
    <2> QED  BY <2>1, <2>2, <2>3 DEF FileInfo
  <1>2. ApprovalsTypeOK'  BY <1>0, SameApprovals DEF FileInfo
  <1>3. TypeOK'
    BY <1>0, <1>1, <1>2 DEF FileInfo, TypeOK, Moves, Jobs
  <1>4. JobStep(j)
    BY <1>0, <1>1 DEF FileInfo, JobStep, guard, Moves, At, Relying, IInv, Consent, StoredLate, Registered
  <1> QED  BY <1>3, <1>4

LEMMA OpenFileStep ==
    ASSUME IInv, NEW j \in Id, OpenFile(j)
    PROVE  TypeOK' /\ JobStep(j)
  <1>0. TypeOK /\ ApprovalsTypeOK /\ j \in Id  BY UpdatesAssumption DEF IInv, TypeOK
  <1>1. Moves(j, {"writing", "mark", "done"})
    <2>1. CASE Becomes(j, [job[j] EXCEPT !.pc = "writing"])  BY <1>0, <2>1, Steps DEF Pcs, Moves
    <2>2. CASE DownloadError(j)  BY <1>0, <2>2, DownloadErrorMoves DEF Moves
    <2>3. CASE Fails(j, "isolated")  BY <1>0, <2>3, Failed DEF Results, Moves
    <2> QED  BY <2>1, <2>2, <2>3 DEF OpenFile, NotOurs
  <1>2. ApprovalsTypeOK'  BY <1>0, SameApprovals DEF OpenFile, NotOurs
  <1>3. opened' \subseteq Id  BY <1>0 DEF OpenFile, Opens, TypeOK
  <1>4. file' \in [Mod -> Contents]  BY <1>0, LeavesType DEF OpenFile, Contents, TypeOK
  <1>5. TypeOK'
    BY <1>0, <1>1, <1>2, <1>3, <1>4 DEF OpenFile, NotOurs, TypeOK, Moves, Jobs
  <1>6. JobStep(j)
    BY <1>0, <1>1 DEF OpenFile, NotOurs, JobStep, guard, Moves, At, Relying, IInv, Consent, StoredLate, Registered
  <1> QED  BY <1>5, <1>6

LEMMA WrittenStep ==
    ASSUME IInv, NEW j \in Id, Written(j)
    PROVE  TypeOK' /\ JobStep(j)
  <1>0. TypeOK /\ ApprovalsTypeOK /\ j \in Id  BY UpdatesAssumption DEF IInv, TypeOK
  <1>1. Moves(j, {"upsert", "done"})
    <2>1. CASE Downloaded(j)  BY <1>0, <2>1, DownloadedMoves DEF Moves
    <2> QED  BY <2>1 DEF Written, NotOurs
  <1>2. ApprovalsTypeOK'  BY <1>0, SameApprovals DEF Written, NotOurs
  <1>3. file' \in [Mod -> Contents]  BY <1>0, LeavesType DEF Written, Contents, TypeOK
  <1>4. TypeOK'
    BY <1>0, <1>1, <1>2, <1>3 DEF Written, NotOurs, TypeOK, Moves, Jobs
  <1>5. JobStep(j)
    BY <1>0, <1>1 DEF Written, NotOurs, JobStep, guard, Moves, At, Relying, IInv, Consent, StoredLate, Registered
  <1> QED  BY <1>4, <1>5

LEMMA WriteFailsStep ==
    ASSUME IInv, NEW j \in Id, WriteFails(j)
    PROVE  TypeOK' /\ JobStep(j)
  <1>0. TypeOK /\ ApprovalsTypeOK /\ j \in Id  BY UpdatesAssumption DEF IInv, TypeOK
  <1>1. Moves(j, {"download", "mark", "done"})
    <2>1. CASE job[j].try < MaxTries /\ Becomes(j, [job[j] EXCEPT !.pc = "download", !.try = @ + 1])  BY <1>0, <2>1, TriesAgain DEF Pcs, Moves
    <2>2. CASE DownloadError(j)  BY <1>0, <2>2, DownloadErrorMoves DEF Moves
    <2> QED  BY <2>1, <2>2 DEF WriteFails, NotOurs
  <1>2. ApprovalsTypeOK'  BY <1>0, SameApprovals DEF WriteFails, NotOurs
  <1>3. file' \in [Mod -> Contents]  BY <1>0, LeavesType DEF WriteFails, Contents, TypeOK
  <1>4. TypeOK'
    BY <1>0, <1>1, <1>2, <1>3 DEF WriteFails, NotOurs, TypeOK, Moves, Jobs
  <1>5. JobStep(j)
    BY <1>0, <1>1 DEF WriteFails, NotOurs, JobStep, guard, Moves, At, Relying, IInv, Consent, StoredLate, Registered
  <1> QED  BY <1>4, <1>5

LEMMA ManualDownloadStep ==
    ASSUME IInv, NEW j \in Id, ManualDownload(j)
    PROVE  TypeOK' /\ JobStep(j)
  <1>0. TypeOK /\ ApprovalsTypeOK /\ j \in Id  BY UpdatesAssumption DEF IInv, TypeOK
  <1>1. Moves(j, {"upsert", "done"})
    <2>1. CASE Downloaded(j)  BY <1>0, <2>1, DownloadedMoves DEF Moves
    <2> QED  BY <2>1 DEF ManualDownload, NotOurs
  <1>2. ApprovalsTypeOK'  BY <1>0, SameApprovals DEF ManualDownload, NotOurs
  <1>3. opened' \subseteq Id  BY <1>0 DEF ManualDownload, Opens, TypeOK
  <1>4. file' \in [Mod -> Contents]  BY <1>0, LeavesType DEF ManualDownload, Contents, TypeOK
  <1>5. TypeOK'
    BY <1>0, <1>1, <1>2, <1>3, <1>4 DEF ManualDownload, NotOurs, TypeOK, Moves, Jobs
  <1>6. JobStep(j)
    BY <1>0, <1>1 DEF ManualDownload, NotOurs, JobStep, guard, Moves, At, Relying, IInv, Consent, StoredLate, Registered
  <1> QED  BY <1>5, <1>6

LEMMA UpsertStep ==
    ASSUME IInv, NEW m \in Mod, Upsert(m)
    PROVE  TypeOK' /\ JobStep(m)
  <1>0. TypeOK /\ ApprovalsTypeOK /\ m \in Id  BY UpdatesAssumption DEF IInv, TypeOK
  <1>1. Moves(m, {"log", "mark", "done"})
    <2>1. CASE GoTo(m, "log")  BY <1>0, <2>1, GoesTo DEF Pcs, Moves
    <2>2. CASE Fails(m, "raised")  BY <1>0, <2>2, Failed DEF Results, Moves
    <2> QED  BY <2>1, <2>2 DEF Upsert
  <1>2. ApprovalsTypeOK'  BY <1>0, SameApprovals DEF Upsert
  <1>3. faults' \in 0..MaxFaults  BY <1>0, UpdatesAssumption DEF Upsert, TypeOK, Fault
  <1>4. stored' \subseteq Mod  BY <1>0 DEF Upsert, TypeOK
  <1>5. TypeOK'
    BY <1>0, <1>1, <1>2, <1>3, <1>4 DEF Upsert, TypeOK, Moves, Jobs
  <1>6. JobStep(m)
    BY <1>0, <1>1 DEF Upsert, JobStep, guard, Moves, At, Relying, IInv, Consent, StoredLate, Registered
  <1> QED  BY <1>5, <1>6

LEMMA LogTaskStep ==
    ASSUME IInv, NEW m \in Mod, LogTask(m)
    PROVE  TypeOK' /\ JobStep(m)
  <1>0. TypeOK /\ ApprovalsTypeOK /\ m \in Id  BY UpdatesAssumption DEF IInv, TypeOK
  <1>1. Moves(m, {"commit", "mark", "done"})
    <2>1. CASE Ends(m, "commit", "updated")  BY <1>0, <2>1, Ended DEF Pcs, Results, Moves
    <2>2. CASE Fails(m, "raised")  BY <1>0, <2>2, Failed DEF Results, Moves
    <2> QED  BY <2>1, <2>2 DEF LogTask
  <1>2. ApprovalsTypeOK'  BY <1>0, SameApprovals DEF LogTask
  <1>3. faults' \in 0..MaxFaults  BY <1>0, UpdatesAssumption DEF LogTask, TypeOK, Fault
  <1>4. late' \subseteq Mod  BY <1>0 DEF LogTask, TypeOK
  <1>5. TypeOK'
    BY <1>0, <1>1, <1>2, <1>3, <1>4 DEF LogTask, TypeOK, Moves, Jobs
  <1>6. JobStep(m)
    BY <1>0, <1>1 DEF LogTask, JobStep, guard, Moves, At, Relying, IInv, Consent, StoredLate, Registered
  <1> QED  BY <1>5, <1>6

LEMMA CommitStep ==
    ASSUME IInv, NEW m \in Mod, Commit(m)
    PROVE  TypeOK' /\ JobStep(m)
  <1>0. TypeOK /\ ApprovalsTypeOK /\ m \in Id  BY UpdatesAssumption DEF IInv, TypeOK
  <1>1. Moves(m, {"mark", "done"})
    <2>1. CASE GoTo(m, "done")  BY <1>0, <2>1, GoesTo DEF Pcs, Moves
    <2>2. CASE Fails(m, "raised")  BY <1>0, <2>2, Failed DEF Results, Moves
    <2> QED  BY <2>1, <2>2 DEF Commit
  <1>2. ApprovalsTypeOK'  BY <1>0, SameApprovals DEF Commit
  <1>3. faults' \in 0..MaxFaults  BY <1>0, UpdatesAssumption DEF Commit, TypeOK, Fault
  <1>4. tx' \in [Mod -> Txs]  BY <1>0 DEF Commit, TypeOK, Txs
  <1>5. late' \subseteq Mod  BY <1>0 DEF Commit, TypeOK
  <1>6. TypeOK'
    BY <1>0, <1>1, <1>2, <1>3, <1>4, <1>5 DEF Commit, TypeOK, Moves, Jobs
  <1>7. JobStep(m)
    BY <1>0, <1>1 DEF Commit, JobStep, guard, Moves, At, Relying, IInv, Consent, StoredLate, Registered
  <1> QED  BY <1>6, <1>7

LEMMA MarkStep ==
    ASSUME IInv, NEW m \in Mod, Mark(m)
    PROVE  TypeOK' /\ JobStep(m)
  <1>0. TypeOK /\ ApprovalsTypeOK /\ m \in Id  BY UpdatesAssumption DEF IInv, TypeOK
  <1>1. Moves(m, {"done"})
    <2>1. CASE GoTo(m, "done")  BY <1>0, <2>1, GoesTo DEF Pcs, Moves
    <2> QED  BY <2>1 DEF Mark
  <1>2. ApprovalsTypeOK'  BY <1>0, SameApprovals DEF Mark
  <1>3. faults' \in 0..MaxFaults  BY <1>0, UpdatesAssumption DEF Mark, TypeOK, Fault
  <1>4. tx' \in [Mod -> Txs]  BY <1>0 DEF Mark, TypeOK, Txs
  <1>5. TypeOK'
    BY <1>0, <1>1, <1>2, <1>3, <1>4 DEF Mark, TypeOK, Moves, Jobs
  <1>6. JobStep(m)
    BY <1>0, <1>1 DEF Mark, JobStep, guard, Moves, At, Relying, IInv, Consent, StoredLate, Registered
  <1> QED  BY <1>5, <1>6

LEMMA RefuseStep ==
    ASSUME IInv, NEW m \in Mod, Refuse(m)
    PROVE  TypeOK' /\ JobStep(m)
  <1>0. TypeOK /\ ApprovalsTypeOK /\ m \in Id  BY UpdatesAssumption DEF IInv, TypeOK
  <1>1. Moves(m, {"mark", "done"})
    <2>1. CASE Ends(m, "done", "error")  BY <1>0, <2>1, Ended DEF Pcs, Results, Moves
    <2>2. CASE Fails(m, "raised")  BY <1>0, <2>2, Failed DEF Results, Moves
    <2> QED  BY <2>1, <2>2 DEF Refuse
  <1>2. ApprovalsTypeOK'  BY <1>0, SameApprovals DEF Refuse
  <1>3. tx' \in [Mod -> Txs]  BY <1>0 DEF Refuse, TypeOK, Txs
  <1>4. faults' \in 0..MaxFaults  BY <1>0, UpdatesAssumption DEF Refuse, TypeOK, Fault
  <1>5. TypeOK'  BY <1>0, <1>1, <1>2, <1>3, <1>4 DEF Refuse, TypeOK, Moves, Jobs
  <1>6. JobStep(m)
    BY <1>0, <1>1 DEF Refuse, JobStep, guard, Moves, At, Relying, IInv, Consent, StoredLate, Registered
  <1> QED  BY <1>5, <1>6

------------------------------------------------------------------------------
(* Steps of the group, the agent and the breaker. *)

LEMMA StartCycleStep ==
    ASSUME IInv, StartCycle
    PROVE  IInv'
  <1>0. TypeOK /\ ApprovalsTypeOK  BY DEF IInv, TypeOK
  <1>1. \A i \in Id : job'[i] = IF i \in Mod THEN [Fresh EXCEPT !.pc = "begin"] ELSE job[i]
    BY DEF StartCycle
  <1>2. [Fresh EXCEPT !.pc = "begin"] \in Jobs /\ [Fresh EXCEPT !.pc = "begin"].pc = "begin"
    BY UpdatesAssumption DEF Fresh, Jobs, Pcs, Results
  <1>3. job' \in [Id -> Jobs]  BY <1>0, <1>2 DEF StartCycle, TypeOK, Jobs
  <1>4. ApprovalsTypeOK'  BY <1>0, SameApprovals DEF StartCycle
  <1>5. cycle' \in [pc : {"idle", "running", "aborting", "returned", "raised"}, count : 0..MaxCycles, calls : 0..MaxCalls]
    <2>1. cycle.count + 1 \in 0..MaxCycles  BY <1>0, UpdatesAssumption DEF StartCycle, TypeOK
    <2> QED  BY <1>0, <2>1 DEF StartCycle, TypeOK
  <1>6. tx' \in [Mod -> Txs] /\ stored' = {} /\ late' = {}  BY DEF StartCycle, Txs
  <1>7. TypeOK'  BY <1>0, <1>3, <1>4, <1>5, <1>6 DEF StartCycle, TypeOK, Jobs
  <1>8. UNCHANGED <<call, pending, decision, signalled, answer, forgotten>>  BY DEF StartCycle, guard
  <1>9. \A i \in Id : job'[i] = job[i] \/ (i \in Mod /\ job[i].pc # "ask" /\ job'[i].pc = "begin")
    BY <1>1, <1>2 DEF StartCycle, IInv, Between
  <1>10. Consent'
    <2>1. forgotten \subseteq Id /\ pending \subseteq Id  BY <1>0 DEF ApprovalsTypeOK
    <2>2. CallAtAsk'  BY <1>8, <1>9 DEF IInv, Consent, CallAtAsk
    <2>3. Asked' /\ ApprovedByAnswer' /\ PendingHasCaller'
      BY <1>8 DEF IInv, Consent, Asked, ApprovedByAnswer, PendingHasCaller
    <2>4. Blocked'  BY <1>6, <1>8, <1>9, <2>1 DEF IInv, Consent, Blocked, Relying
    <2>5. StoredLate'  BY <1>6 DEF StoredLate
    <2>6. NoneUnapproved'  BY <1>6, <1>8, <1>9 DEF IInv, Consent, NoneUnapproved
    <2> QED  BY <2>2, <2>3, <2>4, <2>5, <2>6 DEF Consent
  <1>11. Between'  BY <1>0 DEF StartCycle, TypeOK, Between
  <1> QED  BY <1>7, <1>10, <1>11 DEF IInv

LEMMA AgentDownloadsStep ==
    ASSUME IInv, AgentDownloads
    PROVE  TypeOK' /\ JobStep(Agent)
  <1>0. TypeOK /\ ApprovalsTypeOK /\ Agent \in Id  BY UpdatesAssumption DEF IInv, TypeOK
  <1> DEFINE new == [Fresh EXCEPT !.pc = "info"]
  <1>1. new \in Jobs /\ new.pc = "info"  BY UpdatesAssumption DEF Fresh, Jobs, Pcs, Results
  <1>2. Becomes(Agent, new)  BY DEF AgentDownloads
  <1> HIDE DEF new
  <1>3. Moves(Agent, {"info"})  BY <1>0, <1>1, <1>2, Becoming
  <1>4. ApprovalsTypeOK'  BY <1>0, SameApprovals DEF AgentDownloads
  <1>5. cycle' \in [pc : {"idle", "running", "aborting", "returned", "raised"}, count : 0..MaxCycles, calls : 0..MaxCalls]
    BY <1>0, UpdatesAssumption DEF AgentDownloads, TypeOK
  <1>6. TypeOK'  BY <1>0, <1>3, <1>4, <1>5 DEF AgentDownloads, TypeOK, Moves, Jobs
  <1>7. JobStep(Agent)
    BY <1>0, <1>3, UpdatesAssumption DEF AgentDownloads, JobStep, guard, Moves, Relying, TypeOK
  <1> QED  BY <1>6, <1>7

\* Steps that only change where the cycle or the breaker is.
LEMMA GroupStep ==
    ASSUME IInv, Aborts \/ CycleOver \/ BreakerRecovers
    PROVE  IInv'
  <1>0. TypeOK /\ ApprovalsTypeOK  BY DEF IInv, TypeOK
  <1>1. ApprovalsTypeOK'  BY <1>0, SameApprovals DEF Aborts, CycleOver, BreakerRecovers
  <1>2. cycle' \in [pc : {"idle", "running", "aborting", "returned", "raised"}, count : 0..MaxCycles, calls : 0..MaxCalls]
    BY <1>0 DEF Aborts, CycleOver, BreakerRecovers, TypeOK
  <1>3. job' = job /\ stored' = stored  BY DEF Aborts, CycleOver, BreakerRecovers
  <1>4. UNCHANGED <<call, pending, decision, signalled, answer, forgotten>>
    BY DEF Aborts, CycleOver, BreakerRecovers, guard
  <1>5. TypeOK'  BY <1>0, <1>1, <1>2, <1>3 DEF Aborts, CycleOver, BreakerRecovers, TypeOK
  <1>6. Between'
    <2>1. CASE Aborts  BY <1>0, <2>1 DEF Aborts, Between, TypeOK
    <2>2. CASE CycleOver  BY <1>0, <2>2 DEF CycleOver, Between, TypeOK, At
    <2>3. CASE BreakerRecovers  BY <2>3 DEF BreakerRecovers, Between, IInv
    <2> QED  BY <2>1, <2>2, <2>3
  <1>7. Consent'
    BY <1>3, <1>4
    DEF IInv, Consent, CallAtAsk, Asked, ApprovedByAnswer, PendingHasCaller, Blocked, StoredLate, NoneUnapproved
  <1> QED  BY <1>5, <1>6, <1>7 DEF IInv

------------------------------------------------------------------------------
(* Steps of the guard. *)

\* The guard's part of the invariant, and what the tasks rely on.
LEMMA AsksStep ==
    ASSUME IInv, NEW j \in Id, Asks(j)
    PROVE  IInv'
  <1>0. TypeOK /\ ApprovalsTypeOK /\ j \in Id /\ job[j].pc = "ask"  BY DEF IInv, TypeOK, Asks, At
  <1>1. job' = job /\ stored' = stored /\ cycle' = cycle  BY DEF Asks, engine
  <1>2. j \notin stored
    BY <1>0 DEF IInv, Consent, StoredLate, Registered
  <1>3. operator' = operator /\ authorised' = authorised /\ mail' = mail /\ sent' = sent
    BY DEF Asks, Ask, Waits, Notify, NotifyRaises, Wake, Expire, channel
  <1>4. ApprovalsTypeOK'
    <2>1. CASE Ask(j)  BY <1>0, <1>3, <2>1 DEF Ask, Calling, ApprovalsTypeOK, Calls, Answers
    <2>2. CASE Notify(j)  BY <1>0, <1>3, <2>2 DEF Notify, Respond, Calling, ApprovalsTypeOK, Calls, Answers
    <2>3. CASE NotifyRaises(j)  BY <1>0, <1>3, <2>3 DEF NotifyRaises, Calling, ApprovalsTypeOK, Calls
    <2>4. CASE Wake(j)  BY <1>0, <1>3, <2>4 DEF Wake, Calling, ApprovalsTypeOK, Calls, Answers
    <2>5. CASE Expire(j)  BY <1>0, <1>3, <2>5 DEF Expire, Calling, ApprovalsTypeOK, Calls, Answers
    <2> QED  BY <2>1, <2>2, <2>3, <2>4, <2>5 DEF Asks, Waits
  <1>5. TypeOK'  BY <1>0, <1>4 DEF Asks, engine, TypeOK
  <1>6. Between'  BY <1>1 DEF IInv, Between
  <1>7. CallAtAsk' /\ StoredLate'
    <2>1. \A i \in Id \ {j} : call'[i] = call[i]
      BY <1>0 DEF Asks, Ask, Waits, Notify, NotifyRaises, Wake, Expire, Calling, ApprovalsTypeOK
    <2> QED  BY <1>0, <1>1, <2>1 DEF IInv, Consent, CallAtAsk, StoredLate
  <1>8. Asked' /\ ApprovedByAnswer' /\ PendingHasCaller'
    <2> USE DEF IInv, Consent, Asked, ApprovedByAnswer, PendingHasCaller, ApprovalsTypeOK, Calls, Answers
    <2>1. CASE Ask(j)  BY <1>0, <2>1 DEF Ask, Calling
    <2>2. CASE Notify(j)  BY <1>0, <2>2 DEF Notify, Respond, Calling
    <2>3. CASE NotifyRaises(j)  BY <1>0, <2>3 DEF NotifyRaises, Calling
    <2>4. CASE Wake(j)  BY <1>0, <2>4 DEF Wake, Calling
    <2>5. CASE Expire(j)  BY <1>0, <2>5 DEF Expire, Calling
    <2> QED  BY <2>1, <2>2, <2>3, <2>4, <2>5 DEF Asks, Waits
  <1>9. Blocked'
    <2> USE DEF IInv, Consent, Blocked, ApprovalsTypeOK, Calls
    <2>1. CASE Ask(j)  BY <1>0, <1>1, <2>1 DEF Ask, Calling
    <2>2. CASE Notify(j)  BY <1>0, <1>1, <2>2 DEF Notify, Calling
    <2>3. CASE NotifyRaises(j)  BY <1>0, <1>1, <2>3 DEF NotifyRaises, Calling
    <2>4. CASE Wake(j)  BY <1>0, <1>1, <2>4 DEF Wake, Calling
    <2>5. CASE Expire(j)  BY <1>0, <1>1, <2>5 DEF Expire, Calling
    <2> QED  BY <2>1, <2>2, <2>3, <2>4, <2>5 DEF Asks, Waits
  <1>10. NoneUnapproved'
    <2>1. \A i \in Id \ {j} : answer'[i] = answer[i]
      BY <1>0 DEF Asks, Ask, Waits, Notify, NotifyRaises, Wake, Expire, Respond, ApprovalsTypeOK
    <2> QED  BY <1>0, <1>1, <1>2, <2>1 DEF IInv, Consent, NoneUnapproved
  <1> QED  BY <1>5, <1>6, <1>7, <1>8, <1>9, <1>10 DEF IInv, Consent

\* The consent of a request decides what its task does.
LEMMA DecidedStep ==
    ASSUME IInv, NEW j \in Id, Decided(j)
    PROVE  IInv'
  <1>0. TypeOK /\ ApprovalsTypeOK /\ j \in Id /\ job[j].pc = "ask"  BY DEF IInv, TypeOK, Decided, At
  <1>1. stored' = stored /\ cycle' = cycle  BY DEF Decided
  <1>2. j \notin stored  BY <1>0 DEF IInv, Consent, StoredLate, Registered
  <1>3. call[j] # "idle" /\ call' = [call EXCEPT ![j] = "idle"]
    BY DEF Decided, Answered, Calling
  <1>4. UNCHANGED <<pending, decision, signalled, answer, forgotten, operator, authorised, mail, sent>>
    BY DEF Decided, Answered, channel
  <1>5. Moves(j, {"download", "refuse", "done"}) /\ (job'[j].pc = "download" => call[j] = "approved")
    <2>1. CASE Answered(j, "approved") /\ GoTo(j, "download")
      BY <1>0, <2>1, GoesTo DEF Pcs, Moves, Answered
    <2>2. CASE Refused(j) /\ j = Agent  BY <1>0, <2>2, Ended DEF Refused, Pcs, Results, Moves
    <2>3. CASE Refused(j) /\ j # Agent  BY <1>0, <2>3, GoesTo DEF Refused, Pcs, Moves
    <2> QED  BY <2>1, <2>2, <2>3 DEF Decided
  <1>6. ApprovalsTypeOK'  BY <1>0, <1>3, <1>4 DEF ApprovalsTypeOK, Calls
  <1>7. TypeOK'  BY <1>0, <1>5, <1>6 DEF Decided, TypeOK, Moves, Jobs
  <1>8. Between'
    <2>1. j \in Mod => cycle.pc \in {"running", "aborting"}  BY <1>0 DEF IInv, Between
    <2> QED  BY <1>1, <1>5, <2>1, UpdatesAssumption DEF IInv, Between, Moves
  <1>9. CallAtAsk' /\ StoredLate'
    <2>1. stored \subseteq Id  BY <1>0, UpdatesAssumption DEF TypeOK
    <2> QED  BY <1>0, <1>1, <1>2, <1>3, <1>5, <2>1 DEF IInv, Consent, CallAtAsk, StoredLate, Moves, ApprovalsTypeOK
  <1>10. Asked' /\ ApprovedByAnswer'
    BY <1>0, <1>3, <1>4 DEF IInv, Consent, Asked, ApprovedByAnswer, ApprovalsTypeOK
  <1>11. PendingHasCaller'
    <2>1. call[j] \in {"approved", "denied", "timeout"}  BY DEF Decided, Answered
    <2> QED  BY <1>0, <1>3, <1>4, <2>1 DEF IInv, Consent, PendingHasCaller, ApprovalsTypeOK
  <1>12. Blocked'
    BY <1>0, <1>1, <1>3, <1>4, <1>5 DEF IInv, Consent, Blocked, Moves, ApprovalsTypeOK, Relying
  <1>13. NoneUnapproved'
    <2>1. call[j] = "approved" => answer[j] = "approved"  BY DEF IInv, Consent, ApprovedByAnswer
    <2> QED  BY <1>0, <1>1, <1>2, <1>4, <1>5, <2>1 DEF IInv, Consent, NoneUnapproved, Moves
  <1> QED  BY <1>7, <1>8, <1>9, <1>10, <1>11, <1>12, <1>13 DEF IInv, Consent

\* A cancelled task takes its request with it, or leaves it blocked.
LEMMA CancelStep ==
    ASSUME IInv, NEW j \in Id, CancelRequest(j), Moves(j, {"done"}), stored' \subseteq Mod,
           \A m \in stored' : m \in stored \/ (m = j /\ job[j].pc = "upsert")
    PROVE  ApprovalsTypeOK' /\ Consent'
  <1>0. TypeOK /\ ApprovalsTypeOK  BY DEF IInv, TypeOK
  <1>1. UNCHANGED <<operator, authorised, mail, sent>>  BY DEF CancelRequest, Abandon, channel
  <1>2. CASE job[j].pc # "ask"
    <2>1. call[j] = "idle"  BY <1>2 DEF IInv, Consent, CallAtAsk
    <2>2. UNCHANGED <<call, pending, decision, signalled, answer, forgotten>>
      BY <1>0, <2>1 DEF CancelRequest, Calling, ApprovalsTypeOK
    <2>3. JobStep(j)  BY <1>2, <2>2 DEF JobStep, Moves, Relying, Registered
    <2> QED  BY <1>0, <1>1, <2>2, <2>3, StepKeepsConsent DEF ApprovalsTypeOK
  <1>3. CASE job[j].pc = "ask"
    <2> USE <1>0, <1>1, <1>3 DEF IInv, Consent, ApprovalsTypeOK, Calls
    <2>1. /\ call' = [call EXCEPT ![j] = "idle"]
          /\ UNCHANGED <<decision, signalled, answer>>
      BY DEF CancelRequest, Abandon, Calling
    <2>2. \/ /\ call[j] \notin {"notify", "waiting"} /\ UNCHANGED <<pending, forgotten>>
          \/ /\ call[j] = "waiting" /\ pending' = pending \ {j} /\ UNCHANGED forgotten
          \/ /\ call[j] = "notify" /\ forgotten' = forgotten \cup {j} /\ UNCHANGED pending
      BY DEF CancelRequest, Abandon
    <2>3. \A m \in stored' : m \in stored /\ m # j  BY DEF StoredLate, Registered
    <2>4. /\ \A i \in Id \ {j} : job'[i] = job[i]
          /\ job'[j].pc = "done"
      BY DEF Moves
    <2>5. stored' \subseteq Id  BY UpdatesAssumption
    <2>6. ApprovalsTypeOK'  BY <2>1, <2>2
    <2>7. CallAtAsk' /\ StoredLate'  BY <2>1, <2>3, <2>4, <2>5 DEF CallAtAsk, StoredLate
    <2>8. Asked' /\ ApprovedByAnswer' /\ PendingHasCaller'
      BY <2>1, <2>2 DEF Asked, ApprovedByAnswer, PendingHasCaller
    <2>9. Blocked'
      <3>1. j \in forgotten \/ call[j] = "notify" => j \in pending  BY DEF Blocked, Asked
      <3>2. \A i \in forgotten' : i \in forgotten \/ (i = j /\ call[j] = "notify")  BY <2>2
      <3>3. \A i \in forgotten' : i \in pending'  BY <2>2, <3>1, <3>2 DEF Blocked
      <3> QED  BY <2>1, <2>3, <2>4, <3>2, <3>3 DEF Blocked, Relying
    <2>10. NoneUnapproved'  BY <2>1, <2>3, <2>4, <2>5 DEF NoneUnapproved
    <2> QED  BY <2>6, <2>7, <2>8, <2>9, <2>10
  <1> QED  BY <1>2, <1>3

LEMMA CancelUpdateStep ==
    ASSUME IInv, NEW m \in Mod, CancelUpdate(m)
    PROVE  IInv'
  <1>0. TypeOK /\ m \in Id  BY UpdatesAssumption DEF IInv
  <1>1. Moves(m, {"done"})  BY <1>0, Ended DEF CancelUpdate, Pcs, Results, Moves
  <1>2. tx' \in [Mod -> Txs]
    <2>1. \A end \in Txs : [tx EXCEPT ![m] = end] \in [Mod -> Txs]  BY <1>0 DEF TypeOK
    <2>2. tx[m] \in Txs  BY <1>0 DEF TypeOK
    <2>3. \E end \in Txs : tx' = [tx EXCEPT ![m] = end]  BY <2>2 DEF CancelUpdate, Txs
    <2> QED  BY <2>1, <2>3
  <1>3. stored' \subseteq Mod /\ \A i \in stored' : i \in stored \/ (i = m /\ job[m].pc = "upsert")
    BY <1>0 DEF CancelUpdate, TypeOK, At
  <1>4. ApprovalsTypeOK' /\ Consent'  BY <1>0, <1>1, <1>3, CancelStep DEF CancelUpdate
  <1>5. TypeOK'  BY <1>0, <1>1, <1>2, <1>3, <1>4 DEF CancelUpdate, TypeOK, Moves, Jobs
  <1>6. Between'  BY DEF CancelUpdate, Between
  <1> QED  BY <1>4, <1>5, <1>6 DEF IInv

LEMMA CancelAgentStep ==
    ASSUME IInv, CancelAgent
    PROVE  IInv'
  <1>0. TypeOK /\ Agent \in Id /\ Agent \notin Mod  BY UpdatesAssumption DEF IInv
  <1>1. Moves(Agent, {"done"})  BY <1>0, Ended DEF CancelAgent, Pcs, Results, Moves
  <1>2. stored' \subseteq Mod /\ \A i \in stored' : i \in stored  BY <1>0 DEF CancelAgent, TypeOK
  <1>3. ApprovalsTypeOK' /\ Consent'  BY <1>0, <1>1, <1>2, CancelStep DEF CancelAgent
  <1>4. faults' \in 0..MaxFaults  BY <1>0, UpdatesAssumption DEF CancelAgent, TypeOK, Fault
  <1>5. TypeOK'  BY <1>0, <1>1, <1>3, <1>4 DEF CancelAgent, TypeOK, Moves, Jobs
  <1>6. Between'  BY <1>0, <1>1, UpdatesAssumption DEF CancelAgent, IInv, Between, Moves
  <1> QED  BY <1>3, <1>5, <1>6 DEF IInv

\* An answer reaches pending requests only, and no task relies on one of those.
LEMMA ChannelStep ==
    ASSUME IInv, Channel /\ UNCHANGED engine
    PROVE  IInv'
  <1>0. TypeOK /\ ApprovalsTypeOK  BY DEF IInv, TypeOK
  <1>1. job' = job /\ stored' = stored /\ cycle' = cycle  BY DEF engine
  <1>2. UNCHANGED <<call, pending, forgotten>>
    BY DEF Channel, OperatorAnswers, HandleUpdate, ReloadTelegram, guard
  <1>3. \/ UNCHANGED <<decision, signalled, answer>>
        \/ \E u \in Updates : /\ u.id \in pending
                              /\ decision' = [decision EXCEPT ![u.id] = u.ans]
                              /\ signalled' = signalled \cup {u.id}
                              /\ answer' = [answer EXCEPT ![u.id] = u.ans]
    <2>1. CASE OperatorAnswers \/ ReloadTelegram  BY <2>1 DEF OperatorAnswers, ReloadTelegram, guard
    <2>2. CASE HandleUpdate
      <3>1. Head(mail) \in Updates  BY <1>0, <2>2 DEF HandleUpdate, ApprovalsTypeOK
      <3> QED  BY <2>2, <3>1 DEF HandleUpdate, Respond
    <2> QED  BY <2>1, <2>2 DEF Channel
  <1>4. mail' \in Seq(Updates)
    <2>1. CASE OperatorAnswers
      <3>1. \A id \in Id, ans \in Answers : [id |-> id, ans |-> ans] \in Updates  BY DEF Updates
      <3>2. \E u \in Updates : mail' = Append(mail, u)  BY <2>1, <3>1 DEF OperatorAnswers
      <3> QED  BY <1>0, <3>2, AppendProperties DEF ApprovalsTypeOK
    <2>2. CASE HandleUpdate  BY <1>0, <2>2, HeadTailProperties DEF HandleUpdate, ApprovalsTypeOK
    <2>3. CASE ReloadTelegram  BY <1>0, <2>3 DEF ReloadTelegram, ApprovalsTypeOK
    <2> QED  BY <2>1, <2>2, <2>3 DEF Channel
  <1>5. sent' \in 0..MaxAnswers /\ operator' \in BOOLEAN /\ authorised' \in BOOLEAN
    <2>1. CASE OperatorAnswers
      <3>1. sent \in 0..MaxAnswers /\ sent < MaxAnswers /\ sent' = sent + 1
        BY <1>0, <2>1 DEF OperatorAnswers, ApprovalsTypeOK
      <3>2. sent' \in 0..MaxAnswers  BY <3>1, ApprovalsAssumption
      <3> QED  BY <1>0, <2>1, <3>2 DEF OperatorAnswers, ApprovalsTypeOK
    <2>2. CASE HandleUpdate  BY <1>0, <2>2 DEF HandleUpdate, ApprovalsTypeOK
    <2>3. CASE ReloadTelegram  BY <1>0, <2>3 DEF ReloadTelegram, ApprovalsTypeOK
    <2> QED  BY <2>1, <2>2, <2>3 DEF Channel
  <1>6. ApprovalsTypeOK'
    BY <1>0, <1>2, <1>3, <1>4, <1>5 DEF ApprovalsTypeOK, Updates
  <1>7. TypeOK'  BY <1>0, <1>6 DEF TypeOK, engine
  <1>8. \A i \in pending : /\ job[i].pc \notin Relying /\ i \notin stored
                           /\ call[i] \in {"notify", "waiting", "idle", "denied"}
    <2>1. \A i \in pending : i \in Id  BY <1>0 DEF ApprovalsTypeOK
    <2>2. \A i \in pending \ forgotten : job[i].pc = "ask" /\ call[i] \in {"notify", "waiting"}
      BY <2>1 DEF IInv, Consent, PendingHasCaller, CallAtAsk
    <2> QED  BY <2>2 DEF IInv, Consent, Blocked, StoredLate, Relying, Registered
  <1>9. Consent'
    <2> USE <1>0, <1>1, <1>2, <1>3, <1>8 DEF IInv, Consent, ApprovalsTypeOK, Updates
    <2>1. CallAtAsk' /\ PendingHasCaller' /\ Blocked' /\ StoredLate'
      BY DEF CallAtAsk, PendingHasCaller, Blocked, StoredLate
    <2>2. Asked'  BY DEF Asked
    <2>3. ApprovedByAnswer'  BY DEF ApprovedByAnswer
    <2>4. NoneUnapproved'  BY UpdatesAssumption DEF NoneUnapproved, Relying, TypeOK
    <2> QED  BY <2>1, <2>2, <2>3, <2>4
  <1> QED  BY <1>1, <1>7, <1>9 DEF IInv, Between

------------------------------------------------------------------------------
(* The invariant, and what follows from it. *)

LEMMA InitStep == Init => IInv
  <1> SUFFICES ASSUME Init PROVE IInv
    OBVIOUS
  <1>1. Fresh \in Jobs /\ Fresh.pc = "idle"  BY UpdatesAssumption DEF Fresh, Jobs, Pcs, Results
  <1>2. job \in [Id -> Jobs] /\ \A j \in Id : job[j].pc = "idle"  BY <1>1 DEF Init
  <1>3. ApprovalsTypeOK
    <2>1. <<>> \in Seq(Updates)  OBVIOUS
    <2>2. 0 \in 0..MaxAnswers  BY ApprovalsAssumption
    <2> QED  BY <2>1, <2>2 DEF Init, ApprovalsInit, ApprovalsTypeOK, Calls, Answers
  <1>4. TypeOK
    <2>1. 0 \in 0..MaxCycles /\ 0 \in 0..MaxCalls /\ 0 \in 0..MaxFaults /\ 0 \in 0..Threshold
      BY UpdatesAssumption
    <2>2. tx \in [Mod -> Txs] /\ file \in [Mod -> Contents]  BY DEF Init, Txs, Contents
    <2> QED  BY <1>2, <1>3, <2>1, <2>2 DEF Init, TypeOK, Jobs
  <1>5. call = [j \in Id |-> "idle"] /\ pending = {} /\ forgotten = {} /\ stored = {}
    BY DEF Init, ApprovalsInit
  <1>6. Consent
    BY <1>2, <1>5 DEF Consent, CallAtAsk, Asked, ApprovedByAnswer, PendingHasCaller, Blocked, StoredLate, NoneUnapproved
  <1> QED  BY <1>2, <1>4, <1>6, UpdatesAssumption DEF IInv, Between

\* A step of one task within a cycle, or of the agent's, leaves the others where they are.
LEMMA TaskStep ==
    ASSUME IInv, NEW j \in Id, TypeOK', JobStep(j),
           \/ j = Agent /\ cycle'.pc = cycle.pc
           \/ cycle.pc = "running" /\ cycle' = cycle
    PROVE  IInv'
  <1>1. Consent'  BY StepKeepsConsent DEF TypeOK
  <1>2. Between'  BY UpdatesAssumption DEF IInv, Between, JobStep, Moves
  <1> QED  BY <1>1, <1>2 DEF IInv

LEMMA DownloadingStep ==
    ASSUME IInv, NEW j \in Id, Downloading(j), j = Agent \/ cycle.pc = "running"
    PROVE  IInv'
  <1>1. CASE FileInfo(j)  BY <1>1, FileInfoStep, TaskStep DEF FileInfo
  <1>2. CASE Asks(j)  BY <1>2, AsksStep
  <1>3. CASE Decided(j)  BY <1>3, DecidedStep
  <1>4. CASE OpenFile(j)  BY <1>4, OpenFileStep, TaskStep DEF OpenFile, NotOurs
  <1>5. CASE Written(j)  BY <1>5, WrittenStep, TaskStep DEF Written, NotOurs
  <1>6. CASE WriteFails(j)  BY <1>6, WriteFailsStep, TaskStep DEF WriteFails, NotOurs
  <1>7. CASE ManualDownload(j)  BY <1>7, ManualDownloadStep, TaskStep DEF ManualDownload, NotOurs
  <1> QED  BY <1>1, <1>2, <1>3, <1>4, <1>5, <1>6, <1>7 DEF Downloading

LEMMA UpdatingStep ==
    ASSUME IInv, NEW m \in Mod, Updating(m)
    PROVE  IInv'
  <1>0. m \in Id /\ cycle.pc = "running"  BY UpdatesAssumption DEF Updating
  <1>1. CASE Begin(m)  BY <1>0, <1>1, BeginStep, TaskStep DEF Begin
  <1>2. CASE Fetch(m)  BY <1>0, <1>2, FetchStep, TaskStep DEF Fetch
  <1>3. CASE FetchReturns(m)  BY <1>0, <1>3, FetchReturnsStep, TaskStep DEF FetchReturns
  <1>4. CASE FetchFails(m)  BY <1>0, <1>4, FetchFailsStep, TaskStep DEF FetchFails
  <1>5. CASE Downloading(m)  BY <1>0, <1>5, DownloadingStep
  <1>6. CASE Refuse(m)  BY <1>0, <1>6, RefuseStep, TaskStep DEF Refuse
  <1>7. CASE Upsert(m)  BY <1>0, <1>7, UpsertStep, TaskStep DEF Upsert
  <1>8. CASE LogTask(m)  BY <1>0, <1>8, LogTaskStep, TaskStep DEF LogTask
  <1>9. CASE Commit(m)  BY <1>0, <1>9, CommitStep, TaskStep DEF Commit
  <1>10. CASE Mark(m)  BY <1>0, <1>10, MarkStep, TaskStep DEF Mark
  <1> QED
    BY <1>1, <1>2, <1>3, <1>4, <1>5, <1>6, <1>7, <1>8, <1>9, <1>10 DEF Updating

LEMMA StutterStep ==
    ASSUME IInv, UNCHANGED vars
    PROVE  IInv'
  <1>1. UNCHANGED <<guard, channel>> /\ UNCHANGED engine  BY DEF vars, guard, channel, engine
  <1>2. ApprovalsTypeOK'  BY <1>1, SameApprovals DEF IInv, TypeOK
  <1>3. /\ UNCHANGED <<cycle, job, tx, stored, file, downloader, failures, breaker, faults, opened, late>>
        /\ UNCHANGED <<call, pending, decision, signalled, answer, forgotten>>
    BY <1>1 DEF engine, guard
  <1>4. TypeOK'  BY <1>2, <1>3 DEF IInv, TypeOK
  <1>5. Consent'
    BY <1>3 DEF IInv, Consent, CallAtAsk, Asked, ApprovedByAnswer, PendingHasCaller, Blocked, StoredLate, NoneUnapproved
  <1> QED  BY <1>3, <1>4, <1>5 DEF IInv, Between

LEMMA NextStep ==
    ASSUME IInv, [Next]_vars
    PROVE  IInv'
  <1>1. CASE Aborts \/ CycleOver \/ BreakerRecovers  BY <1>1, GroupStep
  <1>2. ASSUME NEW m \in Mod, CancelUpdate(m) PROVE IInv'  BY <1>2, CancelUpdateStep
  <1>3. CASE Downloading(Agent)  BY <1>3, DownloadingStep, UpdatesAssumption
  <1>4. ASSUME NEW m \in Mod, Updating(m) PROVE IInv'  BY <1>4, UpdatingStep
  <1>5. CASE StartCycle  BY <1>5, StartCycleStep
  <1>6. CASE AgentDownloads
    <2>1. cycle'.pc = cycle.pc  BY <1>6 DEF AgentDownloads, IInv, TypeOK
    <2> QED  BY <1>6, <2>1, AgentDownloadsStep, TaskStep, UpdatesAssumption
  <1>7. CASE CancelAgent  BY <1>7, CancelAgentStep
  <1>8. CASE Channel /\ UNCHANGED engine  BY <1>8, ChannelStep
  <1>9. CASE UNCHANGED vars  BY <1>9, StutterStep
  <1> QED
    BY <1>1, <1>2, <1>3, <1>4, <1>5, <1>6, <1>7, <1>8, <1>9 DEF Next, Tasks, Grouping

\* IInv holds of every state that update cycles, the agent and the operator reach.
LEMMA Invariance == Spec => []IInv
  <1>1. Init => IInv  BY InitStep
  <1>2. IInv /\ [Next]_vars => IInv'  BY NextStep
  <1> QED  BY <1>1, <1>2, PTL DEF Spec

\* Guard, tasks, journal, breaker and files keep their types, however many mods and
\* answers there are.
THEOREM TypeCorrect == Spec => []TypeOK
  <1>1. IInv => TypeOK  BY DEF IInv
  <1> QED  BY <1>1, Invariance, PTL

\* Neither an update nor download_mod fetches a file, and none registers a version, unless
\* the last answer taken for its own request approves: repeated requests, late, double and
\* misdirected answers, time-outs and cancelled callers included.
THEOREM NoDownloadWithoutConsent == Spec => []NoneUnapproved
  <1>1. IInv => NoneUnapproved  BY DEF IInv, Consent
  <1> QED  BY <1>1, Invariance, PTL

\* A request in _pending is waited for, so that it cannot deny later requests with its id,
\* unless its caller was cancelled while the prompt was sent.
THEOREM PendingIsWaitedFor == Spec => []PendingHasCaller
  <1>1. IInv => PendingHasCaller  BY DEF IInv, Consent
  <1> QED  BY <1>1, Invariance, PTL

\* A request is approved only by an answer to itself.
THEOREM ApprovedByItsAnswer == Spec => []ApprovedByAnswer
  <1>1. IInv => ApprovedByAnswer  BY DEF IInv, Consent
  <1> QED  BY <1>1, Invariance, PTL
------------------------------------------------------------------------------
(* What journal, registry, results and files tell.  Told follows one update  *)
(* through its places; it says where its transaction is, whether its version *)
(* is registered, and what its result can be.                                *)

Told(m) ==
    /\ job[m].pc = "begin" => tx[m] = "none"
    /\ job[m].pc \notin {"idle", "begin", "done"} => tx[m] = "pending"
    /\ job[m].pc \notin {"commit", "mark", "done"} => job[m].result = "none"
    /\ job[m].pc = "log" => m \in stored
    /\ job[m].pc = "commit" => job[m].result \in {"updated", "current", "error"}
    /\ job[m].pc = "mark" => job[m].result \in {"error", "isolated", "raised"}
    /\ job[m].pc = "done" => job[m].result # "none"
    /\ job[m].result = "updated" =>
           m \in stored /\ (job[m].pc = "commit" \/ (job[m].pc = "done" /\ tx[m] = "committed"))
    /\ m \in stored /\ (job[m].pc = "mark" \/ tx[m] = "rolled_back") => m \in late
    /\ job[m].pc = "done" /\ tx[m] = "pending" => job[m].result = "cancelled" \/ faults > 0

\* Tasks are cancelled only when another has raised, and then the cycle raises.
Grouped(m) ==
    /\ cycle.pc # "idle" => job[m].pc # "idle"
    /\ cycle.pc \in {"running", "returned"} => job[m].result # "cancelled"
    /\ cycle.pc = "returned" => job[m].result # "raised"

\* Whoever may write to the file that two downloads share has opened it.
Sharing ==
    /\ job[Agent].pc = "writing" => Agent \in opened
    /\ job[SameFile].pc \in {"writing", "upsert", "log"} \/ SameFile \in stored => SameFile \in opened

Complete(m) == job[m].pc \in {"upsert", "log"} \/ m \in stored => file[m] = "good" \/ Shared(m)

Telling == \A m \in Mod : Told(m) /\ Grouped(m)
Keeping == Sharing /\ \A m \in Mod : Complete(m)

\* Where a step takes a task, with which result, leaving the other tasks alone.
Comes(j, pc, result) ==
    /\ job'[j].pc = pc /\ job'[j].result = result
    /\ \A i \in Id \ {j} : job'[i] = job[i]

LEMMA Coming ==
    ASSUME TypeOK, NEW j \in Id, NEW new, Becomes(j, new)
    PROVE  Comes(j, new.pc, new.result)
  BY DEF TypeOK, Becomes, Comes

LEMMA ComesTo ==
    ASSUME TypeOK, NEW j \in Id, NEW pc \in Pcs, GoTo(j, pc)
    PROVE  Comes(j, pc, job[j].result)
  <1> DEFINE new == [job[j] EXCEPT !.pc = pc, !.try = 1]
  <1>1. job[j] \in Jobs  BY DEF TypeOK, Jobs
  <1>2. new.pc = pc /\ new.result = job[j].result  BY <1>1 DEF Jobs
  <1>3. Becomes(j, new)  BY DEF GoTo
  <1> HIDE DEF new
  <1> QED  BY <1>2, <1>3, Coming

LEMMA EndsWith ==
    ASSUME TypeOK, NEW j \in Id, NEW pc \in Pcs, NEW result \in Results, Ends(j, pc, result)
    PROVE  Comes(j, pc, result)
  <1> DEFINE new == [job[j] EXCEPT !.pc = pc, !.try = 1, !.result = result]
  <1>1. job[j] \in Jobs  BY DEF TypeOK, Jobs
  <1>2. new.pc = pc /\ new.result = result  BY <1>1 DEF Jobs
  <1>3. Becomes(j, new)  BY DEF Ends
  <1> HIDE DEF new
  <1> QED  BY <1>2, <1>3, Coming

LEMMA FailsWith ==
    ASSUME TypeOK, NEW m \in Mod, NEW result \in Results, Fails(m, result)
    PROVE  Comes(m, IF tx[m] # "none" THEN "mark" ELSE "done", result)
  <1>0. m \in Id  BY UpdatesAssumption
  <1>1. CASE tx[m] # "none"  BY <1>0, <1>1, EndsWith DEF Fails, Pcs
  <1>2. CASE tx[m] = "none"  BY <1>0, <1>2, EndsWith DEF Fails, Pcs
  <1> QED  BY <1>1, <1>2

LEMMA StepsTo ==
    ASSUME TypeOK, NEW j \in Id, NEW pc \in Pcs,
           \/ Becomes(j, [job[j] EXCEPT !.pc = pc])
           \/ Becomes(j, [job[j] EXCEPT !.pc = pc, !.try = @ + 1])
    PROVE  Comes(j, pc, job[j].result)
  <1>1. job[j] \in Jobs  BY DEF TypeOK, Jobs
  <1>2. CASE Becomes(j, [job[j] EXCEPT !.pc = pc])
    <2> DEFINE new == [job[j] EXCEPT !.pc = pc]
    <2>1. new.pc = pc /\ new.result = job[j].result  BY <1>1 DEF Jobs
    <2>2. Becomes(j, new)  BY <1>2
    <2> HIDE DEF new
    <2> QED  BY <2>1, <2>2, Coming
  <1>3. CASE Becomes(j, [job[j] EXCEPT !.pc = pc, !.try = @ + 1])
    <2> DEFINE new == [job[j] EXCEPT !.pc = pc, !.try = @ + 1]
    <2>1. new.pc = pc /\ new.result = job[j].result  BY <1>1 DEF Jobs
    <2>2. Becomes(j, new)  BY <1>3
    <2> HIDE DEF new
    <2> QED  BY <2>1, <2>2, Coming
  <1> QED  BY <1>2, <1>3

LEMMA RetriesTo ==
    ASSUME TypeOK, NEW m \in Mod, Retry(m)
    PROVE  \/ Comes(m, "fetch", job[m].result)
           \/ Comes(m, IF tx[m] # "none" THEN "mark" ELSE "done", "error")
  <1>0. m \in Id  BY UpdatesAssumption
  <1>1. CASE job[m].try < MaxTries  BY <1>0, <1>1, StepsTo DEF Retry, Pcs
  <1>2. CASE ~(job[m].try < MaxTries)  BY <1>2, FailsWith DEF Retry, Results
  <1> QED  BY <1>1, <1>2

------------------------------------------------------------------------------
(* One step of one update. *)

\* What a step of m's task leaves of the other updates.
Aside(m) ==
    /\ \A i \in Mod \ {m} :
           /\ job'[i] = job[i] /\ tx'[i] = tx[i]
           /\ i \in stored' <=> i \in stored
           /\ i \in late' <=> i \in late
    /\ faults' >= faults

Advances(m) == Aside(m) /\ Told(m)' /\ job'[m].pc # "idle" /\ job'[m].result # "cancelled"

LEMMA AsideOf ==
    ASSUME TypeOK, NEW m \in Mod, NEW pc, NEW result, Comes(m, pc, result),
           tx' = tx \/ \E end \in Txs : tx' = [tx EXCEPT ![m] = end],
           stored' \in {stored, stored \cup {m}}, late' \in {late, late \cup {m}},
           UNCHANGED faults \/ Fault
    PROVE  Aside(m)
  <1>1. faults' >= faults  BY DEF TypeOK, Fault
  <1>2. Mod \subseteq Id  BY UpdatesAssumption
  <1>3. \A i \in Mod \ {m} : tx'[i] = tx[i]  BY DEF TypeOK
  <1> QED  BY <1>1, <1>2, <1>3 DEF Aside, Comes

LEMMA BeginTells ==
    ASSUME TypeOK, NEW m \in Mod, Told(m), Grouped(m), StoredLate, cycle.pc = "running", Begin(m)
    PROVE  Advances(m)
  <1>0. m \in Id /\ m \notin stored  BY UpdatesAssumption DEF StoredLate, Begin, At, Registered
  <1>1. tx[m] = "none" /\ job[m].result = "none"  BY DEF Told, Begin, At
  <1>2. CASE tx' = [tx EXCEPT ![m] = "pending"] /\ GoTo(m, "fetch") /\ UNCHANGED faults
    <2>1. Comes(m, "fetch", "none")  BY <1>0, <1>1, <1>2, ComesTo DEF Pcs
    <2>2. Aside(m)  BY <1>2, <2>1, AsideOf DEF Begin, Txs
    <2> QED  BY <1>0, <1>1, <1>2, <2>1, <2>2 DEF Advances, Told, Comes, Begin, TypeOK
  <1>3. CASE Fault /\ Fails(m, "raised") /\ UNCHANGED tx
    <2>1. Comes(m, "done", "raised")  BY <1>1, <1>3, FailsWith DEF Results
    <2>2. Aside(m)  BY <1>3, <2>1, AsideOf DEF Begin
    <2> QED  BY <1>0, <1>1, <1>3, <2>1, <2>2 DEF Advances, Told, Comes, Begin, TypeOK
  <1> QED  BY <1>2, <1>3 DEF Begin

\* The places of an update whose transaction is pending and whose result is open.
Underway == {"fetch", "fetching", "info", "ask", "download", "writing", "refuse", "upsert", "log"}

LEMMA UnderwayTold ==
    ASSUME TypeOK, NEW m \in Mod, Told(m), StoredLate, job[m].pc \in Underway
    PROVE  /\ tx[m] = "pending" /\ job[m].result = "none"
           /\ m \in stored <=> job[m].pc = "log"
  BY DEF Told, StoredLate, Underway, Registered

\* Nothing is said of an update that is given up; once it is registered, that is late.
LEMMA FailingTells ==
    ASSUME TypeOK, NEW m \in Mod, Told(m), NEW result \in {"error", "isolated", "raised"}, Fails(m, result),
           tx[m] = "pending", UNCHANGED <<tx, stored>>, UNCHANGED faults \/ Fault,
           late' \in {late, late \cup {m}}, m \in stored => m \in late'
    PROVE  Advances(m)
  <1>1. Comes(m, "mark", result)  BY FailsWith DEF Results
  <1>2. Aside(m)  BY <1>1, AsideOf
  <1> QED  BY <1>1, <1>2 DEF Advances, Told, Comes

LEMMA GoingTells ==
    ASSUME TypeOK, NEW m \in Mod, Told(m), NEW pc \in Underway, Comes(m, pc, "none"),
           tx[m] = "pending", UNCHANGED <<tx, late, faults>>,
           stored' = IF pc = "log" THEN stored \cup {m} ELSE stored
    PROVE  Advances(m)
  <1>1. Aside(m)  BY AsideOf
  <1>2. job'[m].pc = pc /\ job'[m].result = "none"  BY DEF Comes
  <1>3. tx'[m] = "pending" /\ (pc = "log" => m \in stored')  OBVIOUS
  <1> QED  BY <1>1, <1>2, <1>3 DEF Advances, Told, Underway

LEMMA FetchTells ==
    ASSUME TypeOK, NEW m \in Mod, Told(m), StoredLate, Fetch(m)
    PROVE  Advances(m)
  <1>0. m \in Id /\ job[m].pc = "fetch"  BY UpdatesAssumption DEF Fetch, At
  <1>1. tx[m] = "pending" /\ job[m].result = "none" /\ m \notin stored
    BY <1>0, UnderwayTold DEF Underway
  <1>2. UNCHANGED <<tx, stored, late, faults>>  BY DEF Fetch
  <1>3. CASE Becomes(m, [job[m] EXCEPT !.pc = "fetching"])
    <2>1. Comes(m, "fetching", "none")  BY <1>0, <1>1, <1>3, StepsTo DEF Pcs
    <2> QED  BY <1>1, <1>2, <2>1, GoingTells DEF Underway
  <1>4. CASE Retry(m) /\ job[m].try < MaxTries
    <2>1. Comes(m, "fetch", "none")  BY <1>0, <1>1, <1>4, StepsTo DEF Retry, Pcs
    <2> QED  BY <1>1, <1>2, <2>1, GoingTells DEF Underway
  <1>5. CASE Retry(m) /\ ~(job[m].try < MaxTries)
    <2>1. Fails(m, "error")  BY <1>5 DEF Retry
    <2> QED  BY <1>1, <1>2, <2>1, FailingTells
  <1> QED  BY <1>3, <1>4, <1>5 DEF Fetch

LEMMA FetchReturnsTells ==
    ASSUME TypeOK, NEW m \in Mod, Told(m), StoredLate, FetchReturns(m)
    PROVE  Advances(m)
  <1>0. m \in Id /\ job[m].pc = "fetching"  BY UpdatesAssumption DEF FetchReturns, At
  <1>1. tx[m] = "pending" /\ job[m].result = "none" /\ m \notin stored
    BY <1>0, UnderwayTold DEF Underway
  <1>2. UNCHANGED <<tx, stored, late, faults>>  BY DEF FetchReturns
  <1>3. CASE GoTo(m, "info")
    <2>1. Comes(m, "info", "none")  BY <1>0, <1>1, <1>3, ComesTo DEF Pcs
    <2> QED  BY <1>1, <1>2, <2>1, GoingTells DEF Underway
  <1>4. ASSUME NEW result \in {"error", "current"}, Ends(m, "commit", result) PROVE Advances(m)
    <2>1. Comes(m, "commit", result)  BY <1>0, <1>4, EndsWith DEF Pcs, Results
    <2>2. Aside(m)  BY <1>2, <2>1, AsideOf
    <2> QED  BY <1>1, <1>2, <2>1, <2>2 DEF Advances, Told, Comes
  <1> QED  BY <1>3, <1>4 DEF FetchReturns

LEMMA FetchFailsTells ==
    ASSUME TypeOK, NEW m \in Mod, Told(m), StoredLate, FetchFails(m)
    PROVE  Advances(m)
  <1>0. m \in Id /\ job[m].pc = "fetching"  BY UpdatesAssumption DEF FetchFails, At
  <1>1. tx[m] = "pending" /\ job[m].result = "none" /\ m \notin stored
    BY <1>0, UnderwayTold DEF Underway
  <1>2. UNCHANGED <<tx, stored, late, faults>>  BY DEF FetchFails
  <1>3. CASE Retry(m) /\ job[m].try < MaxTries
    <2>1. Comes(m, "fetch", "none")  BY <1>0, <1>1, <1>3, StepsTo DEF Retry, Pcs
    <2> QED  BY <1>1, <1>2, <2>1, GoingTells DEF Underway
  <1>4. CASE Retry(m) /\ ~(job[m].try < MaxTries)
    <2>1. Fails(m, "error")  BY <1>4 DEF Retry
    <2> QED  BY <1>1, <1>2, <2>1, FailingTells
  <1>5. ASSUME NEW result \in {"isolated", "raised"}, Fails(m, result) PROVE Advances(m)
    BY <1>1, <1>2, <1>5, FailingTells
  <1> QED  BY <1>3, <1>4, <1>5 DEF FetchFails

LEMMA RefuseTells ==
    ASSUME TypeOK, NEW m \in Mod, Told(m), StoredLate, Refuse(m)
    PROVE  Advances(m)
  <1>0. m \in Id /\ job[m].pc = "refuse"  BY UpdatesAssumption DEF Refuse, At
  <1>1. tx[m] = "pending" /\ job[m].result = "none" /\ m \notin stored
    BY <1>0, UnderwayTold DEF Underway
  <1>2. UNCHANGED <<stored, late>>  BY DEF Refuse
  <1>3. CASE tx' = [tx EXCEPT ![m] = "rolled_back"] /\ Ends(m, "done", "error") /\ UNCHANGED faults
    <2>1. Comes(m, "done", "error")  BY <1>0, <1>3, EndsWith DEF Pcs, Results
    <2>2. Aside(m)  BY <1>2, <1>3, <2>1, AsideOf DEF Txs
    <2> QED  BY <1>1, <1>2, <1>3, <2>1, <2>2 DEF Advances, Told, Comes, TypeOK
  <1>4. CASE Fault /\ Fails(m, "raised") /\ UNCHANGED tx
    BY <1>1, <1>2, <1>4, FailingTells
  <1> QED  BY <1>3, <1>4 DEF Refuse

LEMMA UpsertTells ==
    ASSUME TypeOK, NEW m \in Mod, Told(m), StoredLate, Upsert(m)
    PROVE  Advances(m)
  <1>0. m \in Id /\ job[m].pc = "upsert"  BY UpdatesAssumption DEF Upsert, At
  <1>1. tx[m] = "pending" /\ job[m].result = "none" /\ m \notin stored
    BY <1>0, UnderwayTold DEF Underway
  <1>2. UNCHANGED <<tx, late>>  BY DEF Upsert
  <1>3. CASE stored' = stored \cup {m} /\ GoTo(m, "log") /\ UNCHANGED faults
    <2>1. Comes(m, "log", "none")  BY <1>0, <1>1, <1>3, ComesTo DEF Pcs
    <2> QED  BY <1>1, <1>2, <1>3, <2>1, GoingTells DEF Underway
  <1>4. CASE Fault /\ Fails(m, "raised") /\ UNCHANGED stored
    BY <1>1, <1>2, <1>4, FailingTells
  <1> QED  BY <1>3, <1>4 DEF Upsert

LEMMA LogTaskTells ==
    ASSUME TypeOK, NEW m \in Mod, Told(m), StoredLate, LogTask(m)
    PROVE  Advances(m)
  <1>0. m \in Id /\ job[m].pc = "log"  BY UpdatesAssumption DEF LogTask, At
  <1>1. tx[m] = "pending" /\ m \in stored
    BY <1>0, UnderwayTold DEF Underway
  <1>2. UNCHANGED <<tx, stored>>  BY DEF LogTask
  <1>3. CASE Ends(m, "commit", "updated") /\ UNCHANGED <<faults, late>>
    <2>1. Comes(m, "commit", "updated")  BY <1>0, <1>3, EndsWith DEF Pcs, Results
    <2>2. Aside(m)  BY <1>2, <1>3, <2>1, AsideOf
    <2> QED  BY <1>1, <1>2, <1>3, <2>1, <2>2 DEF Advances, Told, Comes
  <1>4. CASE Fault /\ Fails(m, "raised") /\ late' = late \cup {m}
    BY <1>1, <1>2, <1>4, FailingTells
  <1> QED  BY <1>3, <1>4 DEF LogTask

LEMMA CommitTells ==
    ASSUME TypeOK, NEW m \in Mod, Told(m), Grouped(m), cycle.pc = "running", Commit(m)
    PROVE  Advances(m)
  <1>0. m \in Id /\ job[m].pc = "commit"  BY UpdatesAssumption DEF Commit, At
  <1>1. tx[m] = "pending" /\ job[m].result \in {"updated", "current", "error"}
    BY <1>0 DEF Told
  <1>2. UNCHANGED stored  BY DEF Commit
  <1>3. CASE tx' = [tx EXCEPT ![m] = "committed"] /\ GoTo(m, "done") /\ UNCHANGED <<faults, late>>
    <2>1. Comes(m, "done", job[m].result)  BY <1>0, <1>3, ComesTo DEF Pcs
    <2>2. Aside(m)  BY <1>2, <1>3, <2>1, AsideOf DEF Txs
    <2> QED  BY <1>0, <1>1, <1>2, <1>3, <2>1, <2>2 DEF Advances, Told, Comes, TypeOK
  <1>4. CASE Fault /\ Fails(m, "raised") /\ late' = late \cup {m} /\ UNCHANGED tx
    BY <1>1, <1>2, <1>4, FailingTells
  <1> QED  BY <1>3, <1>4 DEF Commit

LEMMA MarkTells ==
    ASSUME TypeOK, NEW m \in Mod, Told(m), Mark(m)
    PROVE  Advances(m)
  <1>0. m \in Id /\ job[m].pc = "mark"  BY UpdatesAssumption DEF Mark, At
  <1>1. tx[m] = "pending" /\ job[m].result \in {"error", "isolated", "raised"} /\ (m \in stored => m \in late)
    BY <1>0 DEF Told
  <1>2. UNCHANGED <<stored, late>>  BY DEF Mark
  <1>3. Comes(m, "done", job[m].result)  BY <1>0, ComesTo DEF Mark, Pcs
  <1>4. CASE tx' = [tx EXCEPT ![m] = "rolled_back"] /\ UNCHANGED faults
    <2>1. Aside(m)  BY <1>2, <1>3, <1>4, AsideOf DEF Txs
    <2> QED  BY <1>1, <1>2, <1>3, <1>4, <2>1 DEF Advances, Told, Comes, TypeOK
  <1>5. CASE Fault /\ UNCHANGED tx
    <2>1. Aside(m)  BY <1>2, <1>3, <1>5, AsideOf
    <2>2. faults' > 0  BY <1>5 DEF Fault, TypeOK
    <2> QED  BY <1>1, <1>2, <1>3, <1>5, <2>1, <2>2 DEF Advances, Told, Comes
  <1> QED  BY <1>4, <1>5 DEF Mark

\* The download of an update: until the upsert its transaction is pending.
LEMMA DownloadTells ==
    ASSUME TypeOK, NEW m \in Mod, Told(m), StoredLate,
           FileInfo(m) \/ Decided(m) \/ OpenFile(m) \/ Written(m) \/ WriteFails(m) \/ ManualDownload(m)
    PROVE  Advances(m)
  <1>0. m \in Id /\ m # Agent /\ job[m].pc \in {"info", "ask", "download", "writing"}
    BY UpdatesAssumption DEF FileInfo, Decided, OpenFile, Written, WriteFails, ManualDownload, At
  <1>1. tx[m] = "pending" /\ job[m].result = "none" /\ m \notin stored
    BY <1>0, UnderwayTold DEF Underway
  <1>2. UNCHANGED <<tx, stored, late, faults>>
    BY DEF FileInfo, Decided, OpenFile, Written, WriteFails, ManualDownload, NotOurs
  <1>3. ASSUME NEW pc \in Underway \ {"log"}, GoTo(m, pc) PROVE Advances(m)
    <2>1. pc \in Pcs  BY DEF Underway, Pcs
    <2>2. Comes(m, pc, "none")  BY <1>0, <1>1, <1>3, <2>1, ComesTo
    <2> QED  BY <1>1, <1>2, <2>2, GoingTells
  <1>4. ASSUME NEW result \in {"error", "isolated", "raised"}, Fails(m, result) PROVE Advances(m)
    BY <1>1, <1>2, <1>4, FailingTells
  <1>5. CASE FileInfo(m)
    <2>1. "ask" \in Underway \ {"log"}  BY DEF Underway
    <2> QED  BY <1>0, <1>3, <1>4, <1>5, <2>1 DEF FileInfo
  <1>6. CASE Decided(m)
    <2>1. {"download", "refuse"} \subseteq Underway \ {"log"}  BY DEF Underway
    <2> QED  BY <1>0, <1>3, <1>6, <2>1 DEF Decided, Refused
  <1>7. CASE OpenFile(m)
    <2>1. CASE Becomes(m, [job[m] EXCEPT !.pc = "writing"])
      <3>1. Comes(m, "writing", "none")  BY <1>0, <1>1, <2>1, StepsTo DEF Pcs
      <3> QED  BY <1>1, <1>2, <3>1, GoingTells DEF Underway
    <2> QED  BY <1>0, <1>4, <1>7, <2>1 DEF OpenFile, DownloadError
  <1>8. CASE Written(m) \/ ManualDownload(m)
    <2>1. "upsert" \in Underway \ {"log"}  BY DEF Underway
    <2>2. GoTo(m, "upsert")  BY <1>0, <1>8 DEF Written, ManualDownload, Downloaded
    <2> QED  BY <1>3, <2>1, <2>2
  <1>9. CASE WriteFails(m)
    <2>1. CASE Becomes(m, [job[m] EXCEPT !.pc = "download", !.try = @ + 1])
      <3>1. Comes(m, "download", "none")  BY <1>0, <1>1, <2>1, StepsTo DEF Pcs
      <3> QED  BY <1>1, <1>2, <3>1, GoingTells DEF Underway
    <2> QED  BY <1>0, <1>4, <1>9, <2>1 DEF WriteFails, DownloadError
  <1> QED  BY <1>5, <1>6, <1>7, <1>8, <1>9

\* A cancelled task leaves its transaction pending, unless the statement under way gets through.
LEMMA CancelTells ==
    ASSUME TypeOK, NEW m \in Mod, Told(m), StoredLate, CancelUpdate(m)
    PROVE  Aside(m) /\ Told(m)' /\ job'[m].pc # "idle"
  <1>0. m \in Id /\ job[m].pc \notin {"idle", "done"}  BY UpdatesAssumption DEF CancelUpdate
  <1>1. Comes(m, "done", "cancelled")  BY <1>0, EndsWith DEF CancelUpdate, Pcs, Results
  <1>2. UNCHANGED <<late, faults>> /\ stored' \in {stored, stored \cup {m}}
        /\ (job[m].pc # "upsert" => stored' = stored)
    BY DEF CancelUpdate, At
  <1>3. PICK end \in {"none", tx[m], "pending", "committed", "rolled_back"} :
             /\ tx' = [tx EXCEPT ![m] = end]
             /\ end = "rolled_back" => tx[m] = "rolled_back" \/ job[m].pc \in {"mark", "refuse"}
    <2>1. CASE job[m].pc = "begin"  BY <2>1 DEF CancelUpdate, At
    <2>2. CASE job[m].pc = "commit"  BY <2>2 DEF CancelUpdate, At
    <2>3. CASE job[m].pc \in {"mark", "refuse"}  BY <2>3 DEF CancelUpdate, At
    <2>4. CASE job[m].pc \notin {"begin", "commit", "mark", "refuse"}  BY <2>4 DEF CancelUpdate, At
    <2> QED  BY <2>1, <2>2, <2>3, <2>4
  <1>4. Aside(m)
    <2>1. tx[m] \in Txs  BY DEF TypeOK
    <2>2. end \in Txs  BY <2>1 DEF Txs
    <2> QED  BY <1>1, <1>2, <1>3, <2>2, AsideOf
  <1>5. m \in stored' /\ tx'[m] = "rolled_back" => m \in late'
    <2>1. tx'[m] = end  BY <1>3 DEF TypeOK
    <2>2. job[m].pc = "refuse" => m \notin stored  BY DEF StoredLate, Registered
    <2>3. job[m].pc = "upsert" => tx[m] = "pending"  BY DEF Told
    <2> QED  BY <1>2, <1>3, <2>1, <2>2, <2>3 DEF Told
  <1>6. job'[m].pc = "done" /\ job'[m].result = "cancelled"  BY <1>1 DEF Comes
  <1> QED  BY <1>4, <1>5, <1>6 DEF Told

------------------------------------------------------------------------------
(* The updates of a cycle. *)

LEMMA ToldAside ==
    ASSUME TypeOK, NEW m \in Mod, Told(m), job'[m] = job[m], tx'[m] = tx[m],
           m \in stored' <=> m \in stored, m \in late' <=> m \in late, faults' >= faults,
           faults \in Nat, faults' \in Nat
    PROVE  Told(m)'
  BY DEF Told

LEMMA AdvanceKeeps ==
    ASSUME TypeOK, TypeOK', Telling, NEW m \in Mod, Aside(m), Told(m)', job'[m].pc # "idle",
           cycle'.pc = cycle.pc,
           cycle.pc = "aborting" \/ (cycle.pc = "running" /\ job'[m].result # "cancelled")
    PROVE  Telling'
  <1>0. faults \in Nat /\ faults' \in Nat  BY UpdatesAssumption DEF TypeOK
  <1> SUFFICES ASSUME NEW i \in Mod PROVE (Told(i) /\ Grouped(i))'
    BY DEF Telling
  <1>1. CASE i = m  BY <1>1 DEF Grouped
  <1>2. CASE i # m
    <2>1. Told(i)'  BY <1>0, <1>2, ToldAside DEF Aside, Telling
    <2>2. job'[i] = job[i]  BY <1>2 DEF Aside
    <2>3. Grouped(i)'  BY <2>2 DEF Telling, Grouped
    <2> QED  BY <2>1, <2>3
  <1> QED  BY <1>1, <1>2

LEMMA UpdatingTells ==
    ASSUME IInv, TypeOK', Telling, NEW m \in Mod, Updating(m)
    PROVE  Telling'
  <1>0. TypeOK /\ StoredLate /\ Told(m) /\ Grouped(m) /\ cycle.pc = "running"
    BY DEF IInv, Consent, Telling, Updating
  <1>1. CASE Asks(m)
    <2>1. /\ job' = job /\ cycle' = cycle /\ tx' = tx /\ stored' = stored
          /\ late' = late /\ faults' = faults
      BY <1>1 DEF Asks, engine
    <2> QED  BY <2>1 DEF Telling, Told, Grouped
  <1>2. CASE ~Asks(m)
    <2>1. Advances(m)
      BY <1>0, <1>2, BeginTells, FetchTells, FetchReturnsTells, FetchFailsTells, DownloadTells,
         RefuseTells, UpsertTells, LogTaskTells, CommitTells, MarkTells
      DEF Updating, Downloading
    <2>2. cycle' = cycle
      BY <1>2 DEF Updating, Begin, Fetch, FetchReturns, FetchFails, Downloading, FileInfo, Decided,
                  OpenFile, Written, WriteFails, ManualDownload, NotOurs, Refuse, Upsert, LogTask, Commit, Mark
    <2> QED  BY <1>0, <2>1, <2>2, AdvanceKeeps DEF Advances
  <1> QED  BY <1>1, <1>2

LEMMA AgentTells ==
    ASSUME TypeOK, TypeOK', Telling, \A m \in Mod : job'[m] = job[m], cycle'.pc = cycle.pc,
           UNCHANGED <<tx, stored, late>>, UNCHANGED faults \/ Fault
    PROVE  Telling'
  <1>1. faults \in Nat /\ faults' \in Nat /\ faults' >= faults  BY UpdatesAssumption DEF TypeOK, Fault
  <1> SUFFICES ASSUME NEW i \in Mod PROVE (Told(i) /\ Grouped(i))'
    BY DEF Telling
  <1>2. Told(i)'  BY <1>1, ToldAside DEF Telling
  <1>3. Grouped(i)'  BY DEF Telling, Grouped
  <1> QED  BY <1>2, <1>3

\* The agent's task is none of a cycle's.
LEMMA AgentAside ==
    ASSUME IInv, Downloading(Agent) \/ AgentDownloads \/ CancelAgent
    PROVE  /\ \A m \in Mod : job'[m] = job[m]
           /\ cycle'.pc = cycle.pc
           /\ UNCHANGED <<tx, stored, late>>
           /\ UNCHANGED faults \/ Fault
  <1>0. TypeOK /\ Agent \in Id /\ Agent \notin Mod /\ Mod \subseteq Id  BY UpdatesAssumption DEF IInv
  <1>1. CASE Asks(Agent)  BY <1>1 DEF Asks, engine
  <1>2. CASE FileInfo(Agent) \/ OpenFile(Agent) \/ Written(Agent) \/ WriteFails(Agent) \/ ManualDownload(Agent)
    <2>1. JobStep(Agent)
      BY <1>0, <1>2, FileInfoStep, OpenFileStep, WrittenStep, WriteFailsStep, ManualDownloadStep
    <2>2. UNCHANGED <<cycle, tx, stored, late, faults>>
      BY <1>2 DEF FileInfo, OpenFile, Written, WriteFails, ManualDownload, NotOurs
    <2> QED  BY <1>0, <2>1, <2>2 DEF JobStep
  <1>3. CASE Decided(Agent)
    <2>1. UNCHANGED <<cycle, tx, stored, late, faults>>  BY <1>3 DEF Decided
    <2>2. GoTo(Agent, "download") \/ Ends(Agent, "done", "error")  BY <1>3 DEF Decided, Refused
    <2>3. \A m \in Mod : job'[m] = job[m]
      BY <1>0, <2>2, GoesTo, Ended DEF Moves, Pcs, Results
    <2> QED  BY <2>1, <2>3
  <1>4. CASE AgentDownloads
    <2>1. JobStep(Agent)  BY <1>4, AgentDownloadsStep
    <2> QED  BY <1>0, <1>4, <2>1 DEF AgentDownloads, JobStep, TypeOK
  <1>5. CASE CancelAgent
    <2>1. Moves(Agent, {"done"})  BY <1>0, <1>5, Ended DEF CancelAgent, Pcs, Results, Moves
    <2> QED  BY <1>0, <1>5, <2>1 DEF CancelAgent, Moves
  <1> QED  BY <1>1, <1>2, <1>3, <1>4, <1>5 DEF Downloading

LEMMA StartCycleTells ==
    ASSUME TypeOK, StartCycle
    PROVE  Telling'
  <1>1. cycle'.pc = "running"  BY DEF StartCycle, TypeOK
  <1>2. /\ tx' = [m \in Mod |-> "none"] /\ stored' = {} /\ late' = {}
    BY DEF StartCycle
  <1>3. \A m \in Mod : job'[m] = [Fresh EXCEPT !.pc = "begin"]
    BY UpdatesAssumption DEF StartCycle
  <1>4. \A m \in Mod : job'[m].pc = "begin" /\ job'[m].result = "none"
    BY <1>3 DEF Fresh
  <1> SUFFICES ASSUME NEW m \in Mod PROVE (Told(m) /\ Grouped(m))'
    BY DEF Telling
  <1> QED  BY <1>1, <1>2, <1>4 DEF Told, Grouped

LEMMA GroupTells ==
    ASSUME IInv, Telling, Aborts \/ CycleOver \/ BreakerRecovers
    PROVE  Telling'
  <1>1. UNCHANGED <<job, tx, stored, late, faults>>
    BY DEF Aborts, CycleOver, BreakerRecovers
  <1>2. \A m \in Mod : Told(m)'  BY <1>1 DEF Telling, Told
  <1>3. \A m \in Mod : Grouped(m)'
    <2>1. CASE Aborts
      <3>1. cycle.pc = "running" /\ cycle'.pc = "aborting"  BY <2>1 DEF Aborts, IInv, TypeOK
      <3> QED  BY <1>1, <3>1 DEF Telling, Grouped
    <2>2. CASE CycleOver /\ cycle.pc = "running"
      <3>1. cycle'.pc = "returned"  BY <2>2 DEF CycleOver, IInv, TypeOK
      <3> QED  BY <1>1, <2>2, <3>1 DEF Telling, Grouped, CycleOver
    <2>3. CASE CycleOver /\ cycle.pc # "running"
      <3>1. cycle.pc = "aborting" /\ cycle'.pc = "raised"  BY <2>3 DEF CycleOver, IInv, TypeOK
      <3> QED  BY <1>1, <3>1 DEF Telling, Grouped
    <2>4. CASE BreakerRecovers  BY <1>1, <2>4 DEF BreakerRecovers, Telling, Grouped
    <2> QED  BY <2>1, <2>2, <2>3, <2>4
  <1> QED  BY <1>2, <1>3 DEF Telling

LEMMA NextTells ==
    ASSUME IInv, Telling, [Next]_vars
    PROVE  Telling'
  <1>0. IInv' /\ TypeOK /\ TypeOK' /\ StoredLate  BY NextStep DEF IInv, Consent
  <1>1. CASE Aborts \/ CycleOver \/ BreakerRecovers  BY <1>1, GroupTells
  <1>2. ASSUME NEW m \in Mod, CancelUpdate(m) PROVE Telling'
    <2>1. cycle' = cycle /\ cycle.pc = "aborting"  BY <1>2 DEF CancelUpdate
    <2>2. Told(m)  BY DEF Telling
    <2>3. Aside(m) /\ Told(m)' /\ job'[m].pc # "idle"  BY <1>0, <1>2, <2>2, CancelTells
    <2> QED  BY <1>0, <2>1, <2>3, AdvanceKeeps
  <1>3. CASE Downloading(Agent) \/ AgentDownloads \/ CancelAgent
    BY <1>0, <1>3, AgentAside, AgentTells
  <1>4. ASSUME NEW m \in Mod, Updating(m) PROVE Telling'  BY <1>0, <1>4, UpdatingTells
  <1>5. CASE StartCycle  BY <1>0, <1>5, StartCycleTells
  <1>6. CASE (Channel /\ UNCHANGED engine) \/ UNCHANGED vars
    <2>1. UNCHANGED <<job, cycle, tx, stored, late, faults>>  BY <1>6 DEF vars, engine
    <2> QED  BY <2>1 DEF Telling, Told, Grouped
  <1> QED
    BY <1>1, <1>2, <1>3, <1>4, <1>5, <1>6 DEF Next, Tasks, Grouping

\* When a cycle is over, a mod that is reported as updated is committed and registered, what
\* is marked as rolled back was not registered, unless it failed after the upsert, and only
\* a cancelled task or a failed marking leaves a transaction pending: for any number of
\* mods, cycles and faults.
THEOREM CycleToldTruly == Spec => []CycleTells
  <1>1. Init => Telling
    <2> SUFFICES ASSUME Init, NEW m \in Mod PROVE Told(m) /\ Grouped(m)
      BY DEF Telling
    <2>1. job[m].pc = "idle" /\ job[m].result = "none"  BY UpdatesAssumption DEF Init, Fresh
    <2>2. tx[m] = "none" /\ stored = {} /\ cycle.pc = "idle"  BY DEF Init
    <2> QED  BY <2>1, <2>2 DEF Told, Grouped
  <1>2. IInv /\ Telling /\ [Next]_vars => Telling'  BY NextTells
  <1>3. IInv /\ Telling => CycleTells
    <2> SUFFICES ASSUME IInv, Telling, cycle.pc \in {"returned", "raised"}, NEW m \in Mod
                 PROVE  /\ cycle.pc = "returned" => job[m].result \in {"updated", "current", "error", "isolated"}
                        /\ job[m].result = "updated" => tx[m] = "committed" /\ m \in stored
                        /\ tx[m] = "rolled_back" => m \notin stored \ late
                        /\ tx[m] = "pending" => job[m].result = "cancelled" \/ faults > 0
      BY DEF CycleTells
    <2>1. job[m].pc = "done"  BY DEF IInv, Between, Telling, Grouped
    <2>2. job[m].result \in Results  BY UpdatesAssumption DEF IInv, TypeOK
    <2> QED  BY <2>1, <2>2 DEF Telling, Told, Grouped, Results
  <1> QED  BY <1>1, <1>2, <1>3, Invariance, PTL DEF Spec

------------------------------------------------------------------------------
(* The files. *)

\* A step that neither writes nor goes on to the registry's upsert.
Quiet ==
    /\ UNCHANGED <<file, opened>>
    /\ \A j \in Id :
           /\ job'[j].pc \in {"writing", "upsert"} => job'[j].pc = job[j].pc
           /\ job'[j].pc = "log" => job[j].pc \in {"upsert", "log"}
    /\ \A m \in stored' : m \in stored \/ (m \in Mod /\ job[m].pc = "upsert")

LEMMA QuietKeeps ==
    ASSUME Keeping, Quiet
    PROVE  Keeping'
  <1>1. Agent \in Id /\ SameFile \in Mod /\ Mod \subseteq Id  BY UpdatesAssumption
  <1>2. Sharing'  BY <1>1 DEF Keeping, Sharing, Quiet
  <1>3. \A m \in Mod : Complete(m)'  BY <1>1 DEF Keeping, Complete, Shared, Quiet
  <1> QED  BY <1>2, <1>3 DEF Keeping

LEMMA MovesQuietly ==
    ASSUME NEW j \in Id, NEW pcs, Moves(j, pcs), pcs \cap {"writing", "upsert"} = {},
           "log" \in pcs => job[j].pc = "upsert", UNCHANGED <<file, opened>>,
           \A m \in stored' : m \in stored \/ (m \in Mod /\ job[m].pc = "upsert")
    PROVE  Quiet
  BY DEF Quiet, Moves

LEMMA UpdateQuiet ==
    ASSUME TypeOK, NEW m \in Mod,
           \/ Begin(m) \/ Fetch(m) \/ FetchReturns(m) \/ FetchFails(m)
           \/ Refuse(m) \/ Upsert(m) \/ LogTask(m) \/ Commit(m) \/ Mark(m)
    PROVE  Quiet
  <1>0. m \in Id  BY UpdatesAssumption
  <1>1. UNCHANGED <<file, opened>>
    BY DEF Begin, Fetch, FetchReturns, FetchFails, Refuse, Upsert, LogTask, Commit, Mark
  <1>2. \A i \in stored' : i \in stored \/ (i \in Mod /\ job[i].pc = "upsert")
    BY DEF Begin, Fetch, FetchReturns, FetchFails, Refuse, Upsert, LogTask, Commit, Mark, At
  <1>3. CASE Upsert(m)
    <2>1. Moves(m, {"log", "mark", "done"})
      <3>1. CASE GoTo(m, "log")  BY <1>0, <3>1, GoesTo DEF Pcs, Moves
      <3>2. CASE Fails(m, "raised")  BY <1>0, <3>2, Failed DEF Results, Moves
      <3> QED  BY <1>3, <3>1, <3>2 DEF Upsert
    <2>2. job[m].pc = "upsert"  BY <1>3 DEF Upsert, At
    <2> QED  BY <1>0, <1>1, <1>2, <2>1, <2>2, MovesQuietly
  <1>4. CASE ~Upsert(m)
    <2> DEFINE pcs == {"fetch", "fetching", "info", "commit", "mark", "done"}
    <2>1. ASSUME NEW pc \in pcs, GoTo(m, pc) PROVE Moves(m, pcs)
      BY <1>0, <2>1, GoesTo DEF Pcs, Moves
    <2>2. ASSUME NEW pc \in pcs, NEW result \in Results, Ends(m, pc, result) PROVE Moves(m, pcs)
      BY <1>0, <2>2, Ended DEF Pcs, Moves
    <2>3. ASSUME NEW result \in Results, Fails(m, result) PROVE Moves(m, pcs)
      BY <1>0, <2>3, Failed DEF Moves
    <2>4. ASSUME Retry(m) PROVE Moves(m, pcs)
      BY <1>0, <2>4, Retried DEF Moves
    <2>5. ASSUME Becomes(m, [job[m] EXCEPT !.pc = "fetching"]) PROVE Moves(m, pcs)
      BY <1>0, <2>5, Steps DEF Pcs, Moves
    <2>6. {"error", "current", "updated", "isolated", "raised"} \subseteq Results  BY DEF Results
    <2>7. Moves(m, pcs)
      <3> HIDE DEF pcs
      <3>1. {"fetch", "info", "commit", "done"} \subseteq pcs  BY DEF pcs
      <3>2. CASE Begin(m)  BY <2>1, <2>3, <2>6, <3>1, <3>2 DEF Begin
      <3>3. CASE Fetch(m)  BY <2>4, <2>5, <3>3 DEF Fetch
      <3>4. CASE FetchReturns(m)  BY <2>1, <2>2, <2>6, <3>1, <3>4 DEF FetchReturns
      <3>5. CASE FetchFails(m)  BY <2>3, <2>4, <2>6, <3>5 DEF FetchFails
      <3>6. CASE Refuse(m)  BY <2>2, <2>3, <2>6, <3>1, <3>6 DEF Refuse
      <3>7. CASE LogTask(m)  BY <2>2, <2>3, <2>6, <3>1, <3>7 DEF LogTask
      <3>8. CASE Commit(m)  BY <2>1, <2>3, <2>6, <3>1, <3>8 DEF Commit
      <3>9. CASE Mark(m)  BY <2>1, <3>1, <3>9 DEF Mark
      <3> QED  BY <1>4, <3>2, <3>3, <3>4, <3>5, <3>6, <3>7, <3>8, <3>9
    <2> QED  BY <1>0, <1>1, <1>2, <2>7, MovesQuietly
  <1> QED  BY <1>3, <1>4

LEMMA RequestQuiet ==
    ASSUME TypeOK, NEW j \in Id, FileInfo(j) \/ Asks(j) \/ Decided(j)
    PROVE  Quiet
  <1>1. CASE Asks(j)
    <2>1. UNCHANGED <<job, stored, file, opened>>  BY <1>1 DEF Asks, engine
    <2> QED  BY <2>1 DEF Quiet
  <1>2. CASE FileInfo(j)
    <2>1. Moves(j, {"ask", "mark", "done"})
      <3>1. CASE GoTo(j, "ask")  BY <3>1, GoesTo DEF Pcs, Moves
      <3>2. CASE \E result \in {"error", "isolated", "raised"} : Fails(j, result)
        BY <3>2, Failed DEF Results, Moves
      <3>3. CASE Ends(j, "done", "error")  BY <3>3, Ended DEF Pcs, Results, Moves
      <3> QED  BY <1>2, <3>1, <3>2, <3>3 DEF FileInfo
    <2>2. UNCHANGED <<stored, file, opened>>  BY <1>2 DEF FileInfo
    <2> QED  BY <2>1, <2>2, MovesQuietly
  <1>3. CASE Decided(j)
    <2>1. Moves(j, {"download", "refuse", "done"})
      <3>1. CASE GoTo(j, "download")  BY <3>1, GoesTo DEF Pcs, Moves
      <3>2. CASE Refused(j) /\ j = Agent  BY <3>2, Ended DEF Refused, Pcs, Results, Moves
      <3>3. CASE Refused(j) /\ j # Agent  BY <3>3, GoesTo DEF Refused, Pcs, Moves
      <3> QED  BY <1>3, <3>1, <3>2, <3>3 DEF Decided
    <2>2. UNCHANGED <<stored, file, opened>>  BY <1>3 DEF Decided
    <2> QED  BY <2>1, <2>2, MovesQuietly
  <1> QED  BY <1>1, <1>2, <1>3

LEMMA OtherQuiet ==
    ASSUME IInv,
           \/ Grouping \/ StartCycle \/ BreakerRecovers \/ AgentDownloads \/ CancelAgent
           \/ (Channel /\ UNCHANGED engine) \/ UNCHANGED vars
    PROVE  Quiet
  <1>0. TypeOK /\ Agent \in Id /\ Agent \notin Mod /\ Mod \subseteq Id  BY UpdatesAssumption DEF IInv
  <1>1. CASE Aborts \/ CycleOver \/ BreakerRecovers \/ (Channel /\ UNCHANGED engine) \/ UNCHANGED vars
    <2>1. UNCHANGED <<job, stored, file, opened>>
      BY <1>1 DEF Aborts, CycleOver, BreakerRecovers, engine, vars
    <2> QED  BY <2>1 DEF Quiet
  <1>2. ASSUME NEW m \in Mod, CancelUpdate(m) PROVE Quiet
    <2>1. Moves(m, {"done"})  BY <1>0, <1>2, Ended DEF CancelUpdate, Pcs, Results, Moves
    <2>2. UNCHANGED <<file, opened>>  BY <1>2 DEF CancelUpdate
    <2>3. \A i \in stored' : i \in stored \/ (i \in Mod /\ job[i].pc = "upsert")
      BY <1>2 DEF CancelUpdate, At
    <2> QED  BY <1>0, <2>1, <2>2, <2>3, MovesQuietly
  <1>3. CASE StartCycle
    <2>1. \A i \in Id : job'[i] = IF i \in Mod THEN [Fresh EXCEPT !.pc = "begin"] ELSE job[i]
      BY <1>3 DEF StartCycle
    <2>2. \A i \in Id : job'[i] = job[i] \/ job'[i].pc = "begin"  BY <2>1 DEF Fresh
    <2>3. UNCHANGED <<file, opened>> /\ stored' = {}  BY <1>3 DEF StartCycle
    <2> QED  BY <2>2, <2>3 DEF Quiet
  <1>4. CASE AgentDownloads
    <2>1. Becomes(Agent, [Fresh EXCEPT !.pc = "info"])  BY <1>4 DEF AgentDownloads
    <2>2. \A i \in Id : job'[i] = job[i] \/ job'[i].pc = "info"
      BY <1>0, <2>1 DEF Becomes, Fresh, TypeOK
    <2>3. UNCHANGED <<file, opened, stored>>  BY <1>4 DEF AgentDownloads
    <2> QED  BY <2>2, <2>3 DEF Quiet
  <1>5. CASE CancelAgent
    <2>1. Moves(Agent, {"done"})  BY <1>0, <1>5, Ended DEF CancelAgent, Pcs, Results, Moves
    <2>2. UNCHANGED <<file, opened, stored>>  BY <1>5 DEF CancelAgent
    <2> QED  BY <1>0, <2>1, <2>2, MovesQuietly
  <1> QED  BY <1>1, <1>2, <1>3, <1>4, <1>5 DEF Grouping

\* What a step of a download does to its file.
Writes(j, contents) == file' = [file EXCEPT ![File(j)] = contents]

Opening(j) == job'[j].pc = "writing" /\ Opens(j) /\ \E contents \in Contents : Writes(j, contents)
Finishing(j) ==
    /\ job'[j].pc \in {"upsert", "done"} /\ (job'[j].pc = "upsert" => j \in Mod)
    /\ \/ Opens(j) /\ Writes(j, "good")
       \/ /\ job[j].pc = "writing" /\ UNCHANGED opened
          /\ \E contents \in Contents : Writes(j, contents) /\ (contents = "good" \/ Shared(File(j)))
Breaking(j) ==
    /\ job[j].pc = "writing" /\ job'[j].pc \in {"download", "mark", "done"} /\ UNCHANGED opened
    /\ \E contents \in Contents : Writes(j, contents)
NotOpening(j) == job'[j].pc \in {"mark", "done"} /\ UNCHANGED <<opened, file>>

LEMMA WriteMoves ==
    ASSUME TypeOK, NEW j \in Id, OpenFile(j) \/ Written(j) \/ WriteFails(j) \/ ManualDownload(j)
    PROVE  /\ \A i \in Id \ {j} : job'[i] = job[i]
           /\ Opening(j) \/ Finishing(j) \/ Breaking(j) \/ NotOpening(j)
  <1>0. j # Agent => j \in Mod  BY UpdatesAssumption
  <1>1. {"none", "partial", "good"} \subseteq Contents  BY DEF Contents
  <1>2. CASE OpenFile(j)
    <2>1. CASE Becomes(j, [job[j] EXCEPT !.pc = "writing"]) /\ Opens(j) /\ Leaves(j, "partial")
      <3>1. Moves(j, {"writing"})  BY <2>1, Steps DEF Pcs
      <3>2. Writes(j, "partial")  BY <2>1 DEF Leaves, Writes
      <3> QED  BY <1>1, <2>1, <3>1, <3>2 DEF Moves, Opening
    <2>2. CASE DownloadError(j) /\ UNCHANGED <<opened, file>>
      BY <2>2, DownloadErrorMoves DEF Moves, NotOpening
    <2>3. CASE Fails(j, "isolated") /\ UNCHANGED <<opened, file>>
      BY <2>3, Failed DEF Moves, NotOpening, Results
    <2> QED  BY <1>2, <2>1, <2>2, <2>3 DEF OpenFile
  <1>3. CASE Written(j) \/ ManualDownload(j)
    <2>1. Downloaded(j)  BY <1>3 DEF Written, ManualDownload
    <2>2. \A i \in Id \ {j} : job'[i] = job[i]  BY <2>1, DownloadedMoves DEF Moves
    <2>3. job'[j].pc \in {"upsert", "done"}  BY <2>1, DownloadedMoves DEF Moves
    <2>4. job'[j].pc = "upsert" => j \in Mod
      <3>1. CASE j = Agent
        <4>1. Moves(j, {"done"})  BY <2>1, <3>1, Ended DEF Downloaded, Pcs, Results
        <4> QED  BY <4>1 DEF Moves
      <3> QED  BY <1>0, <3>1
    <2>5. CASE ManualDownload(j)
      <3>1. Opens(j) /\ Writes(j, "good")  BY <2>5 DEF ManualDownload, Leaves, Writes
      <3> QED  BY <2>2, <2>3, <2>4, <3>1 DEF Finishing
    <2>6. CASE Written(j)
      <3>1. job[j].pc = "writing" /\ UNCHANGED opened  BY <2>6 DEF Written, At
      <3>2. \E contents \in Contents : Writes(j, contents) /\ (contents = "good" \/ Shared(File(j)))
        BY <1>1, <2>6 DEF Written, Leaves, Writes
      <3> QED  BY <2>2, <2>3, <2>4, <3>1, <3>2 DEF Finishing
    <2> QED  BY <1>3, <2>5, <2>6
  <1>4. CASE WriteFails(j)
    <2>1. job[j].pc = "writing" /\ UNCHANGED opened  BY <1>4 DEF WriteFails, At
    <2>2. \E contents \in Contents : Writes(j, contents)
      BY <1>1, <1>4 DEF WriteFails, Leaves, Writes
    <2>3. Moves(j, {"download", "mark", "done"})
      <3>1. CASE DownloadError(j)  BY <3>1, DownloadErrorMoves DEF Moves
      <3>2. CASE job[j].try < MaxTries /\ Becomes(j, [job[j] EXCEPT !.pc = "download", !.try = @ + 1])
        BY <3>2, TriesAgain DEF Pcs, Moves
      <3> QED  BY <1>4, <3>1, <3>2 DEF WriteFails
    <2> QED  BY <2>1, <2>2, <2>3 DEF Moves, Breaking
  <1> QED  BY <1>2, <1>3, <1>4

\* A download writes to its own file, which another task relies on only if they share it.
LEMMA WriteKeeps ==
    ASSUME IInv, Keeping, NEW j \in Id, OpenFile(j) \/ Written(j) \/ WriteFails(j) \/ ManualDownload(j)
    PROVE  Keeping'
  <1>0. TypeOK /\ Mod \subseteq Id /\ Agent \in Id /\ Agent \notin Mod /\ SameFile \in Mod /\ (j # Agent => j \in Mod)
    BY UpdatesAssumption DEF IInv
  <1>1. stored' = stored  BY DEF OpenFile, Written, WriteFails, ManualDownload, NotOurs
  <1>2. j \notin stored
    BY DEF OpenFile, Written, WriteFails, ManualDownload, At, IInv, Consent, StoredLate, Registered
  <1>3. /\ \A i \in Id \ {j} : job'[i] = job[i]
        /\ Opening(j) \/ Finishing(j) \/ Breaking(j) \/ NotOpening(j)
    BY <1>0, WriteMoves
  <1>4. opened \subseteq opened'
    BY <1>3 DEF Opening, Finishing, Breaking, NotOpening, Opens
  <1>5. /\ job[j].pc = "writing" /\ File(j) = SameFile => j \in opened
        /\ Opens(j) /\ File(j) = SameFile => j \in opened'
    BY <1>0 DEF Keeping, Sharing, File, Opens
  <1>6. Sharing'
    <2>1. job'[Agent].pc = "writing" => Agent \in opened'
      <3>1. CASE j = Agent
        <4>1. job'[j].pc = "writing" => Opens(j)
          BY <1>3 DEF Opening, Finishing, Breaking, NotOpening
        <4> QED  BY <1>5, <3>1, <4>1 DEF File
      <3>2. CASE j # Agent  BY <1>0, <1>3, <1>4, <3>2 DEF Keeping, Sharing
      <3> QED  BY <3>1, <3>2
    <2>2. job'[SameFile].pc \in {"writing", "upsert", "log"} \/ SameFile \in stored' => SameFile \in opened'
      <3>1. CASE j = SameFile
        <4>1. File(j) = SameFile  BY <1>0, <3>1 DEF File
        <4>2. job'[j].pc \in {"writing", "upsert", "log"} => Opens(j) \/ job[j].pc = "writing"
          BY <1>3 DEF Opening, Finishing, Breaking, NotOpening
        <4> QED  BY <1>1, <1>2, <1>4, <1>5, <3>1, <4>1, <4>2
      <3>2. CASE j # SameFile  BY <1>0, <1>1, <1>3, <1>4, <3>2 DEF Keeping, Sharing
      <3> QED  BY <3>1, <3>2
    <2> QED  BY <2>1, <2>2 DEF Sharing
  <1>7. ASSUME NEW m \in Mod PROVE Complete(m)'
    <2>1. Shared(m) => Shared(m)'  BY <1>4 DEF Shared
    <2>2. CASE m # File(j)
      <3>1. m # j /\ job'[m] = job[m]  BY <1>0, <1>3, <2>2 DEF File
      <3>2. file'[m] = file[m]
        BY <1>0, <1>3, <2>2 DEF Opening, Finishing, Breaking, NotOpening, Writes, TypeOK
      <3> QED  BY <1>1, <2>1, <3>1, <3>2 DEF Keeping, Complete
    <2>3. CASE m = j
      <3>1. File(j) = m  BY <1>0, <2>3 DEF File
      <3>2. job'[m].pc \in {"upsert", "log"} => Finishing(j)
        BY <1>3, <2>3 DEF Opening, Breaking, NotOpening
      <3>3. Finishing(j) => file'[m] = "good" \/ Shared(m)'
        BY <1>0, <2>1, <3>1 DEF Finishing, Writes, TypeOK
      <3> QED  BY <1>1, <1>2, <2>3, <3>2, <3>3 DEF Complete
    <2>4. CASE m = File(j) /\ m # j
      <3>1. j = Agent /\ m = SameFile  BY <1>0, <2>4 DEF File
      <3>2. job'[m] = job[m]  BY <1>0, <1>3, <2>4
      <3>3. NotOpening(j) \/ Agent \in opened'
        BY <1>3, <1>4, <1>5, <2>4, <3>1 DEF Opening, Finishing, Breaking
      <3>4. CASE NotOpening(j)
        BY <1>1, <2>1, <3>2, <3>4 DEF NotOpening, Keeping, Complete
      <3>5. CASE Agent \in opened'
        BY <1>1, <1>6, <3>1, <3>2, <3>5 DEF Complete, Sharing, Shared
      <3> QED  BY <3>3, <3>4, <3>5
    <2> QED  BY <2>2, <2>3, <2>4
  <1> QED  BY <1>6, <1>7 DEF Keeping

LEMMA NextKeeps ==
    ASSUME IInv, Keeping, [Next]_vars
    PROVE  Keeping'
  <1>0. TypeOK /\ Agent \in Id /\ Mod \subseteq Id  BY UpdatesAssumption DEF IInv
  <1>1. ASSUME NEW j \in Id, Downloading(j) PROVE Keeping'
    BY <1>0, <1>1, RequestQuiet, QuietKeeps, WriteKeeps DEF Downloading
  <1>2. ASSUME NEW m \in Mod, Updating(m) PROVE Keeping'
    BY <1>0, <1>1, <1>2, UpdateQuiet, QuietKeeps DEF Updating
  <1>3. CASE \/ Grouping \/ StartCycle \/ BreakerRecovers \/ AgentDownloads \/ CancelAgent
             \/ (Channel /\ UNCHANGED engine) \/ UNCHANGED vars
    BY <1>3, OtherQuiet, QuietKeeps
  <1> QED  BY <1>0, <1>1, <1>2, <1>3 DEF Next, Tasks

\* A version is registered only when its file is complete in the staging directory, however
\* often the download was broken off, tried again or given up before, except for the one
\* file that the agent and an update may write at the same time.
THEOREM RegisteredDelivered == Spec => []Delivered
  <1>1. Init => Keeping
    <2> SUFFICES ASSUME Init PROVE Keeping
      OBVIOUS
    <2>1. \A j \in Id : job[j].pc = "idle"  BY DEF Init, Fresh
    <2>2. stored = {}  BY DEF Init
    <2> QED  BY <2>1, <2>2, UpdatesAssumption DEF Keeping, Sharing, Complete
  <1>2. IInv /\ Keeping /\ [Next]_vars => Keeping'  BY NextKeeps
  <1>3. IInv /\ Keeping => Delivered  BY DEF IInv, TypeOK, Keeping, Complete, Delivered
  <1> QED  BY <1>1, <1>2, <1>3, Invariance, PTL DEF Spec
==============================================================================
