------------------------- MODULE ToolPipelinesProofs -------------------------
(***************************************************************************)
(* Theorems about ToolPipelines, for every set of runs, plugins and locks, *)
(* every place of cancellation, every set of faults, every TTL and every   *)
(* bound on the clock.                                                     *)
(***************************************************************************)
EXTENDS ToolPipelines, TLAPS

\* What a run may be changed to in one field or another.
LEMMA ContentTypes ==
  /\ Missing \in Content /\ Original \in Content
  /\ \A s \in Run : Torn(s) \in Content /\ Output(s) \in Content
  BY DEF Content, Missing, Original, Torn, Output

LEMMA RowTypes ==
  /\ NoRow \in Row
  /\ \A r \in Row, a \in Agent, n \in 0..MaxTime :
        Upsert(r, a, n, TTL) \in Row /\ Delete(r, a) \in Row
  BY PipelineAssumption DEF Row, NoRow, Upsert, Delete

LEMMA FreshType == Fresh \in RunState
  BY ContentTypes, PipelineAssumption DEF Fresh, RunState, Exc, TxStatus, Await

LEMMA TypeInit == Init => TypeOK
  BY ContentTypes, RowTypes, FreshType, PipelineAssumption DEF Init, TypeOK

\* An action that changes one run, and that to a well-typed one.
LEMMA RunReplaced ==
  ASSUME run \in [Run -> RunState], NEW s \in Run, NEW d \in RunState,
         run' = [run EXCEPT ![s] = d]
  PROVE  run' \in [Run -> RunState]
  OBVIOUS

LEMMA AfterReleaseType ==
  ASSUME NEW s \in Run, NEW exc \in Exc
  PROVE  AfterRelease(s, exc) \in {"commit", "done", "mark", "publish"}
  BY DEF AfterRelease

LEMMA GoToOK ==
  ASSUME run \in [Run -> RunState], NEW s \in Run,
         NEW pc \in Await \cup {"idle", "done", "dead"}, GoTo(s, pc)
  PROVE  run' \in [Run -> RunState]
  BY DEF Becomes, GoTo, RunState

LEMMA SucceedOK ==
  ASSUME good \in [File -> Content], spoiled \subseteq File, NEW s \in Run,
         FileOf[s] \in File, Succeed(s)
  PROVE  good' \in [File -> Content] /\ spoiled' \subseteq File
  BY ContentTypes DEF Succeed

LEMMA TypeProgress ==
  ASSUME TypeOK, NEW s \in Run, Start(s) \/ Progress(s)
  PROVE  TypeOK'
<1>1. run \in [Run -> RunState] /\ run[s] \in RunState /\ MyFile(s) \in Content
      /\ now \in 0..MaxTime /\ run[s].exc \in Exc /\ run[s].snap \in Content
      /\ FileOf[s] \in File /\ LockOf[s] \in Resource /\ AgentOf[s] \in Agent
      /\ row[LockOf[s]] \in Row
  BY PipelineAssumption DEF TypeOK, RunState, MyFile
<1>2. CASE Start(s)
  BY <1>1, <1>2 DEF Becomes, Start, TypeOK, RunState, Await
<1>3. CASE Acquire(s)
  <2>1. now + TTL \in 0..MaxTime + TTL
    BY <1>1, PipelineAssumption
  <2>2. run' \in [Run -> RunState]
    <3>1. run' = [run EXCEPT ![s] = [run[s] EXCEPT !.pc = "snapshot", !.expires = now + TTL]]
      BY <1>1, <1>3 DEF Becomes, Acquire
    <3>2. [run[s] EXCEPT !.pc = "snapshot", !.expires = now + TTL] \in RunState
      BY <1>1, <2>1 DEF Becomes, RunState, Await
    <3> QED
      BY <1>1, <3>1, <3>2
  <2>3. Upsert(row[LockOf[s]], AgentOf[s], now, TTL) \in Row
    BY <1>1, RowTypes
  <2>4. row' \in [Resource -> Row]
    BY <1>1, <1>3, <2>3 DEF Becomes, Acquire, TakeLock, TypeOK
  <2> QED
    BY <1>3, <2>2, <2>4 DEF Becomes, Acquire, TypeOK
<1>4. CASE Refused(s)
  BY <1>1, <1>4 DEF Becomes, Refused, TypeOK, RunState, Await, Exc
<1>5. CASE Snapshot(s)
  BY <1>1, <1>5, ContentTypes DEF Becomes, Snapshot, TypeOK, RunState, Await
<1>6. CASE SnapshotFails(s)
  BY <1>1, <1>6 DEF Becomes, SnapshotFails, TypeOK, RunState, Await, Exc
<1>7. CASE Begin(s)
  BY <1>1, <1>7 DEF Becomes, Begin, TypeOK, RunState, Await, TxStatus
<1>8. CASE BeginFails(s)
  <2>1. PICK tx \in {"none", "pending"} :
          Becomes(s, [run[s] EXCEPT !.pc = "restore", !.exc = "other", !.tx = tx])
    BY <1>8 DEF Becomes, BeginFails
  <2>2. [run[s] EXCEPT !.pc = "restore", !.exc = "other", !.tx = tx] \in RunState
    BY <1>1 DEF RunState, Await, TxStatus, Exc
  <2>3. run' \in [Run -> RunState]
    BY <1>1, <2>1, <2>2, RunReplaced DEF Becomes
  <2> QED
    BY <1>8, <2>3 DEF Becomes, BeginFails, TypeOK
<1>9. CASE ToolWrites(s)
  BY <1>1, <1>9, ContentTypes DEF Becomes, ToolWrites, GoTo, TypeOK, RunState, Await
<1>10. CASE ToolSucceeds(s)
  <2>1. run' \in [Run -> RunState]
    <3>1. PICK pc \in {"commit", "release"} : GoTo(s, pc)
      BY <1>10 DEF ToolSucceeds
    <3> QED
      BY <1>1, <3>1, GoToOK DEF Await
  <2>2. file' \in [File -> Content]
    <3>1. file' = [file EXCEPT ![FileOf[s]] = Output(s)]
      BY <1>10 DEF ToolSucceeds
    <3> QED
      BY <3>1, ContentTypes DEF TypeOK
  <2>3. good' \in [File -> Content] /\ spoiled' \subseteq File
    BY <1>1, <1>10, SucceedOK DEF ToolSucceeds, TypeOK
  <2> QED
    BY <1>10, <2>1, <2>2, <2>3 DEF ToolSucceeds, TypeOK
<1>11. CASE NothingToDo(s)
  BY <1>1, <1>11 DEF Becomes, NothingToDo, GoTo, TypeOK, RunState, Await
<1>12. CASE ToolFails(s)
  <2>1. PICK exc \in {"domain", "other"} : Raise(s, exc)
    BY <1>12 DEF ToolFails
  <2>2. run' \in [Run -> RunState]
    BY <1>1, <2>1 DEF Becomes, Raise, RunState, Await, Exc
  <2> QED
    BY <1>12, <2>2 DEF ToolFails, TypeOK
<1>13. CASE Commit(s)
  BY <1>1, <1>13 DEF Becomes, Commit, TypeOK, RunState, Await, TxStatus
<1>14. CASE CommitFails(s)
  <2>1. PICK pc \in {"restore", "mark"}, exc \in {"other", "late"} :
          Becomes(s, [run[s] EXCEPT !.pc = pc, !.exc = exc])
    BY <1>14 DEF CommitFails, Raise
  <2>2. [run[s] EXCEPT !.pc = pc, !.exc = exc] \in RunState
    BY <1>1 DEF RunState, Await, Exc
  <2>3. run' \in [Run -> RunState]
    BY <1>1, <2>1, <2>2, RunReplaced DEF Becomes
  <2> QED
    BY <1>14, <2>3 DEF CommitFails, TypeOK
<1>15. CASE Announce(s)
  <2>1. run' \in [Run -> RunState]
    BY <1>1, <1>15 DEF Becomes, Announce, RunState, Await
  <2>2. good' \in [File -> Content] /\ spoiled' \subseteq File
    BY <1>1, <1>15, SucceedOK DEF Becomes, Announce, TypeOK
  <2> QED
    BY <1>15, <2>1, <2>2 DEF Becomes, Announce, TypeOK
<1>16. CASE AnnounceFails(s)
  BY <1>1, <1>16 DEF Becomes, AnnounceFails, Raise, TypeOK, RunState, Await, Exc
<1>17. CASE Restore(s)
  <2>1. GoTo(s, "release")
    BY <1>17 DEF Restore, GiveUp
  <2>2. run' \in [Run -> RunState]
    BY <1>1, <2>1 DEF Becomes, GoTo, RunState, Await
  <2>3. file' \in [File -> Content] /\ spoiled' \subseteq File
    BY <1>1, <1>17 DEF Restore, GiveUp, TypeOK
  <2> QED
    BY <1>17, <2>2, <2>3 DEF Restore, TypeOK
<1>18. CASE RestoreFails(s)
  <2>1. GoTo(s, "release")
    BY <1>18 DEF RestoreFails, GiveUp
  <2>2. run' \in [Run -> RunState]
    BY <1>1, <2>1 DEF Becomes, GoTo, RunState, Await
  <2>3. file' \in [File -> Content] /\ spoiled' \subseteq File
    BY <1>1, <1>18, ContentTypes DEF RestoreFails, GiveUp, TypeOK
  <2> QED
    BY <1>18, <2>2, <2>3 DEF RestoreFails, TypeOK
<1>19. CASE Release(s) \/ ReleaseFails(s)
  <2> DEFINE pc == AfterRelease(s, run[s].exc)
  <2>1. pc \in Await \cup {"idle", "done", "dead"}
    BY <1>1, AfterReleaseType DEF Await
  <2>2. GoTo(s, pc)
    BY <1>19 DEF Release, ReleaseFails
  <2> HIDE DEF pc
  <2>3. run' \in [Run -> RunState]
    BY <1>1, <2>1, <2>2, GoToOK
  <2>4. Delete(row[LockOf[s]], AgentOf[s]) \in Row
    BY <1>1, RowTypes
  <2>5. row' \in [Resource -> Row]
    BY <1>1, <1>19, <2>4 DEF Release, ReleaseFails, TypeOK
  <2> QED
    BY <1>19, <2>3, <2>5 DEF Release, ReleaseFails, TypeOK
<1>20. CASE Mark(s)
  BY <1>1, <1>20 DEF Becomes, Mark, TypeOK, RunState, Await, TxStatus
<1>21. CASE MarkFails(s)
  BY <1>1, <1>21 DEF Becomes, MarkFails, GoTo, TypeOK, RunState, Await
<1>22. CASE Publish(s)
  BY <1>1, <1>22 DEF Becomes, Publish, Report, TypeOK, RunState, Await
<1>23. CASE PublishFails(s)
  BY <1>1, <1>23 DEF Becomes, PublishFails, GoTo, TypeOK, RunState, Await
<1> QED
  BY <1>2, <1>3, <1>4, <1>5, <1>6, <1>7, <1>8, <1>9, <1>10, <1>11, <1>12, <1>13, <1>14,
     <1>15, <1>16, <1>17, <1>18, <1>19, <1>20, <1>21, <1>22, <1>23 DEF Progress

LEMMA TypeCancel ==
  ASSUME TypeOK, NEW s \in Run, Cancel(s)
  PROVE  TypeOK'
<1>1. run \in [Run -> RunState] /\ run[s] \in RunState /\ MyFile(s) \in Content
      /\ now \in 0..MaxTime /\ run[s].exc \in Exc /\ run[s].tx \in TxStatus
      /\ FileOf[s] \in File /\ LockOf[s] \in Resource /\ AgentOf[s] \in Agent
      /\ row[LockOf[s]] \in Row
  BY PipelineAssumption DEF TypeOK, RunState, MyFile
<1>2. ASSUME NEW pc \in Await \cup {"idle", "done", "dead"}, Cancelled(s, pc)
      PROVE  run' \in [Run -> RunState]
  BY <1>1, <1>2 DEF Becomes, Cancelled, RunState, Exc
<1>3. CASE CancelEntering(s)
  <2>1. run' \in [Run -> RunState]
    BY <1>2, <1>3 DEF CancelEntering
  <2>2. Upsert(row[LockOf[s]], AgentOf[s], now, TTL) \in Row
    BY <1>1, RowTypes
  <2>3. row' \in [Resource -> Row]
    BY <1>1, <1>3, <2>2 DEF CancelEntering, TakeLock, TypeOK
  <2> QED
    BY <1>3, <2>1, <2>3 DEF CancelEntering, TypeOK
<1>4. CASE CancelBegin(s)
  <2>1. PICK tx \in {"none", "pending"} :
          Becomes(s, [run[s] EXCEPT !.pc = "restore", !.exc = "cancel", !.tx = tx])
    BY <1>4 DEF Becomes, CancelBegin
  <2>2. [run[s] EXCEPT !.pc = "restore", !.exc = "cancel", !.tx = tx] \in RunState
    BY <1>1 DEF RunState, Await, TxStatus, Exc
  <2>3. run' \in [Run -> RunState]
    BY <1>1, <2>1, <2>2, RunReplaced DEF Becomes
  <2> QED
    BY <1>4, <2>3 DEF Becomes, CancelBegin, TypeOK
<1>5. CASE CancelTool(s)
  <2> DEFINE orphan == At(s, "running")
  <2>1. orphan \in BOOLEAN
    BY DEF At
  <2>2. Becomes(s, [run[s] EXCEPT !.pc = "restore", !.exc = "cancel", !.orphan = orphan])
    BY <1>5 DEF Becomes, CancelTool
  <2> HIDE DEF orphan
  <2>3. [run[s] EXCEPT !.pc = "restore", !.exc = "cancel", !.orphan = orphan] \in RunState
    BY <1>1, <2>1 DEF RunState, Await, Exc
  <2>4. run' \in [Run -> RunState]
    BY <1>1, <2>2, <2>3, RunReplaced DEF Becomes
  <2> QED
    BY <1>5, <2>4 DEF Becomes, CancelTool, TypeOK
<1>6. CASE CancelCommit(s)
  <2>1. PICK tx \in {"pending", "committed"}, pc \in {"restore", "done"} :
          Becomes(s, [run[s] EXCEPT !.pc = pc, !.exc = "cancel", !.tx = tx])
    BY <1>6 DEF Becomes, CancelCommit
  <2>2. [run[s] EXCEPT !.pc = pc, !.exc = "cancel", !.tx = tx] \in RunState
    BY <1>1 DEF RunState, Await, TxStatus, Exc
  <2>3. run' \in [Run -> RunState]
    BY <1>1, <2>1, <2>2, RunReplaced DEF Becomes
  <2> QED
    BY <1>6, <2>3 DEF Becomes, CancelCommit, TypeOK
<1>7. CASE CancelAnnounce(s)
  <2>1. run' \in [Run -> RunState]
    BY <1>2, <1>7 DEF CancelAnnounce, Await
  <2> QED
    BY <1>7, <2>1 DEF CancelAnnounce, TypeOK
<1>8. CASE CancelRestore(s)
  <2>1. PICK on \in BOOLEAN :
          Becomes(s, [run[s] EXCEPT !.pc = "release", !.exc = "cancel", !.copying = on])
    BY <1>8 DEF Becomes, CancelRestore
  <2>2. run' \in [Run -> RunState]
    BY <1>1, <2>1 DEF Becomes, RunState, Await, Exc
  <2>3. spoiled' \subseteq File
    BY <1>1, <1>8 DEF Becomes, CancelRestore, TypeOK
  <2> QED
    BY <1>8, <2>2, <2>3 DEF Becomes, CancelRestore, TypeOK
<1>9. CASE CancelRelease(s)
  <2> DEFINE pc == AfterRelease(s, "cancel")
  <2>1. pc \in Await \cup {"idle", "done", "dead"}
    BY AfterReleaseType DEF Await, Exc
  <2>2. Cancelled(s, pc)
    BY <1>9 DEF CancelRelease
  <2> HIDE DEF pc
  <2>3. run' \in [Run -> RunState]
    BY <1>2, <2>1, <2>2
  <2>4. Delete(row[LockOf[s]], AgentOf[s]) \in Row
    BY <1>1, RowTypes
  <2>5. row' \in [Resource -> Row]
    BY <1>1, <1>9, <2>4 DEF CancelRelease, TypeOK
  <2> QED
    BY <1>9, <2>3, <2>5 DEF CancelRelease, TypeOK
<1>10. CASE CancelLast(s)
  <2>1. PICK tx \in TxStatus :
          Becomes(s, [run[s] EXCEPT !.pc = "done", !.exc = "cancel", !.tx = tx])
    BY <1>1, <1>10 DEF Becomes, CancelLast, TxStatus
  <2>2. [run[s] EXCEPT !.pc = "done", !.exc = "cancel", !.tx = tx] \in RunState
    BY <1>1 DEF RunState, Exc
  <2>3. run' \in [Run -> RunState]
    BY <1>1, <2>1, <2>2, RunReplaced DEF Becomes
  <2> QED
    BY <1>10, <2>3 DEF Becomes, CancelLast, TypeOK
<1> QED
  BY <1>3, <1>4, <1>5, <1>6, <1>7, <1>8, <1>9, <1>10 DEF Cancel

LEMMA TypeNext == TypeOK /\ [Next]_vars => TypeOK'
<1> SUFFICES ASSUME TypeOK, [Next]_vars PROVE TypeOK'
  OBVIOUS
<1>1. ASSUME NEW s \in Run, OrphanEnds(s) \/ CopyEnds(s) PROVE TypeOK'
  <2>1. run[s] \in RunState /\ run[s].snap \in Content /\ FileOf[s] \in File
    BY PipelineAssumption DEF TypeOK, RunState
  <2>2. run' \in [Run -> RunState]
    <3>1. CASE OrphanEnds(s)
      BY <2>1, <3>1 DEF Becomes, OrphanEnds, TypeOK, RunState
    <3>2. CASE CopyEnds(s)
      BY <2>1, <3>2 DEF Becomes, CopyEnds, TypeOK, RunState
    <3> QED
      BY <1>1, <3>1, <3>2
  <2>3. file' \in [File -> Content] /\ spoiled' \subseteq File
    BY <1>1, <2>1, ContentTypes DEF Becomes, OrphanEnds, CopyEnds, TypeOK
  <2> QED
    BY <1>1, <2>2, <2>3 DEF Becomes, OrphanEnds, CopyEnds, TypeOK
<1>2. CASE Tick
  BY <1>2, PipelineAssumption DEF Tick, TypeOK
<1>3. CASE Crash
  <2> DEFINE d(s) == [run[s] EXCEPT !.pc = IF @ \in Await THEN "dead" ELSE @,
                                    !.copying = FALSE,
                                    !.orphan = @ \/ At(s, "running")]
  <2>1. ASSUME NEW s \in Run PROVE d(s) \in RunState
    <3> DEFINE o == run[s].orphan \/ At(s, "running")
               pc == IF run[s].pc \in Await THEN "dead" ELSE run[s].pc
    <3>1. run[s] \in RunState
      BY DEF TypeOK
    <3>2. o \in BOOLEAN /\ pc \in Await \cup {"idle", "done", "dead"}
      BY <3>1 DEF RunState, At
    <3>3. d(s) = [run[s] EXCEPT !.pc = pc, !.copying = FALSE, !.orphan = o]
      OBVIOUS
    <3> HIDE DEF o, pc, d
    <3>4. [run[s] EXCEPT !.pc = pc, !.copying = FALSE, !.orphan = o] \in RunState
      BY <3>1, <3>2 DEF RunState
    <3> QED
      BY <3>3, <3>4
  <2>2. run' = [s \in Run |-> d(s)]
    BY <1>3 DEF Crash
  <2> HIDE DEF d
  <2>3. run' \in [Run -> RunState]
    BY <2>1, <2>2
  <2>4. spoiled' \subseteq File
    BY <1>3 DEF Crash, TypeOK
  <2> QED
    BY <1>3, <2>3, <2>4 DEF Crash, TypeOK
<1>4. CASE UNCHANGED vars
  BY <1>4 DEF vars, TypeOK
<1> QED
  BY <1>1, <1>2, <1>3, <1>4, TypeProgress, TypeCancel DEF Next

\* The lock table, the files, the journal rows and the local variables of every
\* call of a service stay within their types.
THEOREM TypeCorrect == Spec => []TypeOK
<1>1. Init => TypeOK
  BY TypeInit
<1>2. TypeOK /\ [Next]_vars => TypeOK'
  BY TypeNext
<1> QED
  BY <1>1, <1>2, PTL DEF Spec

------------------------------------------------------------------------------
(* One run at a time inside the lock.  The lock table alone does not say   *)
(* so: a run is inside under the lease that its row recorded when it came  *)
(* in, and the clock must not have passed the end of that lease.           *)

Lease(s) == [agent |-> AgentOf[s], expires |-> run[s].expires]
LeaseCovers == \A s \in Run : Inside(s) => MyLock(s) = Lease(s) /\ now <= run[s].expires
OneInside == \A s, t \in Run : Inside(s) /\ Inside(t) /\ LockOf[s] = LockOf[t] => s = t
WriterInv == TypeOK /\ LeaseCovers /\ OneInside

\* Every tool is killed before its lease ends.
Timely == Slow = {}

\* Runs that write one plugin lock one name.
SameLock == \A s, t \in Run : FileOf[s] = FileOf[t] => LockOf[s] = LockOf[t]

Others(s) == \A t \in Run \ {s} : run'[t] = run[t]

\* A step of a run that does not bring it in and leaves the lock table alone.
Keeps(s) ==
  /\ now' = now /\ row' = row /\ Others(s)
  /\ run'[s].expires = run[s].expires
  /\ Inside(s)' => Inside(s)

LEMMA OthersStay ==
  ASSUME NEW s \in Run, Others(s), NEW t \in Run, t # s
  PROVE  Inside(t)' = Inside(t) /\ run'[t].expires = run[t].expires
  BY DEF Others, Inside, At, DynDOLOD

LEMMA KeepsInv ==
  ASSUME WriterInv, NEW s \in Run, Keeps(s)
  PROVE  LeaseCovers' /\ OneInside'
<1>1. \A t \in Run : (Inside(t)' => Inside(t)) /\ run'[t].expires = run[t].expires
  BY OthersStay DEF Keeps
<1>2. now' = now /\ row' = row
  BY DEF Keeps
<1>3. LeaseCovers'
  BY <1>1, <1>2 DEF WriterInv, LeaseCovers, MyLock, Lease
<1>4. OneInside'
  BY <1>1 DEF WriterInv, OneInside
<1> QED
  BY <1>3, <1>4

\* A step of a run that takes it out, and deletes its row or leaves it behind.
LEMMA LeavesInv ==
  ASSUME WriterInv, NEW s \in Run, Inside(s), ~Inside(s)', now' = now, Others(s),
         \A r \in Resource \ {LockOf[s]} : row'[r] = row[r]
  PROVE  LeaseCovers' /\ OneInside'
<1>1. ASSUME NEW t \in Run, Inside(t)'
      PROVE  Inside(t) /\ t # s /\ run'[t].expires = run[t].expires /\ LockOf[t] # LockOf[s]
  BY <1>1, OthersStay DEF WriterInv, OneInside
<1>2. LeaseCovers'
  BY <1>1, PipelineAssumption DEF WriterInv, LeaseCovers, MyLock, Lease
<1>3. OneInside'
  BY <1>1 DEF WriterInv, OneInside
<1> QED
  BY <1>2, <1>3

\* Nobody is inside under a lock that can be claimed.
LEMMA ClaimableFree ==
  ASSUME WriterInv, NEW s \in Run, Claimable(MyLock(s), now),
         NEW t \in Run, LockOf[t] = LockOf[s]
  PROVE  ~Inside(t)
<1> SUFFICES ASSUME Inside(t) PROVE FALSE
  OBVIOUS
<1>1. MyLock(s) = Lease(t) /\ now <= run[t].expires
  BY DEF WriterInv, LeaseCovers, MyLock
<1>2. Lease(t).agent # NoAgent
  BY AgentAssumption, PipelineAssumption DEF Lease
<1>3. now \in Nat /\ run[t].expires \in Nat
  BY PipelineAssumption DEF WriterInv, TypeOK, RunState
<1> QED
  BY <1>1, <1>2, <1>3 DEF Claimable, NoRow, Lease

LEMMA AcquireInv ==
  ASSUME WriterInv, NEW s \in Run, Acquire(s)
  PROVE  LeaseCovers' /\ OneInside'
<1>1. run[s] \in RunState /\ now \in Nat /\ TTL \in Nat /\ LockOf[s] \in Resource
  BY PipelineAssumption DEF WriterInv, TypeOK, RunState
<1>2. Others(s) /\ now' = now /\ run'[s].expires = now + TTL
  BY <1>1 DEF Becomes, Acquire, Others, WriterInv, TypeOK, RunState
<1>3. row'[LockOf[s]] = [agent |-> AgentOf[s], expires |-> now + TTL]
  BY <1>1 DEF Becomes, Acquire, TakeLock, Upsert, MyLock, WriterInv, TypeOK
<1>4. \A r \in Resource \ {LockOf[s]} : row'[r] = row[r]
  BY DEF Becomes, Acquire, TakeLock, WriterInv, TypeOK
<1>5. ASSUME NEW t \in Run, t # s, Inside(t)'
      PROVE  Inside(t) /\ LockOf[t] # LockOf[s] /\ run'[t].expires = run[t].expires
  BY <1>2, <1>5, OthersStay, ClaimableFree DEF Becomes, Acquire
<1>6. LeaseCovers'
  BY <1>1, <1>2, <1>3, <1>4, <1>5, PipelineAssumption DEF WriterInv, LeaseCovers, MyLock, Lease
<1>7. OneInside'
  BY <1>5 DEF WriterInv, OneInside
<1> QED
  BY <1>6, <1>7

LEMMA ReleaseInv ==
  ASSUME WriterInv, NEW s \in Run, Release(s) \/ ReleaseFails(s)
  PROVE  LeaseCovers' /\ OneInside'
<1>1. run[s] \in RunState /\ run[s].exc \in Exc /\ At(s, "release")
  BY DEF WriterInv, TypeOK, RunState, Release, ReleaseFails
<1>2. GoTo(s, AfterRelease(s, run[s].exc)) /\ now' = now
  BY DEF Release, ReleaseFails
<1>3. AfterRelease(s, run[s].exc) \in {"done", "mark", "publish"}
      \/ (AfterRelease(s, run[s].exc) = "commit" /\ ~DynDOLOD(s))
  BY <1>1 DEF AfterRelease
<1>4. Others(s) /\ run'[s].pc = AfterRelease(s, run[s].exc)
  BY <1>2 DEF Becomes, GoTo, Others, WriterInv, TypeOK, RunState
<1>5. Inside(s) /\ ~Inside(s)'
  BY <1>1, <1>3, <1>4 DEF Inside, At, DynDOLOD
<1>6. \A r \in Resource \ {LockOf[s]} : row'[r] = row[r]
  BY DEF Release, ReleaseFails, WriterInv, TypeOK
<1> QED
  BY <1>2, <1>4, <1>5, <1>6, LeavesInv

LEMMA ProgressInv ==
  ASSUME WriterInv, NEW s \in Run, Start(s) \/ Progress(s)
  PROVE  LeaseCovers' /\ OneInside'
<1>1. run \in [Run -> RunState] /\ run[s] \in RunState
  BY DEF WriterInv, TypeOK
<1>2. ASSUME NEW pc, GoTo(s, pc), row' = row, now' = now,
             pc \in {"done", "publish"} \/ Inside(s)
      PROVE  Keeps(s)
  BY <1>1, <1>2 DEF Becomes, Keeps, Others, Inside, At, GoTo, RunState
<1>3. ASSUME NEW exc, Raise(s, exc), row' = row, now' = now, Inside(s)
      PROVE  Keeps(s)
  BY <1>1, <1>3 DEF Becomes, Keeps, Others, Raise, RunState
<1>4. CASE Start(s)
  BY <1>1, <1>4, KeepsInv DEF Becomes, Start, Keeps, Others, Inside, At, RunState
<1>5. CASE Acquire(s)
  BY <1>5, AcquireInv
<1>6. CASE Refused(s)
  BY <1>1, <1>6, KeepsInv DEF Becomes, Refused, Keeps, Others, Inside, At, RunState
<1>7. CASE Snapshot(s)
  BY <1>1, <1>7, KeepsInv DEF Becomes, Snapshot, Keeps, Others, Inside, At, RunState
<1>8. CASE SnapshotFails(s)
  BY <1>1, <1>8, KeepsInv DEF Becomes, SnapshotFails, Keeps, Others, Inside, At, RunState
<1>9. CASE Begin(s)
  BY <1>1, <1>9, KeepsInv DEF Becomes, Begin, Keeps, Others, Inside, At, RunState
<1>10. CASE BeginFails(s)
  BY <1>1, <1>10, KeepsInv DEF Becomes, BeginFails, Keeps, Others, Inside, At, RunState
<1>11. CASE ToolWrites(s) \/ NothingToDo(s) \/ ToolSucceeds(s)
  <2>1. Inside(s) /\ row' = row /\ now' = now
    BY <1>11 DEF Inside, At, ToolWrites, NothingToDo, ToolSucceeds
  <2>2. \E pc \in {"running", "release", "commit"} : GoTo(s, pc)
    BY <1>11 DEF ToolWrites, NothingToDo, ToolSucceeds
  <2> QED
    BY <1>2, <2>1, <2>2, KeepsInv
<1>12. CASE ToolFails(s) \/ AnnounceFails(s)
  <2>1. Inside(s) /\ row' = row /\ now' = now
    BY <1>12 DEF Inside, At, ToolFails, AnnounceFails
  <2>2. \E exc \in {"domain", "other"} : Raise(s, exc)
    BY <1>12 DEF ToolFails, AnnounceFails
  <2> QED
    BY <1>3, <2>1, <2>2, KeepsInv
<1>13. CASE Commit(s)
  <2>1. DynDOLOD(s) => Inside(s)
    BY <1>13 DEF Becomes, Commit, Inside
  <2>2. ~DynDOLOD(s) => ~Inside(s)'
    BY <1>1, <1>13 DEF Becomes, Commit, Inside, At, DynDOLOD, RunState
  <2>3. Keeps(s)
    BY <1>1, <1>13, <2>1, <2>2 DEF Becomes, Commit, Keeps, Others, RunState
  <2> QED
    BY <2>3, KeepsInv
<1>14. CASE CommitFails(s)
  <2>1. CASE DynDOLOD(s)
    BY <1>3, <1>14, <2>1, KeepsInv DEF Becomes, CommitFails, Inside
  <2>2. CASE ~DynDOLOD(s)
    <3>1. /\ Becomes(s, [run[s] EXCEPT !.pc = "mark", !.exc = "late"])
          /\ row' = row /\ now' = now
      BY <1>14, <2>2 DEF CommitFails
    <3>2. Others(s) /\ run'[s].pc = "mark" /\ run'[s].expires = run[s].expires
      BY <1>1, <3>1 DEF Becomes, Others, RunState
    <3>3. ~Inside(s)'
      BY <3>2 DEF Inside, At
    <3> QED
      BY <3>1, <3>2, <3>3, KeepsInv DEF Keeps
  <2> QED
    BY <2>1, <2>2
<1>15. CASE Announce(s)
  BY <1>1, <1>15, KeepsInv DEF Becomes, Announce, Keeps, Others, Inside, At, RunState
<1>16. CASE Restore(s) \/ RestoreFails(s)
  <2>1. Inside(s) /\ row' = row /\ now' = now /\ GoTo(s, "release")
    BY <1>16 DEF Inside, At, Restore, RestoreFails, GiveUp
  <2> QED
    BY <1>2, <2>1, KeepsInv
<1>17. CASE Release(s) \/ ReleaseFails(s)
  BY <1>17, ReleaseInv
<1>18. CASE Mark(s) \/ Publish(s)
  <2>1. CASE Mark(s)
    <3>1. PICK pc \in {"done", "publish"} :
            Becomes(s, [run[s] EXCEPT !.tx = "rolled_back", !.pc = pc])
      BY <2>1 DEF Mark
    <3>2. Others(s) /\ run'[s].pc = pc /\ run'[s].expires = run[s].expires
      BY <1>1, <3>1 DEF Becomes, Others, RunState
    <3> QED
      BY <2>1, <3>2, KeepsInv DEF Mark, Keeps, Inside, At
  <2>2. CASE Publish(s)
    <3>1. Others(s) /\ run'[s].pc = "done" /\ run'[s].expires = run[s].expires
      BY <1>1, <2>2 DEF Publish, Becomes, Others, RunState
    <3> QED
      BY <2>2, <3>1, KeepsInv DEF Publish, Keeps, Inside, At
  <2> QED
    BY <1>18, <2>1, <2>2
<1>19. CASE MarkFails(s) \/ PublishFails(s)
  <2>1. row' = row /\ now' = now /\ \E pc \in {"done", "publish"} : GoTo(s, pc)
    BY <1>19 DEF MarkFails, PublishFails
  <2> QED
    BY <1>2, <2>1, KeepsInv
<1> QED
  BY <1>4, <1>5, <1>6, <1>7, <1>8, <1>9, <1>10, <1>11, <1>12, <1>13, <1>14, <1>15, <1>16,
     <1>17, <1>18, <1>19 DEF Progress

LEMMA CancelInv ==
  ASSUME WriterInv, NEW s \in Run, Cancel(s)
  PROVE  LeaseCovers' /\ OneInside'
<1>1. run \in [Run -> RunState] /\ run[s] \in RunState /\ LockOf[s] \in Resource
  BY PipelineAssumption DEF WriterInv, TypeOK
<1>2. ASSUME NEW pc, Cancelled(s, pc)
      PROVE  Others(s) /\ run'[s].pc = pc /\ run'[s].expires = run[s].expires
  BY <1>1, <1>2 DEF Becomes, Others, Cancelled, RunState
<1>3. CASE CancelEntering(s)
  <2>1. Others(s) /\ run'[s].expires = run[s].expires /\ now' = now /\ ~Inside(s)'
    BY <1>2, <1>3 DEF CancelEntering, Inside, At
  <2>2. CASE At(s, "snapshot")
    <3>1. row' = row
      BY <1>3, <2>2 DEF CancelEntering, At
    <3> QED
      BY <2>1, <3>1, KeepsInv DEF Keeps
  <2>3. CASE At(s, "acquiring") /\ ~Claimable(MyLock(s), now)
    <3>1. row' = row
      BY <1>1, <1>3, <2>3 DEF CancelEntering, TakeLock, Upsert, MyLock, WriterInv, TypeOK
    <3> QED
      BY <2>1, <3>1, KeepsInv DEF Keeps
  <2>4. CASE At(s, "acquiring") /\ Claimable(MyLock(s), now)
    <3>1. \A r \in Resource \ {LockOf[s]} : row'[r] = row[r]
      BY <1>3 DEF CancelEntering, TakeLock, WriterInv, TypeOK
    <3>2. ASSUME NEW t \in Run, Inside(t)'
          PROVE  Inside(t) /\ LockOf[t] # LockOf[s] /\ run'[t].expires = run[t].expires
      BY <2>1, <2>4, <3>2, OthersStay, ClaimableFree
    <3>3. LeaseCovers'
      BY <2>1, <3>1, <3>2, PipelineAssumption DEF WriterInv, LeaseCovers, MyLock, Lease
    <3>4. OneInside'
      BY <3>2 DEF WriterInv, OneInside
    <3> QED
      BY <3>3, <3>4
  <2> QED
    BY <1>3, <2>2, <2>3, <2>4 DEF CancelEntering, At
<1>4. CASE CancelBegin(s)
  BY <1>1, <1>4, KeepsInv DEF Becomes, CancelBegin, Keeps, Others, Inside, At, RunState
<1>5. CASE CancelTool(s)
  BY <1>1, <1>5, KeepsInv DEF Becomes, CancelTool, Keeps, Others, Inside, At, RunState
<1>6. CASE CancelCommit(s)
  <2>1. PICK tx \in {"pending", "committed"} :
          Becomes(s, [run[s] EXCEPT !.pc = IF DynDOLOD(s) THEN "restore" ELSE "done",
                                    !.exc = "cancel", !.tx = tx])
    BY <1>6 DEF Becomes, CancelCommit
  <2>2. Others(s) /\ run'[s].expires = run[s].expires /\ (DynDOLOD(s) \/ run'[s].pc = "done")
    BY <1>1, <2>1 DEF Becomes, Others, RunState
  <2>3. Inside(s)' => Inside(s)
    BY <1>6, <2>2 DEF Becomes, CancelCommit, Inside, At, DynDOLOD
  <2> QED
    BY <1>6, <2>2, <2>3, KeepsInv DEF Becomes, CancelCommit, Keeps
<1>7. CASE CancelAnnounce(s)
  BY <1>2, <1>7, KeepsInv DEF CancelAnnounce, Keeps, Inside, At
<1>8. CASE CancelRestore(s)
  BY <1>1, <1>8, KeepsInv DEF Becomes, CancelRestore, Keeps, Others, Inside, At, RunState
<1>9. CASE CancelRelease(s)
  <2> DEFINE pc == AfterRelease(s, "cancel")
  <2>1. pc \in {"done", "mark", "publish"}
    BY DEF AfterRelease
  <2>2. Cancelled(s, pc) /\ now' = now /\ At(s, "release")
    BY <1>9 DEF CancelRelease
  <2> HIDE DEF pc
  <2>3. Inside(s) /\ ~Inside(s)' /\ Others(s)
    BY <1>2, <2>1, <2>2 DEF Inside, At
  <2>4. \A r \in Resource \ {LockOf[s]} : row'[r] = row[r]
    BY <1>9 DEF CancelRelease, WriterInv, TypeOK
  <2> QED
    BY <2>2, <2>3, <2>4, LeavesInv
<1>10. CASE CancelLast(s)
  BY <1>1, <1>10, KeepsInv DEF Becomes, CancelLast, Keeps, Others, Inside, At, RunState
<1> QED
  BY <1>3, <1>4, <1>5, <1>6, <1>7, <1>8, <1>9, <1>10 DEF Cancel

LEMMA WriterInit == Init => WriterInv
<1> SUFFICES ASSUME Init PROVE WriterInv
  OBVIOUS
<1>1. \A s \in Run : ~Inside(s)
  BY DEF Init, Fresh, Inside, At
<1> QED
  BY <1>1, TypeInit DEF WriterInv, LeaseCovers, OneInside

LEMMA WriterNext ==
  ASSUME Timely
  PROVE  WriterInv /\ [Next]_vars => WriterInv'
<1> SUFFICES ASSUME WriterInv, [Next]_vars PROVE LeaseCovers' /\ OneInside'
  BY TypeNext DEF WriterInv
<1>1. ASSUME NEW s \in Run, OrphanEnds(s) \/ CopyEnds(s) PROVE LeaseCovers' /\ OneInside'
  BY <1>1, KeepsInv
     DEF Becomes, OrphanEnds, CopyEnds, Keeps, Others, Inside, At, WriterInv, TypeOK, RunState
<1>2. CASE Tick
  <2>1. \A s \in Run : Inside(s)' = Inside(s) /\ run'[s] = run[s]
    BY <1>2 DEF Tick, Inside, At
  <2>2. \A s \in Run : Inside(s) => now' <= run[s].expires
    <3> SUFFICES ASSUME NEW s \in Run, Inside(s) PROVE now' <= run[s].expires
      OBVIOUS
    <3>1. now < run[s].expires
      BY <1>2 DEF Tick, Timely
    <3>2. now \in Nat /\ run[s].expires \in Nat
      BY PipelineAssumption DEF WriterInv, TypeOK, RunState
    <3> QED
      BY <1>2, <3>1, <3>2 DEF Tick
  <2>3. LeaseCovers'
    BY <1>2, <2>1, <2>2 DEF Tick, WriterInv, LeaseCovers, MyLock, Lease
  <2>4. OneInside'
    BY <2>1 DEF WriterInv, OneInside
  <2> QED
    BY <2>3, <2>4
<1>3. CASE Crash
  <2>1. ASSUME NEW s \in Run PROVE run'[s].pc \notin Await
    <3>1. run[s].pc \in Await \cup {"idle", "done", "dead"} /\ run[s] \in RunState
      BY DEF WriterInv, TypeOK, RunState
    <3>2. run'[s].pc = IF run[s].pc \in Await THEN "dead" ELSE run[s].pc
      BY <1>3, <3>1 DEF Crash, RunState
    <3> QED
      BY <3>1, <3>2 DEF Await
  <2>2. \A s \in Run : ~Inside(s)'
    BY <2>1 DEF Inside, At, Await
  <2> QED
    BY <2>2 DEF LeaseCovers, OneInside
<1>4. CASE UNCHANGED vars
  <2>1. \A s \in Run : Inside(s)' = Inside(s)
    BY <1>4 DEF vars, Inside, At
  <2> QED
    BY <1>4, <2>1 DEF vars, WriterInv, LeaseCovers, OneInside, MyLock, Lease
<1> QED
  BY <1>1, <1>2, <1>3, <1>4, ProgressInv, CancelInv DEF Next

\* Runs that write one plugin under one lock are inside it one at a time, however
\* many there are and whatever is cancelled, fails, is left behind or dies, provided
\* every tool is killed before its run's lease ends (locks.py:8-9, the time-outs of
\* the Synthesis and xEdit runners; DynDOLOD's is longer than the lease).
THEOREM WritersExclude ==
  ASSUME Timely, SameLock
  PROVE  Spec => []OneWriter
<1>1. Init => WriterInv
  BY WriterInit
<1>2. WriterInv /\ [Next]_vars => WriterInv'
  BY WriterNext
<1>3. WriterInv => OneWriter
  BY DEF WriterInv, OneInside, OneWriter, SameLock
<1> QED
  BY <1>1, <1>2, <1>3, PTL DEF Spec

------------------------------------------------------------------------------
(* A committed transaction stays committed.  mark_transaction_rolled_back  *)
(* overwrites any status, so this rests on where the services are when     *)
(* they have committed.                                                    *)

Final == {"publish", "done", "dead"}
CommitLast == \A s \in Run : run[s].tx = "committed" => run[s].pc \in Final
CommitInv == TypeOK /\ CommitLast

\* What a step of run s may do to its journal row.
CommitsLast(s) ==
  /\ Others(s)
  /\ run[s].tx = "committed" => run'[s].tx = "committed"
  /\ run'[s].tx = "committed" => run'[s].pc \in Final

LEMMA CommitProgress ==
  ASSUME CommitInv, NEW s \in Run, ~DynDOLOD(s), Start(s) \/ Progress(s)
  PROVE  CommitsLast(s)
<1>1. run \in [Run -> RunState] /\ run[s] \in RunState
      /\ (run[s].tx = "committed" => run[s].pc \in Final)
  BY DEF CommitInv, TypeOK, CommitLast
<1>2. ASSUME NEW pc, GoTo(s, pc), run[s].tx = "committed" => pc \in Final
      PROVE  CommitsLast(s)
  BY <1>1, <1>2 DEF Becomes, GoTo, CommitsLast, Others, RunState
<1>3. ASSUME NEW exc, Raise(s, exc), run[s].pc \notin Final PROVE CommitsLast(s)
  BY <1>1, <1>3 DEF Becomes, Raise, CommitsLast, Others, RunState
<1>4. CASE Start(s) \/ Acquire(s) \/ Refused(s) \/ Snapshot(s) \/ SnapshotFails(s)
  <2>1. run[s].tx # "committed"
    BY <1>1, <1>4 DEF Start, Acquire, Refused, Snapshot, SnapshotFails, At, Final
  <2>2. Others(s) /\ run'[s].tx = run[s].tx
    <3>1. CASE Start(s)
      BY <1>1, <3>1 DEF Start, Becomes, Others, RunState
    <3>2. CASE Acquire(s)
      BY <1>1, <3>2 DEF Acquire, Becomes, Others, RunState
    <3>3. CASE Refused(s)
      BY <1>1, <3>3 DEF Refused, Becomes, Others, RunState
    <3>4. CASE Snapshot(s)
      BY <1>1, <3>4 DEF Snapshot, Becomes, Others, RunState
    <3>5. CASE SnapshotFails(s)
      BY <1>1, <3>5 DEF SnapshotFails, Becomes, Others, RunState
    <3> QED
      BY <1>4, <3>1, <3>2, <3>3, <3>4, <3>5
  <2> QED
    BY <2>1, <2>2 DEF CommitsLast
<1>5. CASE Begin(s) \/ BeginFails(s)
  <2>1. run[s].tx # "committed"
    BY <1>1, <1>5 DEF Begin, BeginFails, At, Final
  <2>2. Others(s) /\ run'[s].tx \in {"none", "pending"}
    <3>1. CASE Begin(s)
      BY <1>1, <3>1 DEF Begin, Becomes, Others, RunState
    <3>2. CASE BeginFails(s)
      <4>1. PICK tx \in {"none", "pending"} :
              Becomes(s, [run[s] EXCEPT !.pc = "restore", !.exc = "other", !.tx = tx])
        BY <3>2 DEF BeginFails
      <4> QED
        BY <1>1, <4>1 DEF Becomes, Others, RunState
    <3> QED
      BY <1>5, <3>1, <3>2
  <2> QED
    BY <2>1, <2>2 DEF CommitsLast
<1>6. CASE ToolWrites(s) \/ ToolSucceeds(s) \/ NothingToDo(s) \/ Restore(s) \/ RestoreFails(s)
           \/ Release(s) \/ ReleaseFails(s)
  <2>1. (\E pc : GoTo(s, pc)) /\ run[s].pc \notin Final
    BY <1>6 DEF ToolWrites, ToolSucceeds, NothingToDo, Restore, RestoreFails, GiveUp,
                Release, ReleaseFails, At, Final
  <2> QED
    BY <1>1, <1>2, <2>1
<1>7. CASE ToolFails(s) \/ AnnounceFails(s)
  <2>1. (\E exc : Raise(s, exc)) /\ run[s].pc \notin Final
    BY <1>7 DEF ToolFails, AnnounceFails, At, Final
  <2> QED
    BY <1>3, <2>1
<1>8. CASE Commit(s) \/ CommitFails(s)
  <2>1. run[s].tx # "committed"
    BY <1>1, <1>8 DEF Commit, CommitFails, At, Final
  <2>2. CASE Commit(s)
    <3>1. Becomes(s, [run[s] EXCEPT !.pc = "publish", !.tx = "committed"])
      BY <2>2 DEF Commit
    <3>2. Others(s) /\ run'[s].pc = "publish"
      BY <1>1, <3>1 DEF Becomes, Others, RunState
    <3> QED
      BY <2>1, <3>2 DEF CommitsLast, Final
  <2>3. CASE CommitFails(s)
    <3>1. Becomes(s, [run[s] EXCEPT !.pc = "mark", !.exc = "late"])
      BY <2>3 DEF CommitFails
    <3>2. Others(s) /\ run'[s].tx = run[s].tx
      BY <1>1, <3>1 DEF Becomes, Others, RunState
    <3> QED
      BY <2>1, <3>2 DEF CommitsLast
  <2> QED
    BY <1>8, <2>2, <2>3
<1>9. CASE Announce(s) \/ Mark(s) \/ Publish(s)
  <2>1. CASE Announce(s)
    <3>1. run[s].tx # "committed"
      BY <1>1, <2>1 DEF Announce, At, Final
    <3>2. Others(s) /\ run'[s].tx = run[s].tx
      BY <1>1, <2>1 DEF Announce, Becomes, Others, RunState
    <3> QED
      BY <3>1, <3>2 DEF CommitsLast
  <2>2. CASE Mark(s)
    <3>1. run[s].tx # "committed"
      BY <1>1, <2>2 DEF Mark, At, Final
    <3>2. Others(s) /\ run'[s].tx = "rolled_back"
      BY <1>1, <2>2 DEF Mark, Becomes, Others, RunState
    <3> QED
      BY <3>1, <3>2 DEF CommitsLast
  <2>3. CASE Publish(s)
    <3>1. Others(s) /\ run'[s].tx = run[s].tx /\ run'[s].pc = "done"
      BY <1>1, <2>3 DEF Publish, Becomes, Others, RunState
    <3> QED
      BY <3>1 DEF CommitsLast, Final
  <2> QED
    BY <1>9, <2>1, <2>2, <2>3
<1>10. CASE MarkFails(s) \/ PublishFails(s)
  <2>1. \E pc \in {"done", "publish"} : GoTo(s, pc)
    BY <1>10 DEF MarkFails, PublishFails
  <2> QED
    BY <1>2, <2>1 DEF Final
<1> QED
  BY <1>4, <1>5, <1>6, <1>7, <1>8, <1>9, <1>10 DEF Progress

LEMMA CommitCancel ==
  ASSUME CommitInv, NEW s \in Run, ~DynDOLOD(s), Cancel(s)
  PROVE  CommitsLast(s)
<1>1. run \in [Run -> RunState] /\ run[s] \in RunState
      /\ (run[s].tx = "committed" => run[s].pc \in Final)
  BY DEF CommitInv, TypeOK, CommitLast
<1>2. ASSUME NEW pc, Cancelled(s, pc), run[s].pc \notin Final PROVE CommitsLast(s)
  BY <1>1, <1>2 DEF Becomes, Cancelled, CommitsLast, Others, RunState
<1>3. CASE CancelEntering(s) \/ CancelAnnounce(s) \/ CancelRelease(s)
  <2>1. (\E pc : Cancelled(s, pc)) /\ run[s].pc \notin Final
    BY <1>3 DEF CancelEntering, CancelAnnounce, CancelRelease, At, Final
  <2> QED
    BY <1>2, <2>1
<1>4. CASE CancelBegin(s) \/ CancelTool(s) \/ CancelRestore(s)
  <2>1. run[s].tx # "committed"
    BY <1>1, <1>4 DEF CancelBegin, CancelTool, CancelRestore, At, Final
  <2>2. Others(s) /\ run'[s].tx \in {run[s].tx, "none", "pending"}
    <3>1. CASE CancelBegin(s)
      BY <1>1, <3>1 DEF CancelBegin, Becomes, Others, RunState
    <3>2. CASE CancelTool(s)
      BY <1>1, <3>2 DEF CancelTool, Becomes, Others, RunState
    <3>3. CASE CancelRestore(s)
      BY <1>1, <3>3 DEF CancelRestore, Becomes, Others, RunState
    <3> QED
      BY <1>4, <3>1, <3>2, <3>3
  <2> QED
    BY <2>1, <2>2 DEF CommitsLast
<1>5. CASE CancelCommit(s)
  <2>1. run[s].tx # "committed"
    BY <1>1, <1>5 DEF CancelCommit, At, Final
  <2>2. \E tx : Becomes(s, [run[s] EXCEPT !.pc = "done", !.exc = "cancel", !.tx = tx])
    BY <1>5 DEF CancelCommit
  <2>3. Others(s) /\ run'[s].pc = "done"
    BY <1>1, <2>2 DEF Becomes, Others, RunState
  <2> QED
    BY <2>1, <2>3 DEF CommitsLast, Final
<1>6. CASE CancelLast(s)
  <2>1. At(s, "mark") => run[s].tx # "committed"
    BY <1>1 DEF At, Final
  <2>2. PICK tx \in {run[s].tx} \cup (IF At(s, "mark") THEN {"rolled_back"} ELSE {}) :
          Becomes(s, [run[s] EXCEPT !.pc = "done", !.exc = "cancel", !.tx = tx])
    BY <1>6 DEF CancelLast
  <2>3. Others(s) /\ run'[s].pc = "done" /\ run'[s].tx = tx
    BY <1>1, <2>2 DEF Becomes, Others, RunState
  <2> QED
    BY <2>1, <2>2, <2>3 DEF CommitsLast, Final
<1> QED
  BY <1>3, <1>4, <1>5, <1>6 DEF Cancel

LEMMA CommitNext ==
  ASSUME \A s \in Run : ~DynDOLOD(s)
  PROVE  CommitInv /\ [Next]_vars =>
           /\ CommitInv'
           /\ \A s \in Run : run[s].tx = "committed" => run'[s].tx = "committed"
<1> SUFFICES ASSUME CommitInv, [Next]_vars
             PROVE  /\ CommitLast'
                    /\ \A s \in Run : run[s].tx = "committed" => run'[s].tx = "committed"
  BY TypeNext DEF CommitInv
<1>1. ASSUME NEW s \in Run, CommitsLast(s)
      PROVE  /\ CommitLast'
             /\ \A t \in Run : run[t].tx = "committed" => run'[t].tx = "committed"
  BY <1>1 DEF CommitsLast, Others, CommitInv, CommitLast
<1>2. ASSUME NEW s \in Run, OrphanEnds(s) \/ CopyEnds(s) PROVE CommitsLast(s)
  BY <1>2 DEF OrphanEnds, CopyEnds, Becomes, CommitsLast, Others, CommitInv, CommitLast,
              TypeOK, RunState
<1>3. CASE Tick \/ UNCHANGED vars
  BY <1>3 DEF Tick, vars, CommitInv, CommitLast
<1>4. CASE Crash
  <2>1. \A s \in Run : run'[s].tx = run[s].tx
                      /\ run'[s].pc = IF run[s].pc \in Await THEN "dead" ELSE run[s].pc
    BY <1>4 DEF Crash, CommitInv, TypeOK, RunState
  <2> QED
    BY <2>1 DEF CommitInv, CommitLast, Final
<1> QED
  BY <1>1, <1>2, <1>3, <1>4, CommitProgress, CommitCancel DEF Next

\* Runs of Synthesis and xEdit never lose a committed transaction, although
\* mark_transaction_rolled_back would overwrite it (journal.py:874-892).
THEOREM CommittedStays ==
  ASSUME \A s \in Run : ~DynDOLOD(s)
  PROVE  Spec => CommittedFinal
<1>1. Init => CommitInv
  BY TypeInit DEF Init, Fresh, CommitInv, CommitLast
<1>2. CommitInv /\ [Next]_vars =>
        CommitInv' /\ [\A s \in Run : run[s].tx = "committed" => run'[s].tx = "committed"]_vars
  BY CommitNext
<1> QED
  BY <1>1, <1>2, PTL DEF Spec, CommittedFinal

------------------------------------------------------------------------------
(* Runs take effect entirely or not at all, wherever they are cancelled    *)
(* and whatever fails.  Whole(f) is what AllOrNothing says of a plugin     *)
(* that nobody works on.  Undoable(s) is what a run inside the lock keeps  *)
(* true of its plugin: that it can be brought back there.  It can rely on  *)
(* this, because no other run on the plugin is inside.                     *)

Whole(f) == file[f] = good[f] \/ f \in spoiled

Undoable(s) ==
    \/ FileOf[s] \in spoiled
    \/ /\ run[s].pc \in {"snapshot", "begin", "tool", "release"} => MyFile(s) = good[FileOf[s]]
       /\ MyFile(s) = good[FileOf[s]] \/ MyFile(s).by = s
       /\ run[s].pc \notin {"snapshot", "release"} => run[s].snap \in {Missing, good[FileOf[s]]}

FileInv == AllOrNothing /\ \A s \in Run : Inside(s) => Undoable(s)

\* A step of s changes no other run and no other plugin.
Touches(s) ==
    /\ Others(s)
    /\ \A f \in File \ {FileOf[s]} :
          file'[f] = file[f] /\ good'[f] = good[f] /\ (f \in spoiled' <=> f \in spoiled)

\* A run inside the lock leaves its plugin undoable, or whole when it goes.
LEMMA InsideStep ==
  ASSUME SameLock, OneInside, OneInside', FileInv, NEW s \in Run, FileOf \in [Run -> File],
         Touches(s), Inside(s) \/ Inside(s)',
         Inside(s)' => Undoable(s)', ~Inside(s)' => Whole(FileOf[s])'
  PROVE  FileInv'
<1>1. ASSUME NEW t \in Run, t # s, Inside(t)'
      PROVE  FileOf[t] # FileOf[s] /\ Undoable(t)'
  <2>1. Inside(t) /\ run'[t] = run[t]
    BY <1>1, OthersStay DEF Touches, Others
  <2>2. FileOf[t] # FileOf[s]
    BY <1>1, <2>1 DEF SameLock, OneInside
  <2>3. Undoable(t)
    BY <2>1 DEF FileInv
  <2> QED
    BY <2>1, <2>2, <2>3 DEF Touches, Undoable, MyFile
<1>2. ASSUME NEW f \in File
      PROVE  (\E t \in Run : FileOf[t] = f /\ Inside(t)') \/ Whole(f)'
  <2>1. CASE f = FileOf[s]
    BY <2>1
  <2>2. CASE f # FileOf[s]
    <3>1. CASE \E t \in Run : FileOf[t] = f /\ Inside(t)
      BY <2>2, <3>1, OthersStay DEF Touches
    <3>2. CASE Whole(f)
      BY <2>2, <3>2 DEF Touches, Whole
    <3> QED
      BY <3>1, <3>2 DEF FileInv, AllOrNothing, Whole
  <2> QED
    BY <2>1, <2>2
<1>3. AllOrNothing'
  BY <1>2 DEF AllOrNothing, Whole
<1> QED
  BY <1>1, <1>3 DEF FileInv

\* A run outside has nothing to do with the plugins.
LEMMA OutsideStep ==
  ASSUME FileInv, NEW s \in Run, Others(s), ~Inside(s), ~Inside(s)',
         UNCHANGED <<file, good, spoiled>>
  PROVE  FileInv'
<1>1. \A t \in Run : Inside(t)' <=> Inside(t)
  BY OthersStay
<1>2. \A t \in Run : Inside(t) => t # s /\ run'[t] = run[t]
  BY DEF Others
<1>3. \A t \in Run : Inside(t)' => Undoable(t)'
  BY <1>1, <1>2 DEF FileInv, Undoable, MyFile
<1>4. AllOrNothing'
  BY <1>1 DEF FileInv, AllOrNothing
<1> QED
  BY <1>3, <1>4 DEF FileInv

\* What goes on without its task spoils the plugin it writes.
LEMMA SpoilingStep ==
  ASSUME FileInv, NEW s \in Run, FileOf \in [Run -> File],
         \A t \in Run : run'[t].pc = run[t].pc /\ run'[t].snap = run[t].snap,
         FileOf[s] \in spoiled', spoiled \subseteq spoiled', good' = good,
         \A f \in File \ {FileOf[s]} : file'[f] = file[f]
  PROVE  FileInv'
<1>1. \A t \in Run : Inside(t)' <=> Inside(t)
  BY DEF Inside, At, DynDOLOD
<1>2. \A t \in Run : Inside(t)' => Undoable(t)'
  BY <1>1 DEF FileInv, Undoable, MyFile
<1>3. AllOrNothing'
  BY <1>1 DEF FileInv, AllOrNothing
<1> QED
  BY <1>2, <1>3 DEF FileInv

------------------------------------------------------------------------------
\* A run goes on with the snapshot it has.
Moves(s, pc) == Others(s) /\ run'[s].pc = pc /\ run'[s].snap = run[s].snap

LEMMA MovesTo ==
  ASSUME run \in [Run -> RunState], NEW s \in Run, NEW d, Becomes(s, d),
         d.snap = run[s].snap
  PROVE  Moves(s, d.pc)
  BY DEF Becomes, Moves, Others

LEMMA MovesAre ==
  ASSUME run \in [Run -> RunState], NEW s \in Run, NEW pc, NEW exc, NEW tx, NEW field
  PROVE  /\ GoTo(s, pc) => Moves(s, pc)
         /\ Raise(s, exc) => Moves(s, "restore")
         /\ Cancelled(s, pc) => Moves(s, pc)
         /\ Becomes(s, [run[s] EXCEPT !.pc = pc, !.exc = exc]) => Moves(s, pc)
         /\ Becomes(s, [run[s] EXCEPT !.pc = pc, !.tx = tx]) => Moves(s, pc)
         /\ Becomes(s, [run[s] EXCEPT !.pc = pc, !.tx = tx, !.known = field]) => Moves(s, pc)
         /\ Becomes(s, [run[s] EXCEPT !.pc = pc, !.exc = exc, !.tx = tx]) => Moves(s, pc)
         /\ Becomes(s, [run[s] EXCEPT !.pc = pc, !.told = field]) => Moves(s, pc)
         /\ Becomes(s, [run[s] EXCEPT !.tx = tx, !.pc = pc]) => Moves(s, pc)
         /\ Becomes(s, [run[s] EXCEPT !.pc = pc, !.exc = exc, !.orphan = field]) => Moves(s, pc)
         /\ Becomes(s, [run[s] EXCEPT !.pc = pc, !.exc = exc, !.copying = field]) => Moves(s, pc)
<1>1. run[s] \in RunState
  OBVIOUS
<1>2. ASSUME NEW d, d.pc = pc, d.snap = run[s].snap PROVE Becomes(s, d) => Moves(s, pc)
  BY <1>2, MovesTo
<1>3. GoTo(s, pc) => Moves(s, pc)
  BY <1>1, <1>2 DEF GoTo, RunState
<1>4. Raise(s, exc) => Moves(s, "restore")
  BY <1>1 DEF Raise, Becomes, Moves, Others, RunState
<1>5. Cancelled(s, pc) => Moves(s, pc)
  BY <1>1, <1>2 DEF Cancelled, RunState
<1>6. Becomes(s, [run[s] EXCEPT !.pc = pc, !.exc = exc]) => Moves(s, pc)
  BY <1>1, <1>2 DEF RunState
<1>7. Becomes(s, [run[s] EXCEPT !.pc = pc, !.tx = tx]) => Moves(s, pc)
  BY <1>1, <1>2 DEF RunState
<1>8. Becomes(s, [run[s] EXCEPT !.pc = pc, !.tx = tx, !.known = field]) => Moves(s, pc)
  BY <1>1, <1>2 DEF RunState
<1>9. Becomes(s, [run[s] EXCEPT !.pc = pc, !.exc = exc, !.tx = tx]) => Moves(s, pc)
  BY <1>1, <1>2 DEF RunState
<1>10. Becomes(s, [run[s] EXCEPT !.pc = pc, !.told = field]) => Moves(s, pc)
  BY <1>1, <1>2 DEF RunState
<1>11. Becomes(s, [run[s] EXCEPT !.tx = tx, !.pc = pc]) => Moves(s, pc)
  BY <1>1, <1>2 DEF RunState
<1>12. Becomes(s, [run[s] EXCEPT !.pc = pc, !.exc = exc, !.orphan = field]) => Moves(s, pc)
  BY <1>1, <1>2 DEF RunState
<1>13. Becomes(s, [run[s] EXCEPT !.pc = pc, !.exc = exc, !.copying = field]) => Moves(s, pc)
  BY <1>1, <1>2 DEF RunState
<1> QED
  BY <1>3, <1>4, <1>5, <1>6, <1>7, <1>8, <1>9, <1>10, <1>11, <1>12, <1>13

AtomicInv == WriterInv /\ FileInv

\* A run outside the lock: waiting for it, or with it released.
LEMMA OutsideMoves ==
  ASSUME AtomicInv, NEW s \in Run, NEW pc, Moves(s, pc), ~Inside(s),
         pc \in {"publish", "mark", "done", "acquiring"} \/ (pc = "commit" /\ ~DynDOLOD(s)),
         UNCHANGED <<file, good, spoiled>>
  PROVE  FileInv'
<1>1. ~Inside(s)'
  BY DEF Moves, Inside, At, DynDOLOD
<1> QED
  BY <1>1, OutsideStep DEF AtomicInv, Moves

\* A run inside that does not touch its plugin: on with the tool or to the
\* restoring, past the tool, or out.
LEMMA InsideMoves ==
  ASSUME SameLock, AtomicInv, OneInside', NEW s \in Run, NEW pc, Moves(s, pc), Inside(s),
         \/ /\ pc \in {"running", "announce", "restore"}
            /\ run[s].pc \notin {"snapshot", "release"}
         \/ pc = "tool" /\ run[s].pc = "begin"
         \/ pc = "release" /\ run[s].pc \in {"snapshot", "tool"}
         \/ /\ pc \in {"publish", "mark", "done"} \/ (pc = "commit" /\ ~DynDOLOD(s))
            /\ run[s].pc \in {"snapshot", "release"},
         UNCHANGED <<file, good, spoiled>>
  PROVE  FileInv'
<1>1. Undoable(s)
  BY DEF AtomicInv, FileInv
<1>2. run'[s].pc = pc /\ run'[s].snap = run[s].snap /\ Touches(s)
  BY DEF Moves, Touches
<1>3. Inside(s)' => Undoable(s)'
  <2>1. CASE pc \in {"publish", "mark", "done"} \/ (pc = "commit" /\ ~DynDOLOD(s))
    BY <1>2, <2>1 DEF Inside, At, DynDOLOD
  <2>2. CASE pc \in {"running", "announce", "restore"}
             /\ run[s].pc \notin {"snapshot", "release"}
    BY <1>1, <1>2, <2>2 DEF Undoable, MyFile
  <2>3. CASE pc = "tool" /\ run[s].pc = "begin"
    BY <1>1, <1>2, <2>3 DEF Undoable, MyFile
  <2>4. CASE pc = "release" /\ run[s].pc \in {"snapshot", "tool"}
    BY <1>1, <1>2, <2>4 DEF Undoable, MyFile
  <2> QED
    BY <2>1, <2>2, <2>3, <2>4
<1>4. ~Inside(s)' => Whole(FileOf[s])'
  <2>1. ~Inside(s)' => run[s].pc \in {"snapshot", "release"}
    BY <1>2 DEF Inside, At
  <2> QED
    BY <1>1, <2>1 DEF Undoable, Whole, MyFile
<1> QED
  BY <1>2, <1>3, <1>4, InsideStep, PipelineAssumption DEF AtomicInv, WriterInv

------------------------------------------------------------------------------
LEMMA Contents ==
  ASSUME NEW s \in Run
  PROVE  Output(s).by = s /\ Torn(s).by = s /\ Missing.by = NoRun /\ NoRun # s
  BY PipelineAssumption DEF Output, Torn, Missing

\* The run that comes in finds the plugin whole, since nobody else is inside.
LEMMA AcquireWhole ==
  ASSUME SameLock, AtomicInv, OneInside', NEW s \in Run, Acquire(s)
  PROVE  FileInv'
<1>1. /\ run \in [Run -> RunState] /\ run[s] \in RunState /\ FileOf[s] \in File
      /\ FileOf \in [Run -> File]
  BY PipelineAssumption DEF AtomicInv, WriterInv, TypeOK
<1>2. /\ Others(s) /\ run'[s].pc = "snapshot" /\ UNCHANGED <<file, good, spoiled>>
      /\ ~Inside(s)
  BY <1>1 DEF Acquire, Becomes, Others, RunState, Inside, At
<1>3. Inside(s)'
  BY <1>2 DEF Inside
<1>4. Whole(FileOf[s])
  <2>1. ASSUME NEW t \in Run, FileOf[t] = FileOf[s], Inside(t) PROVE FALSE
    <3>1. t # s /\ Inside(t)' /\ LockOf[t] = LockOf[s]
      BY <1>2, <2>1, OthersStay DEF SameLock
    <3> QED
      BY <1>3, <3>1 DEF OneInside
  <2> QED
    BY <1>1, <2>1 DEF AtomicInv, FileInv, AllOrNothing, Whole
<1>5. Undoable(s)'
  BY <1>2, <1>4 DEF Whole, Undoable, MyFile
<1> QED
  BY <1>1, <1>2, <1>3, <1>5, InsideStep DEF AtomicInv, WriterInv, Touches

\* The steps of a run inside that write its plugin or say what it is worth.
LEMMA ToolWhole ==
  ASSUME SameLock, AtomicInv, OneInside', NEW s \in Run,
         Snapshot(s) \/ ToolWrites(s) \/ ToolSucceeds(s) \/ Announce(s)
         \/ Restore(s) \/ RestoreFails(s)
  PROVE  FileInv'
<1> DEFINE f == FileOf[s]
<1>1. /\ run \in [Run -> RunState] /\ run[s] \in RunState /\ f \in File
      /\ FileOf \in [Run -> File] /\ file \in [File -> Content] /\ good \in [File -> Content]
  BY PipelineAssumption DEF AtomicInv, WriterInv, TypeOK
<1>2. Inside(s)
  BY DEF Snapshot, ToolWrites, ToolSucceeds, Announce, Restore, RestoreFails, Inside, At
<1>3. Undoable(s)
  BY <1>2 DEF AtomicInv, FileInv
<1>4. SUFFICES Touches(s) /\ Undoable(s)' /\ (~Inside(s)' => Whole(f)')
  BY <1>1, <1>2, InsideStep DEF AtomicInv, WriterInv
<1>5. CASE Snapshot(s)
  <2>1. /\ Others(s) /\ run'[s].pc = "begin" /\ UNCHANGED <<file, good, spoiled>>
        /\ run'[s].snap \in {file[f], Missing} /\ At(s, "snapshot")
    BY <1>1, <1>5 DEF Snapshot, Becomes, Others, RunState, MyFile
  <2>2. Touches(s) /\ Inside(s)'
    BY <2>1 DEF Touches, Inside
  <2>3. Undoable(s)'
    BY <1>3, <2>1 DEF Undoable, MyFile, At
  <2> QED
    BY <2>2, <2>3
<1>6. CASE ToolWrites(s)
  <2>1. /\ Moves(s, "running") /\ At(s, "tool") /\ UNCHANGED <<good, spoiled>>
        /\ file' = [file EXCEPT ![f] = Torn(s)]
    BY <1>1, <1>6, MovesAre DEF ToolWrites
  <2>2. file'[f].by = s
    BY <1>1, <2>1, Contents
  <2>3. Touches(s) /\ Inside(s)'
    BY <1>1, <2>1 DEF Touches, Inside, Moves
  <2>4. Undoable(s)'
    BY <1>3, <2>1, <2>2 DEF Undoable, MyFile, At, Moves
  <2> QED
    BY <2>3, <2>4
<1>7. CASE ToolSucceeds(s) /\ DynDOLOD(s)
  <2>1. /\ Moves(s, "commit") /\ At(s, "running") /\ UNCHANGED <<good, spoiled>>
        /\ file' = [file EXCEPT ![f] = Output(s)]
    BY <1>1, <1>7, MovesAre DEF ToolSucceeds
  <2>2. file'[f].by = s
    BY <1>1, <2>1, Contents
  <2>3. Touches(s) /\ Inside(s)'
    BY <1>1, <1>7, <2>1 DEF Touches, Inside, Moves, At, DynDOLOD
  <2>4. Undoable(s)'
    BY <1>3, <2>1, <2>2 DEF Undoable, MyFile, At, Moves
  <2> QED
    BY <2>3, <2>4
\* What succeeds is the new good state, or is found to be spoiled.
<1>8. ASSUME Succeed(s), Moves(s, "release"), \A g \in File \ {f} : file'[g] = file[g]
      PROVE  Touches(s) /\ Undoable(s)' /\ Inside(s)'
  <2>1. /\ good' = [good EXCEPT ![f] = Output(s)]
        /\ spoiled' = IF file'[f] = Output(s) THEN spoiled \ {f} ELSE spoiled \cup {f}
    BY <1>8 DEF Succeed
  <2>2. file'[f] = good'[f] \/ f \in spoiled'
    BY <1>1, <2>1
  <2>3. Touches(s) /\ Inside(s)'
    BY <1>1, <1>8, <2>1 DEF Touches, Inside, Moves
  <2>4. Undoable(s)'
    BY <1>8, <2>2 DEF Undoable, MyFile, Moves
  <2> QED
    BY <2>3, <2>4
<1>9. CASE ToolSucceeds(s) /\ ~DynDOLOD(s)
  <2>1. /\ Moves(s, "release") /\ Succeed(s) /\ file' = [file EXCEPT ![f] = Output(s)]
    BY <1>1, <1>9, MovesAre DEF ToolSucceeds
  <2> QED
    BY <1>1, <1>8, <2>1
<1>10. CASE Announce(s)
  <2>1. Moves(s, "release") /\ Succeed(s) /\ file' = file
    BY <1>1, <1>10, MovesAre DEF Announce
  <2> QED
    BY <1>8, <2>1
<1>11. CASE Restore(s) \/ RestoreFails(s)
  <2>1. At(s, "restore") /\ Moves(s, "release") /\ good' = good
    BY <1>1, <1>11, MovesAre DEF Restore, RestoreFails, GiveUp
  <2>2. \/ /\ file' = [file EXCEPT ![f] = run[s].snap] /\ spoiled' = spoiled
           /\ run[s].snap # Missing
        \/ /\ file' = file
           /\ spoiled' = IF MyFile(s).by = s THEN spoiled \cup {f} ELSE spoiled
        \/ file' = [file EXCEPT ![f] = Torn(s)] /\ spoiled' = spoiled \cup {f}
    BY <1>11 DEF Restore, RestoreFails, GiveUp, HasSnapshot
  <2>3. Touches(s) /\ Inside(s)'
    BY <1>1, <2>1, <2>2 DEF Touches, Inside, Moves
  <2>4. file'[f] = good'[f] \/ f \in spoiled'
    BY <1>1, <1>3, <2>1, <2>2 DEF Undoable, MyFile, At
  <2>5. Undoable(s)'
    BY <2>1, <2>4 DEF Undoable, MyFile, Moves
  <2> QED
    BY <2>3, <2>5
<1> QED
  BY <1>5, <1>6, <1>7, <1>9, <1>10, <1>11

LEMMA ProgressWhole ==
  ASSUME SameLock, AtomicInv, OneInside', NEW s \in Run, Start(s) \/ Progress(s)
  PROVE  FileInv'
<1>1. run \in [Run -> RunState] /\ run[s] \in RunState /\ run[s].exc \in Exc
  BY DEF AtomicInv, WriterInv, TypeOK, RunState
<1>2. CASE Start(s)
  <2>1. Moves(s, "acquiring") /\ UNCHANGED <<file, good, spoiled>> /\ ~Inside(s)
    BY <1>1, <1>2 DEF Start, Becomes, Moves, Others, RunState, Inside, At
  <2> QED
    BY <2>1, OutsideMoves
<1>3. CASE Refused(s) \/ Mark(s) \/ MarkFails(s) \/ Publish(s) \/ PublishFails(s)
  <2>1. UNCHANGED <<file, good, spoiled>> /\ ~Inside(s)
    BY <1>3 DEF Refused, Mark, MarkFails, Publish, PublishFails, Inside, At
  <2>2. \E pc \in {"publish", "done"} : Moves(s, pc)
    <3>1. CASE Refused(s)
      BY <1>1, <3>1, MovesAre DEF Refused
    <3>2. CASE Mark(s)
      <4> DEFINE pc == IF run[s].exc = "cancel" THEN "done" ELSE "publish"
      <4>1. Becomes(s, [run[s] EXCEPT !.tx = "rolled_back", !.pc = pc])
        BY <3>2 DEF Mark
      <4>2. PICK p \in {"publish", "done"} : p = pc
        OBVIOUS
      <4> HIDE DEF pc
      <4>3. Becomes(s, [run[s] EXCEPT !.tx = "rolled_back", !.pc = p])
        BY <4>1, <4>2
      <4> QED
        BY <1>1, <4>3, MovesAre
    <3>3. CASE MarkFails(s)
      <4>1. \E pc \in {"publish", "done"} : GoTo(s, pc)
        BY <3>3 DEF MarkFails
      <4> QED
        BY <1>1, <4>1, MovesAre
    <3>4. CASE Publish(s)
      BY <1>1, <3>4 DEF Publish, Becomes, Moves, Others, RunState
    <3>5. CASE PublishFails(s)
      BY <1>1, <3>5, MovesAre DEF PublishFails
    <3> QED
      BY <1>3, <3>1, <3>2, <3>3, <3>4, <3>5
  <2> QED
    BY <2>1, <2>2, OutsideMoves
<1>4. CASE Acquire(s)
  BY <1>4, AcquireWhole
<1>5. CASE Snapshot(s) \/ ToolWrites(s) \/ ToolSucceeds(s) \/ Announce(s)
           \/ Restore(s) \/ RestoreFails(s)
  BY <1>5, ToolWhole
<1>6. CASE SnapshotFails(s) \/ NothingToDo(s)
  <2>1. /\ Inside(s) /\ run[s].pc \in {"snapshot", "tool"} /\ UNCHANGED <<file, good, spoiled>>
        /\ Moves(s, "release")
    BY <1>1, <1>6, MovesAre DEF SnapshotFails, NothingToDo, Inside, At
  <2> QED
    BY <2>1, InsideMoves
<1>7. CASE Begin(s)
  <2>1. /\ Inside(s) /\ run[s].pc = "begin" /\ UNCHANGED <<file, good, spoiled>>
        /\ Moves(s, "tool")
    BY <1>1, <1>7, MovesAre DEF Begin, Inside, At
  <2> QED
    BY <2>1, InsideMoves
<1>8. CASE BeginFails(s) \/ ToolFails(s) \/ AnnounceFails(s)
  <2>1. /\ Inside(s) /\ run[s].pc \notin {"snapshot", "release"}
        /\ UNCHANGED <<file, good, spoiled>>
    BY <1>8 DEF BeginFails, ToolFails, AnnounceFails, Inside, At
  <2>2. Moves(s, "restore")
    BY <1>1, <1>8, MovesAre DEF BeginFails, ToolFails, AnnounceFails
  <2> QED
    BY <2>1, <2>2, InsideMoves
<1>9. CASE (Commit(s) \/ CommitFails(s)) /\ DynDOLOD(s)
  <2>1. /\ Inside(s) /\ run[s].pc = "commit" /\ UNCHANGED <<file, good, spoiled>>
    BY <1>9 DEF Commit, CommitFails, Inside, At
  <2>2. \E pc \in {"announce", "restore"} : Moves(s, pc)
    <3>1. CASE Commit(s)
      <4>1. Becomes(s, [run[s] EXCEPT !.pc = "announce", !.tx = "committed"])
        BY <1>9, <3>1 DEF Commit
      <4> QED
        BY <1>1, <4>1, MovesAre
    <3>2. CASE CommitFails(s)
      BY <1>1, <1>9, <3>2, MovesAre DEF CommitFails
    <3> QED
      BY <1>9, <3>1, <3>2
  <2> QED
    BY <2>1, <2>2, InsideMoves
<1>10. CASE (Commit(s) \/ CommitFails(s)) /\ ~DynDOLOD(s)
  <2>1. ~Inside(s) /\ UNCHANGED <<file, good, spoiled>>
    BY <1>10 DEF Commit, CommitFails, Inside, At
  <2>2. \E pc \in {"publish", "mark"} : Moves(s, pc)
    <3>1. CASE Commit(s)
      <4>1. Becomes(s, [run[s] EXCEPT !.pc = "publish", !.tx = "committed"])
        BY <1>10, <3>1 DEF Commit
      <4> QED
        BY <1>1, <4>1, MovesAre
    <3>2. CASE CommitFails(s)
      <4>1. Becomes(s, [run[s] EXCEPT !.pc = "mark", !.exc = "late"])
        BY <1>10, <3>2 DEF CommitFails
      <4> QED
        BY <1>1, <4>1, MovesAre
    <3> QED
      BY <1>10, <3>1, <3>2
  <2> QED
    BY <2>1, <2>2, OutsideMoves
<1>11. CASE Release(s) \/ ReleaseFails(s)
  <2>1. /\ Inside(s) /\ run[s].pc = "release" /\ UNCHANGED <<file, good, spoiled>>
        /\ GoTo(s, AfterRelease(s, run[s].exc))
    BY <1>11 DEF Release, ReleaseFails, Inside, At
  <2>2. PICK pc \in {"publish", "mark", "done", "commit"} :
            pc = AfterRelease(s, run[s].exc) /\ (pc = "commit" => ~DynDOLOD(s))
    BY <1>1 DEF AfterRelease
  <2>3. Moves(s, pc)
    BY <1>1, <2>1, <2>2, MovesAre
  <2> QED
    BY <2>1, <2>2, <2>3, InsideMoves
<1> QED
  BY <1>2, <1>3, <1>4, <1>5, <1>6, <1>7, <1>8, <1>9, <1>10, <1>11 DEF Progress

LEMMA CancelWhole ==
  ASSUME SameLock, AtomicInv, OneInside', NEW s \in Run, Cancel(s)
  PROVE  FileInv'
<1>1. run \in [Run -> RunState] /\ run[s] \in RunState
  BY DEF AtomicInv, WriterInv, TypeOK
<1>2. CASE CancelEntering(s)
  <2>1. UNCHANGED <<file, good, spoiled>> /\ Moves(s, "done")
    BY <1>1, <1>2, MovesAre DEF CancelEntering
  <2>2. CASE At(s, "acquiring")
    BY <2>1, <2>2, OutsideMoves DEF Inside, At
  <2>3. CASE At(s, "snapshot")
    BY <2>1, <2>3, InsideMoves DEF Inside, At
  <2> QED
    BY <1>2, <2>2, <2>3 DEF CancelEntering, At
<1>3. CASE CancelBegin(s) \/ CancelTool(s) \/ CancelAnnounce(s)
  <2>1. /\ Inside(s) /\ run[s].pc \notin {"snapshot", "release"}
        /\ UNCHANGED <<file, good, spoiled>>
    BY <1>3 DEF CancelBegin, CancelTool, CancelAnnounce, Inside, At
  <2>2. Moves(s, "restore")
    <3>1. CASE CancelBegin(s)
      BY <1>1, <3>1, MovesAre DEF CancelBegin
    <3>2. CASE CancelTool(s)
      BY <1>1, <3>2 DEF CancelTool, Becomes, Moves, Others, RunState
    <3>3. CASE CancelAnnounce(s)
      BY <1>1, <3>3, MovesAre DEF CancelAnnounce
    <3> QED
      BY <1>3, <3>1, <3>2, <3>3
  <2> QED
    BY <2>1, <2>2, InsideMoves
<1>4. CASE CancelCommit(s)
  <2>1. PICK tx : Becomes(s, [run[s] EXCEPT !.pc = IF DynDOLOD(s) THEN "restore" ELSE "done",
                                           !.exc = "cancel", !.tx = tx])
    BY <1>4 DEF CancelCommit
  <2>2. At(s, "commit") /\ UNCHANGED <<file, good, spoiled>>
    BY <1>4 DEF CancelCommit
  <2>3. CASE DynDOLOD(s)
    <3>1. Moves(s, "restore")
      BY <1>1, <2>1, <2>3, MovesAre
    <3> QED
      BY <2>2, <2>3, <3>1, InsideMoves DEF Inside, At
  <2>4. CASE ~DynDOLOD(s)
    <3>1. Moves(s, "done")
      BY <1>1, <2>1, <2>4, MovesAre
    <3> QED
      BY <2>2, <2>4, <3>1, OutsideMoves DEF Inside, At
  <2> QED
    BY <2>3, <2>4
\* The output that will not be taken back spoils the plugin.
<1>5. CASE CancelRestore(s)
  <2>1. PICK on \in BOOLEAN :
            Becomes(s, [run[s] EXCEPT !.pc = "release", !.exc = "cancel", !.copying = on])
    BY <1>5 DEF CancelRestore
  <2>2. Moves(s, "release")
    BY <1>1, <2>1, MovesAre
  <2>3. /\ At(s, "restore") /\ UNCHANGED <<file, good>>
        /\ spoiled' = IF MyFile(s).by = s THEN spoiled \cup {FileOf[s]} ELSE spoiled
    BY <1>5 DEF CancelRestore
  <2>4. Inside(s) /\ Inside(s)' /\ Touches(s)
    BY <2>2, <2>3 DEF Inside, At, Moves, Touches
  <2>5. Undoable(s)
    BY <2>4 DEF AtomicInv, FileInv
  <2>6. Undoable(s)'
    BY <2>2, <2>3, <2>5 DEF Undoable, MyFile, At, Moves
  <2> QED
    BY <2>4, <2>6, InsideStep, PipelineAssumption DEF AtomicInv, WriterInv
<1>6. CASE CancelRelease(s)
  <2>1. /\ Inside(s) /\ run[s].pc = "release" /\ UNCHANGED <<file, good, spoiled>>
        /\ Cancelled(s, AfterRelease(s, "cancel"))
    BY <1>6 DEF CancelRelease, Inside, At
  <2>2. PICK pc \in {"publish", "mark", "done"} : pc = AfterRelease(s, "cancel")
    BY DEF AfterRelease
  <2>3. Moves(s, pc)
    BY <1>1, <2>1, <2>2, MovesAre
  <2> QED
    BY <2>1, <2>2, <2>3, InsideMoves
<1>7. CASE CancelLast(s)
  <2>1. UNCHANGED <<file, good, spoiled>> /\ ~Inside(s) /\ Moves(s, "done")
    BY <1>1, <1>7, MovesAre DEF CancelLast, Inside, At
  <2> QED
    BY <2>1, OutsideMoves
<1> QED
  BY <1>2, <1>3, <1>4, <1>5, <1>6, <1>7 DEF Cancel

LEMMA AtomicInit == Init => AtomicInv
<1>1. Init => WriterInv
  BY WriterInit
<1>2. Init => \A s \in Run : ~Inside(s)
  BY DEF Init, Fresh, Inside, At
<1>3. Init => FileInv
  BY <1>2 DEF Init, FileInv, AllOrNothing
<1> QED
  BY <1>1, <1>3 DEF AtomicInv

LEMMA AtomicNext ==
  ASSUME Timely, SameLock
  PROVE  AtomicInv /\ [Next]_vars => AtomicInv'
<1> SUFFICES ASSUME AtomicInv, [Next]_vars PROVE FileInv'
  BY WriterNext DEF AtomicInv
<1>1. OneInside'
  BY WriterNext DEF AtomicInv, WriterInv
<1>2. ASSUME NEW s \in Run, OrphanEnds(s) \/ CopyEnds(s) PROVE FileInv'
  <2>1. run \in [Run -> RunState] /\ FileOf \in [Run -> File] /\ file \in [File -> Content]
    BY PipelineAssumption DEF AtomicInv, WriterInv, TypeOK
  <2>2. \A t \in Run : run'[t].pc = run[t].pc /\ run'[t].snap = run[t].snap
    BY <1>2, <2>1 DEF OrphanEnds, CopyEnds, Becomes, RunState
  <2>3. /\ spoiled' = spoiled \cup {FileOf[s]} /\ good' = good
        /\ \A f \in File \ {FileOf[s]} : file'[f] = file[f]
    BY <1>2, <2>1 DEF OrphanEnds, CopyEnds
  <2> QED
    BY <2>1, <2>2, <2>3, SpoilingStep DEF AtomicInv
<1>3. CASE Tick \/ UNCHANGED vars
  <2>1. UNCHANGED <<run, file, good, spoiled>>
    BY <1>3 DEF Tick, vars
  <2> QED
    BY <2>1 DEF AtomicInv, FileInv, AllOrNothing, Inside, Undoable, MyFile, At
\* A crash leaves nobody inside, and spoils every plugin that is not whole.
<1>4. CASE Crash
  <2>1. \A f \in File : Whole(f)'
    BY <1>4 DEF Crash, Whole
  <2>2. ASSUME NEW s \in Run PROVE ~Inside(s)'
    <3>1. run[s].pc \in Await \cup {"idle", "done", "dead"} /\ run[s] \in RunState
      BY DEF AtomicInv, WriterInv, TypeOK, RunState
    <3>2. run'[s].pc = IF run[s].pc \in Await THEN "dead" ELSE run[s].pc
      BY <1>4, <3>1 DEF Crash, RunState
    <3> QED
      BY <3>1, <3>2 DEF Inside, At, Await
  <2> QED
    BY <2>1, <2>2 DEF FileInv, AllOrNothing, Whole
<1>5. ASSUME NEW s \in Run, Start(s) \/ Progress(s) \/ Cancel(s) PROVE FileInv'
  BY <1>1, <1>5, ProgressWhole, CancelWhole
<1> QED
  BY <1>1, <1>2, <1>3, <1>4, <1>5 DEF Next

\* A run takes effect entirely or not at all, and a rollback never undoes another run's
\* success (locks.py:441-442), however many runs there are and whatever is cancelled,
\* fails, is left behind or dies: when nobody is inside, a plugin is what the last
\* success left, or it is one of those that nobody could restore.  The runs on one
\* plugin lock one name, and every tool is killed before its lease ends.
THEOREM TakeEffectEntirely ==
  ASSUME Timely, SameLock
  PROVE  Spec => []AllOrNothing
<1>1. Init => AtomicInv
  BY AtomicInit
<1>2. AtomicInv /\ [Next]_vars => AtomicInv'
  BY AtomicNext
<1>3. AtomicInv => AllOrNothing
  BY DEF AtomicInv, FileInv
<1> QED
  BY <1>1, <1>2, <1>3, PTL DEF Spec

------------------------------------------------------------------------------
(* The completed event.  When nothing is spoiled, a plugin is the good     *)
(* state or the work of the run inside; so what has been announced as      *)
(* rolled back is in the file only if it is the good state, and only a     *)
(* success makes it that.                                                  *)

Before == {"idle", "acquiring", "snapshot", "begin", "tool", "running"}

\* What a run of Synthesis or xEdit in the state d knows of its transaction and of
\* the good state g of its plugin, until it says how it ended.
Sees(s, d, g) ==
    /\ d.told # "nothing" => d.pc = "done"
    /\ d.told = "success" => d.tx = "committed"
    /\ d.told = "rolled_back" => d.exc \in {"domain", "other"}
    /\ d.pc # "announce"
    /\ d.pc = "commit" => d.exc = "none"
    /\ d.pc = "publish" /\ d.exc = "none" => d.tx = "committed"
    /\ d.pc = "mark" => d.exc # "none"
    /\ d.pc \in {"mark", "publish"} => d.exc # "cancel"
    /\ d.pc \in Before => d.exc = "none"
    /\ d.pc \in Before \/ d.exc \in {"domain", "other"} => g.by # s

Knows(s) == Sees(s, run[s], good[FileOf[s]])

EventInv == TypeOK /\ \A s \in Run : Knows(s)

Entering(s) ==
    \/ Start(s) \/ Acquire(s) \/ Refused(s) \/ Snapshot(s) \/ SnapshotFails(s)
    \/ Begin(s) \/ BeginFails(s)

Working(s) ==
    \/ ToolWrites(s) \/ ToolSucceeds(s) \/ NothingToDo(s) \/ ToolFails(s)
    \/ Commit(s) \/ CommitFails(s) \/ Announce(s) \/ AnnounceFails(s)

Leaving(s) ==
    \/ Restore(s) \/ RestoreFails(s) \/ Release(s) \/ ReleaseFails(s)
    \/ Mark(s) \/ MarkFails(s) \/ Publish(s) \/ PublishFails(s)

\* A step of one run does not take from the others what they know.
LEMMA KnowsStep ==
  ASSUME EventInv, NEW s \in Run, NEW d, Becomes(s, d), Sees(s, d, good'[FileOf[s]]),
         good' = good \/ good' = [good EXCEPT ![FileOf[s]] = Output(s)]
  PROVE  \A t \in Run : Knows(t)'
<1>1. run \in [Run -> RunState] /\ FileOf \in [Run -> File] /\ good \in [File -> Content]
  BY PipelineAssumption DEF EventInv, TypeOK
<1>2. run'[s] = d /\ \A t \in Run \ {s} : run'[t] = run[t]
  BY <1>1 DEF Becomes
<1>3. Knows(s)'
  BY <1>2 DEF Knows
<1>4. ASSUME NEW t \in Run \ {s} PROVE Knows(t)'
  <2>1. good'[FileOf[t]].by = good[FileOf[t]].by \/ good'[FileOf[t]].by # t
    BY <1>1, Contents
  <2>2. Sees(t, run[t], good[FileOf[t]])
    BY DEF EventInv, Knows
  <2>3. Sees(t, run[t], good'[FileOf[t]])
    BY <2>1, <2>2 DEF Sees
  <2> QED
    BY <1>2, <2>3 DEF Knows
<1> QED
  BY <1>3, <1>4

\* Up to the tool no run has made the good state, and only a success goes to the commit.
LEMMA KnowsEntering ==
  ASSUME EventInv, NEW s \in Run, ~DynDOLOD(s), Entering(s)
  PROVE  \A t \in Run : Knows(t)'
<1>1. run[s] \in RunState /\ Sees(s, run[s], good[FileOf[s]])
  BY DEF EventInv, TypeOK, Knows
<1>2. FileOf[s] \in File /\ good \in [File -> Content]
  BY PipelineAssumption DEF EventInv, TypeOK
<1>3. CASE Start(s)
  <2>1. Becomes(s, [run[s] EXCEPT !.pc = "acquiring",
                       !.listed = ServiceOf[s] = "xedit" \/ MyFile(s) # Missing])
    BY <1>3 DEF Start
  <2>2. run[s].pc = "idle" /\ good' = good
    BY <1>3 DEF Start, At
  <2>3. Sees(s, [run[s] EXCEPT !.pc = "acquiring",
                       !.listed = ServiceOf[s] = "xedit" \/ MyFile(s) # Missing], good'[FileOf[s]])
    BY <1>1, <1>2, <2>2 DEF Sees, Before, RunState
  <2> QED
    BY <2>1, <2>2, <2>3, KnowsStep
<1>4. CASE Acquire(s)
  <2>1. Becomes(s, [run[s] EXCEPT !.pc = "snapshot", !.expires = now + TTL])
    BY <1>4 DEF Acquire
  <2>2. run[s].pc = "acquiring" /\ good' = good
    BY <1>4 DEF Acquire, At
  <2>3. Sees(s, [run[s] EXCEPT !.pc = "snapshot", !.expires = now + TTL], good'[FileOf[s]])
    BY <1>1, <1>2, <2>2 DEF Sees, Before, RunState
  <2> QED
    BY <2>1, <2>2, <2>3, KnowsStep
<1>5. CASE Refused(s)
  <2>1. Becomes(s, [run[s] EXCEPT !.pc = "publish", !.exc = "refused"])
    BY <1>5 DEF Refused
  <2>2. run[s].pc = "acquiring" /\ good' = good
    BY <1>5 DEF Refused, At
  <2>3. Sees(s, [run[s] EXCEPT !.pc = "publish", !.exc = "refused"], good'[FileOf[s]])
    BY <1>1, <1>2, <2>2 DEF Sees, Before, RunState
  <2> QED
    BY <2>1, <2>2, <2>3, KnowsStep
<1>6. CASE Snapshot(s)
  <2>1. PICK content : Becomes(s, [run[s] EXCEPT !.pc = "begin", !.snap = content])
    BY <1>6 DEF Snapshot
  <2>2. run[s].pc = "snapshot" /\ good' = good
    BY <1>6 DEF Snapshot, At
  <2>3. Sees(s, [run[s] EXCEPT !.pc = "begin", !.snap = content], good'[FileOf[s]])
    BY <1>1, <1>2, <2>2 DEF Sees, Before, RunState
  <2> QED
    BY <2>1, <2>2, <2>3, KnowsStep
<1>7. CASE SnapshotFails(s)
  <2>1. Becomes(s, [run[s] EXCEPT !.pc = "release", !.exc = "early"])
    BY <1>7 DEF SnapshotFails
  <2>2. run[s].pc = "snapshot" /\ good' = good
    BY <1>7 DEF SnapshotFails, At
  <2>3. Sees(s, [run[s] EXCEPT !.pc = "release", !.exc = "early"], good'[FileOf[s]])
    BY <1>1, <1>2, <2>2 DEF Sees, Before, RunState
  <2> QED
    BY <2>1, <2>2, <2>3, KnowsStep
<1>8. CASE Begin(s)
  <2>1. Becomes(s, [run[s] EXCEPT !.pc = "tool", !.tx = "pending", !.known = TRUE])
    BY <1>8 DEF Begin
  <2>2. run[s].pc = "begin" /\ good' = good
    BY <1>8 DEF Begin, At
  <2>3. Sees(s, [run[s] EXCEPT !.pc = "tool", !.tx = "pending", !.known = TRUE], good'[FileOf[s]])
    BY <1>1, <1>2, <2>2 DEF Sees, Before, RunState
  <2> QED
    BY <2>1, <2>2, <2>3, KnowsStep
<1>9. CASE BeginFails(s)
  <2>1. PICK tx : Becomes(s, [run[s] EXCEPT !.pc = "restore", !.exc = "other", !.tx = tx])
    BY <1>9 DEF BeginFails
  <2>2. run[s].pc = "begin" /\ good' = good
    BY <1>9 DEF BeginFails, At
  <2>3. Sees(s, [run[s] EXCEPT !.pc = "restore", !.exc = "other", !.tx = tx], good'[FileOf[s]])
    BY <1>1, <1>2, <2>2 DEF Sees, Before, RunState
  <2> QED
    BY <2>1, <2>2, <2>3, KnowsStep
<1> QED
  BY <1>3, <1>4, <1>5, <1>6, <1>7, <1>8, <1>9 DEF Entering

\* A run that succeeds can no longer be rolled back; one that fails leaves the good state
\* to others.
LEMMA KnowsTool ==
  ASSUME EventInv, NEW s \in Run, ~DynDOLOD(s), Working(s)
  PROVE  \A t \in Run : Knows(t)'
<1>1. run[s] \in RunState /\ Sees(s, run[s], good[FileOf[s]])
  BY DEF EventInv, TypeOK, Knows
<1>2. FileOf[s] \in File /\ good \in [File -> Content]
  BY PipelineAssumption DEF EventInv, TypeOK
<1>3. CASE Announce(s) \/ AnnounceFails(s)
  BY <1>1, <1>3 DEF Announce, AnnounceFails, Sees, At
<1>4. CASE ToolWrites(s)
  <2>1. Becomes(s, [run[s] EXCEPT !.pc = "running"])
    BY <1>4 DEF ToolWrites, GoTo
  <2>2. run[s].pc = "tool" /\ good' = good
    BY <1>4 DEF ToolWrites, At
  <2>3. Sees(s, [run[s] EXCEPT !.pc = "running"], good'[FileOf[s]])
    BY <1>1, <1>2, <2>2 DEF Sees, Before, RunState
  <2> QED
    BY <2>1, <2>2, <2>3, KnowsStep
<1>5. CASE ToolSucceeds(s)
  <2>1. Becomes(s, [run[s] EXCEPT !.pc = "release"])
    BY <1>5 DEF ToolSucceeds, GoTo, Succeed
  <2>2. run[s].pc = "running" /\ good' = [good EXCEPT ![FileOf[s]] = Output(s)]
    BY <1>5 DEF ToolSucceeds, Succeed, At
  <2>3. Sees(s, [run[s] EXCEPT !.pc = "release"], good'[FileOf[s]])
    BY <1>1, <1>2, <2>2, Contents DEF Sees, Before, RunState
  <2> QED
    BY <2>1, <2>2, <2>3, KnowsStep
<1>6. CASE NothingToDo(s)
  <2>1. Becomes(s, [run[s] EXCEPT !.pc = "release"])
    BY <1>6 DEF NothingToDo, GoTo
  <2>2. run[s].pc = "tool" /\ good' = good
    BY <1>6 DEF NothingToDo, At
  <2>3. Sees(s, [run[s] EXCEPT !.pc = "release"], good'[FileOf[s]])
    BY <1>1, <1>2, <2>2 DEF Sees, Before, RunState
  <2> QED
    BY <2>1, <2>2, <2>3, KnowsStep
<1>7. CASE ToolFails(s)
  <2>1. PICK exc \in {"domain", "other"} : Becomes(s, [run[s] EXCEPT !.pc = "restore", !.exc = exc])
    BY <1>7 DEF ToolFails, Raise
  <2>2. run[s].pc \in {"tool", "running"} /\ good' = good
    BY <1>7 DEF ToolFails, At
  <2>3. Sees(s, [run[s] EXCEPT !.pc = "restore", !.exc = exc], good'[FileOf[s]])
    BY <1>1, <1>2, <2>2 DEF Sees, Before, RunState
  <2> QED
    BY <2>1, <2>2, <2>3, KnowsStep
<1>8. CASE Commit(s)
  <2>1. Becomes(s, [run[s] EXCEPT !.pc = "publish", !.tx = "committed"])
    BY <1>8 DEF Commit
  <2>2. run[s].pc = "commit" /\ good' = good
    BY <1>8 DEF Commit, At
  <2>3. Sees(s, [run[s] EXCEPT !.pc = "publish", !.tx = "committed"], good'[FileOf[s]])
    BY <1>1, <1>2, <2>2 DEF Sees, Before, RunState
  <2> QED
    BY <2>1, <2>2, <2>3, KnowsStep
<1>9. CASE CommitFails(s)
  <2>1. Becomes(s, [run[s] EXCEPT !.pc = "mark", !.exc = "late"])
    BY <1>9 DEF CommitFails
  <2>2. run[s].pc = "commit" /\ good' = good
    BY <1>9 DEF CommitFails, At
  <2>3. Sees(s, [run[s] EXCEPT !.pc = "mark", !.exc = "late"], good'[FileOf[s]])
    BY <1>1, <1>2, <2>2 DEF Sees, Before, RunState
  <2> QED
    BY <2>1, <2>2, <2>3, KnowsStep
<1> QED
  BY <1>3, <1>4, <1>5, <1>6, <1>7, <1>8, <1>9 DEF Working

\* What is told is what the transaction and the exception say.
LEMMA KnowsLeaving ==
  ASSUME EventInv, NEW s \in Run, ~DynDOLOD(s), Leaving(s)
  PROVE  \A t \in Run : Knows(t)'
<1>1. run[s] \in RunState /\ Sees(s, run[s], good[FileOf[s]])
  BY DEF EventInv, TypeOK, Knows
<1>2. FileOf[s] \in File /\ good \in [File -> Content]
  BY PipelineAssumption DEF EventInv, TypeOK
<1>3. CASE Restore(s) \/ RestoreFails(s)
  <2>1. Becomes(s, [run[s] EXCEPT !.pc = "release"])
    BY <1>3 DEF Restore, RestoreFails, GiveUp, GoTo
  <2>2. run[s].pc = "restore" /\ good' = good
    BY <1>3 DEF Restore, RestoreFails, At
  <2>3. Sees(s, [run[s] EXCEPT !.pc = "release"], good'[FileOf[s]])
    BY <1>1, <1>2, <2>2 DEF Sees, Before, RunState
  <2> QED
    BY <2>1, <2>2, <2>3, KnowsStep
<1>4. CASE Release(s) \/ ReleaseFails(s)
  <2>1. Becomes(s, [run[s] EXCEPT !.pc = AfterRelease(s, run[s].exc)])
    BY <1>4 DEF Release, ReleaseFails, GoTo
  <2>2. run[s].pc = "release" /\ good' = good
    BY <1>4 DEF Release, ReleaseFails, At
  <2>3. Sees(s, [run[s] EXCEPT !.pc = AfterRelease(s, run[s].exc)], good'[FileOf[s]])
    BY <1>1, <1>2, <2>2 DEF Sees, Before, RunState, AfterRelease
  <2> QED
    BY <2>1, <2>2, <2>3, KnowsStep
<1>5. CASE Mark(s)
  <2>1. Becomes(s, [run[s] EXCEPT !.tx = "rolled_back",
                       !.pc = IF run[s].exc = "cancel" THEN "done" ELSE "publish"])
    BY <1>5 DEF Mark
  <2>2. run[s].pc = "mark" /\ good' = good
    BY <1>5 DEF Mark, At
  <2>3. Sees(s, [run[s] EXCEPT !.tx = "rolled_back",
                       !.pc = IF run[s].exc = "cancel" THEN "done" ELSE "publish"],
             good'[FileOf[s]])
    BY <1>1, <1>2, <2>2 DEF Sees, Before, RunState
  <2> QED
    BY <2>1, <2>2, <2>3, KnowsStep
<1>6. CASE MarkFails(s)
  <2>1. PICK pc \in {"done", "publish"} : Becomes(s, [run[s] EXCEPT !.pc = pc])
    BY <1>6 DEF MarkFails, GoTo
  <2>2. run[s].pc = "mark" /\ good' = good
    BY <1>6 DEF MarkFails, At
  <2>3. Sees(s, [run[s] EXCEPT !.pc = pc], good'[FileOf[s]])
    BY <1>1, <1>2, <2>2 DEF Sees, Before, RunState
  <2> QED
    BY <2>1, <2>2, <2>3, KnowsStep
<1>7. CASE Publish(s)
  <2>1. Becomes(s, [run[s] EXCEPT !.pc = "done", !.told = Report(s)])
    BY <1>7 DEF Publish
  <2>2. run[s].pc = "publish" /\ good' = good
    BY <1>7 DEF Publish, At
  <2>3. Sees(s, [run[s] EXCEPT !.pc = "done", !.told = Report(s)], good'[FileOf[s]])
    BY <1>1, <1>2, <2>2 DEF Sees, Before, RunState, Report, Exc
  <2> QED
    BY <2>1, <2>2, <2>3, KnowsStep
<1>8. CASE PublishFails(s)
  <2>1. Becomes(s, [run[s] EXCEPT !.pc = "done"])
    BY <1>8 DEF PublishFails, GoTo
  <2>2. run[s].pc = "publish" /\ good' = good
    BY <1>8 DEF PublishFails, At
  <2>3. Sees(s, [run[s] EXCEPT !.pc = "done"], good'[FileOf[s]])
    BY <1>1, <1>2, <2>2 DEF Sees, Before, RunState
  <2> QED
    BY <2>1, <2>2, <2>3, KnowsStep
<1> QED
  BY <1>3, <1>4, <1>5, <1>6, <1>7, <1>8 DEF Leaving

\* The exception of a cancellation is never told.
LEMMA KnowsCancel ==
  ASSUME EventInv, NEW s \in Run, ~DynDOLOD(s), Cancel(s)
  PROVE  \A t \in Run : Knows(t)'
<1>1. run[s] \in RunState /\ Sees(s, run[s], good[FileOf[s]])
  BY DEF EventInv, TypeOK, Knows
<1>2. FileOf[s] \in File /\ good \in [File -> Content]
  BY PipelineAssumption DEF EventInv, TypeOK
<1>3. CASE CancelAnnounce(s)
  BY <1>1, <1>3 DEF CancelAnnounce, Sees, At
<1>4. CASE CancelEntering(s)
  <2>1. Becomes(s, [run[s] EXCEPT !.pc = "done", !.exc = "cancel"])
    BY <1>4 DEF CancelEntering, Cancelled
  <2>2. run[s].pc \in {"acquiring", "snapshot"} /\ good' = good
    BY <1>4 DEF CancelEntering, At
  <2>3. Sees(s, [run[s] EXCEPT !.pc = "done", !.exc = "cancel"], good'[FileOf[s]])
    BY <1>1, <1>2, <2>2 DEF Sees, Before, RunState
  <2> QED
    BY <2>1, <2>2, <2>3, KnowsStep
<1>5. CASE CancelBegin(s)
  <2>1. PICK tx : Becomes(s, [run[s] EXCEPT !.pc = "restore", !.exc = "cancel", !.tx = tx])
    BY <1>5 DEF CancelBegin
  <2>2. run[s].pc = "begin" /\ good' = good
    BY <1>5 DEF CancelBegin, At
  <2>3. Sees(s, [run[s] EXCEPT !.pc = "restore", !.exc = "cancel", !.tx = tx], good'[FileOf[s]])
    BY <1>1, <1>2, <2>2 DEF Sees, Before, RunState
  <2> QED
    BY <2>1, <2>2, <2>3, KnowsStep
<1>6. CASE CancelTool(s)
  <2>1. Becomes(s, [run[s] EXCEPT !.pc = "restore", !.exc = "cancel",
                       !.orphan = At(s, "running")])
    BY <1>6 DEF CancelTool
  <2>2. run[s].pc \in {"tool", "running"} /\ good' = good
    BY <1>6 DEF CancelTool, At
  <2>3. Sees(s, [run[s] EXCEPT !.pc = "restore", !.exc = "cancel",
                       !.orphan = At(s, "running")], good'[FileOf[s]])
    BY <1>1, <1>2, <2>2 DEF Sees, Before, RunState
  <2> QED
    BY <2>1, <2>2, <2>3, KnowsStep
<1>7. CASE CancelCommit(s)
  <2>1. PICK tx : Becomes(s, [run[s] EXCEPT !.pc = "done", !.exc = "cancel", !.tx = tx])
    BY <1>7 DEF CancelCommit
  <2>2. run[s].pc = "commit" /\ good' = good
    BY <1>7 DEF CancelCommit, At
  <2>3. Sees(s, [run[s] EXCEPT !.pc = "done", !.exc = "cancel", !.tx = tx], good'[FileOf[s]])
    BY <1>1, <1>2, <2>2 DEF Sees, Before, RunState
  <2> QED
    BY <2>1, <2>2, <2>3, KnowsStep
<1>8. CASE CancelRestore(s)
  <2>1. PICK on : Becomes(s, [run[s] EXCEPT !.pc = "release", !.exc = "cancel", !.copying = on])
    BY <1>8 DEF CancelRestore
  <2>2. run[s].pc = "restore" /\ good' = good
    BY <1>8 DEF CancelRestore, At
  <2>3. Sees(s, [run[s] EXCEPT !.pc = "release", !.exc = "cancel", !.copying = on],
             good'[FileOf[s]])
    BY <1>1, <1>2, <2>2 DEF Sees, Before, RunState
  <2> QED
    BY <2>1, <2>2, <2>3, KnowsStep
<1>9. CASE CancelRelease(s)
  <2>1. Becomes(s, [run[s] EXCEPT !.pc = "done", !.exc = "cancel"])
    BY <1>9 DEF CancelRelease, Cancelled, AfterRelease
  <2>2. run[s].pc = "release" /\ good' = good
    BY <1>9 DEF CancelRelease, At
  <2>3. Sees(s, [run[s] EXCEPT !.pc = "done", !.exc = "cancel"], good'[FileOf[s]])
    BY <1>1, <1>2, <2>2 DEF Sees, Before, RunState
  <2> QED
    BY <2>1, <2>2, <2>3, KnowsStep
<1>10. CASE CancelLast(s)
  <2>1. PICK tx : Becomes(s, [run[s] EXCEPT !.pc = "done", !.exc = "cancel", !.tx = tx])
    BY <1>10 DEF CancelLast
  <2>2. run[s].pc \in {"mark", "publish"} /\ good' = good
    BY <1>10 DEF CancelLast, At
  <2>3. Sees(s, [run[s] EXCEPT !.pc = "done", !.exc = "cancel", !.tx = tx], good'[FileOf[s]])
    BY <1>1, <1>2, <2>2 DEF Sees, Before, RunState
  <2> QED
    BY <2>1, <2>2, <2>3, KnowsStep
<1> QED
  BY <1>3, <1>4, <1>5, <1>6, <1>7, <1>8, <1>9, <1>10 DEF Cancel

LEMMA EventNext ==
  ASSUME \A s \in Run : ~DynDOLOD(s)
  PROVE  EventInv /\ [Next]_vars => EventInv'
<1> SUFFICES ASSUME EventInv, [Next]_vars PROVE \A s \in Run : Knows(s)'
  BY TypeNext DEF EventInv
<1>1. ASSUME NEW s \in Run, Start(s) \/ Progress(s) PROVE \A t \in Run : Knows(t)'
  BY <1>1, KnowsEntering, KnowsTool, KnowsLeaving DEF Progress, Entering, Working, Leaving
<1>2. ASSUME NEW s \in Run, Cancel(s) PROVE \A t \in Run : Knows(t)'
  BY <1>2, KnowsCancel
<1>3. ASSUME NEW s \in Run, OrphanEnds(s) PROVE \A t \in Run : Knows(t)'
  <2>1. Becomes(s, [run[s] EXCEPT !.orphan = FALSE]) /\ good' = good
    BY <1>3 DEF OrphanEnds
  <2>2. Sees(s, [run[s] EXCEPT !.orphan = FALSE], good'[FileOf[s]])
    BY <2>1 DEF EventInv, Knows, Sees, TypeOK, RunState
  <2> QED
    BY <2>1, <2>2, KnowsStep
<1>4. ASSUME NEW s \in Run, CopyEnds(s) PROVE \A t \in Run : Knows(t)'
  <2>1. Becomes(s, [run[s] EXCEPT !.copying = FALSE]) /\ good' = good
    BY <1>4 DEF CopyEnds
  <2>2. Sees(s, [run[s] EXCEPT !.copying = FALSE], good'[FileOf[s]])
    BY <2>1 DEF EventInv, Knows, Sees, TypeOK, RunState
  <2> QED
    BY <2>1, <2>2, KnowsStep
<1>5. CASE Tick \/ UNCHANGED vars
  <2>1. run' = run /\ good' = good
    BY <1>5 DEF Tick, vars
  <2> QED
    BY <2>1 DEF EventInv, Knows
\* A dead run tells nothing.
<1>6. CASE Crash
  <2> SUFFICES ASSUME NEW s \in Run PROVE Knows(s)'
    OBVIOUS
  <2>1. run[s] \in RunState /\ Knows(s)
    BY DEF EventInv, TypeOK
  <2>2. /\ run'[s] = [run[s] EXCEPT !.pc = IF @ \in Await THEN "dead" ELSE @,
                                    !.copying = FALSE,
                                    !.orphan = @ \/ At(s, "running")]
        /\ good' = good
    BY <1>6 DEF Crash
  <2>3. /\ run'[s].pc \in {run[s].pc, "dead"} /\ run'[s].exc = run[s].exc
        /\ run'[s].tx = run[s].tx /\ run'[s].told = run[s].told
        /\ run[s].pc = "done" => run'[s].pc = "done"
    BY <2>1, <2>2 DEF RunState, Await
  <2> QED
    BY <2>1, <2>2, <2>3 DEF Knows, Sees, Before
<1> QED
  BY <1>1, <1>2, <1>3, <1>4, <1>5, <1>6 DEF Next

\* The completed event tells the truth, for every set of runs of Synthesis and xEdit
\* (synthesis_service.py, xedit_service.py): a success that is announced has been
\* committed in the journal, and the output of a run announced as rolled back is not in
\* the plugin, unless nobody could take it out.  DynDOLOD, which announces before it
\* leaves the lock, is not covered.
THEOREM EventsHonest ==
  ASSUME Timely, SameLock, \A s \in Run : ~DynDOLOD(s)
  PROVE  Spec => []HonestEvent
<1>1. Init => AtomicInv /\ EventInv
  <2>1. Init => AtomicInv
    BY AtomicInit
  <2>2. Init => \A s \in Run : Knows(s)
    <3> SUFFICES ASSUME Init, NEW s \in Run PROVE Sees(s, Fresh, good[FileOf[s]])
      BY DEF Init, Knows
    <3>1. good[FileOf[s]] \in {Original, Missing}
      BY PipelineAssumption DEF Init
    <3>2. good[FileOf[s]].by # s
      BY <3>1, PipelineAssumption DEF Original, Missing
    <3> QED
      BY <3>2 DEF Sees, Fresh
  <2> QED
    BY <2>1, <2>2 DEF EventInv, AtomicInv, WriterInv
<1>2. AtomicInv /\ EventInv /\ [Next]_vars => (AtomicInv /\ EventInv)'
  BY AtomicNext, EventNext
<1>3. AtomicInv /\ EventInv => HonestEvent
  <2> SUFFICES ASSUME AtomicInv, EventInv, NEW s \in Run
               PROVE  /\ run[s].told = "success" => run[s].tx = "committed"
                      /\ run[s].told = "rolled_back" /\ FileOf[s] \notin spoiled
                            => MyFile(s).by # s
    BY DEF HonestEvent
  <2>1. Sees(s, run[s], good[FileOf[s]]) /\ FileOf[s] \in File
    BY PipelineAssumption DEF EventInv, Knows
  <2>2. ASSUME run[s].told = "rolled_back", FileOf[s] \notin spoiled PROVE MyFile(s).by # s
    <3>1. ~Inside(s) /\ good[FileOf[s]].by # s
      BY <2>1, <2>2 DEF Sees, Inside, At
    <3>2. CASE file[FileOf[s]] = good[FileOf[s]]
      BY <3>1, <3>2 DEF MyFile
    <3>3. ASSUME NEW t \in Run, FileOf[t] = FileOf[s], Inside(t) PROVE MyFile(s).by # s
      <4>1. Undoable(t)
        BY <3>3 DEF AtomicInv, FileInv
      <4> QED
        BY <2>2, <3>1, <3>3, <4>1 DEF Undoable, MyFile
    <3> QED
      BY <2>1, <2>2, <3>2, <3>3 DEF AtomicInv, FileInv, AllOrNothing
  <2> QED
    BY <2>1, <2>2 DEF Sees
<1> QED
  BY <1>1, <1>2, <1>3, PTL DEF Spec

------------------------------------------------------------------------------
(* No DynDOLOD run ends with its transaction pending.  A pending row is    *)
(* known to the run, which is on a way that leads past Commit or Mark.     *)

\* The journal answers, and no task is cancelled while it inserts or marks a row.
JournalAnswers == "journal" \notin Faults /\ Cancels \cap {"begin", "mark"} = {}

Closing(d) ==
    /\ d.tx = "pending" =>
          d.known /\ d.pc \notin {"idle", "acquiring", "snapshot", "begin", "announce",
                                  "publish", "done"}
    /\ d.pc \in {"tool", "running", "commit"} => d.known
    /\ d.pc = "restore" => d.exc # "none"
    /\ d.pc = "release" /\ d.exc = "none" => d.tx # "pending"

LodInv == TypeOK /\ \A s \in Run : DynDOLOD(s) => Closing(run[s])

LEMMA ClosingProgress ==
  ASSUME LodInv, JournalAnswers, NEW s \in Run, DynDOLOD(s), Start(s) \/ Progress(s)
  PROVE  Closing(run'[s])
<1>1. run \in [Run -> RunState] /\ run[s] \in RunState /\ Closing(run[s])
  BY DEF LodInv, TypeOK
<1>2. CASE Start(s)
  BY <1>1, <1>2 DEF Start, Becomes, At, Closing, RunState
<1>3. CASE Acquire(s)
  BY <1>1, <1>3 DEF Acquire, Becomes, At, Closing, RunState
<1>4. CASE Refused(s)
  BY <1>1, <1>4 DEF Refused, Becomes, At, Closing, RunState
<1>5. CASE Snapshot(s)
  BY <1>1, <1>5 DEF Snapshot, Becomes, At, Closing, RunState
<1>6. CASE SnapshotFails(s)
  BY <1>1, <1>6 DEF SnapshotFails, Becomes, At, Closing, RunState
<1>7. CASE Begin(s)
  BY <1>1, <1>7 DEF Begin, Becomes, At, Closing, RunState
<1>8. CASE ToolWrites(s)
  BY <1>1, <1>8 DEF ToolWrites, GoTo, Becomes, At, Closing, RunState
<1>9. CASE ToolSucceeds(s)
  BY <1>1, <1>9 DEF ToolSucceeds, GoTo, Becomes, At, Closing, RunState
<1>10. CASE ToolFails(s)
  BY <1>1, <1>10 DEF ToolFails, Raise, Becomes, At, Closing, RunState
<1>11. CASE Commit(s)
  BY <1>1, <1>11 DEF Commit, Becomes, At, Closing, RunState
<1>12. CASE Announce(s)
  BY <1>1, <1>12 DEF Announce, Becomes, At, Closing, RunState
<1>13. CASE AnnounceFails(s)
  BY <1>1, <1>13 DEF AnnounceFails, Raise, Becomes, At, Closing, RunState
<1>14. CASE Restore(s) \/ RestoreFails(s)
  <2>1. GoTo(s, "release") /\ At(s, "restore")
    BY <1>14 DEF Restore, RestoreFails, GiveUp
  <2> QED
    BY <1>1, <2>1 DEF GoTo, Becomes, At, Closing, RunState
<1>15. CASE Release(s) \/ ReleaseFails(s)
  <2>1. GoTo(s, AfterRelease(s, run[s].exc)) /\ At(s, "release")
    BY <1>15 DEF Release, ReleaseFails
  <2>2. /\ AfterRelease(s, run[s].exc) \in {"done", "mark", "publish"}
        /\ run[s].exc # "none" /\ run[s].known => AfterRelease(s, run[s].exc) = "mark"
    BY <1>1 DEF AfterRelease, RunState, Exc
  <2> QED
    BY <1>1, <2>1, <2>2 DEF GoTo, Becomes, At, Closing, RunState
<1>16. CASE Mark(s)
  BY <1>1, <1>16 DEF Mark, Becomes, At, Closing, RunState
<1>17. CASE Publish(s)
  BY <1>1, <1>17 DEF Publish, Becomes, At, Closing, RunState
<1>18. CASE PublishFails(s)
  BY <1>1, <1>18 DEF PublishFails, GoTo, Becomes, At, Closing, RunState
<1>19. ~BeginFails(s) /\ ~CommitFails(s) /\ ~MarkFails(s) /\ ~NothingToDo(s)
  BY DEF BeginFails, CommitFails, MarkFails, NothingToDo, JournalAnswers, DynDOLOD
<1> QED
  BY <1>2, <1>3, <1>4, <1>5, <1>6, <1>7, <1>8, <1>9, <1>10, <1>11, <1>12, <1>13, <1>14,
     <1>15, <1>16, <1>17, <1>18, <1>19 DEF Progress

LEMMA ClosingCancel ==
  ASSUME LodInv, JournalAnswers, NEW s \in Run, DynDOLOD(s), Cancel(s)
  PROVE  Closing(run'[s])
<1>1. /\ run \in [Run -> RunState] /\ run[s] \in RunState /\ Closing(run[s])
      /\ run[s].pc \notin {"begin", "mark"}
  BY DEF LodInv, TypeOK, Cancel, JournalAnswers
<1>2. CASE CancelEntering(s)
  BY <1>1, <1>2 DEF CancelEntering, Cancelled, Becomes, At, Closing, RunState
<1>3. CASE CancelTool(s)
  <2> DEFINE orphan == At(s, "running")
  <2>1. /\ Becomes(s, [run[s] EXCEPT !.pc = "restore", !.exc = "cancel", !.orphan = orphan])
        /\ run[s].pc \in {"tool", "running"}
    BY <1>3 DEF CancelTool
  <2> HIDE DEF orphan
  <2> QED
    BY <1>1, <2>1 DEF Becomes, Closing, RunState
<1>4. CASE CancelCommit(s)
  <2>1. PICK tx \in {"pending", "committed"} :
           Becomes(s, [run[s] EXCEPT !.pc = "restore", !.exc = "cancel", !.tx = tx])
    BY <1>4 DEF CancelCommit
  <2>2. /\ run'[s].pc = "restore" /\ run'[s].exc = "cancel" /\ run'[s].known = run[s].known
        /\ run[s].pc = "commit"
    BY <1>1, <1>4, <2>1 DEF CancelCommit, Becomes, At, RunState
  <2>3. run'[s].known
    BY <1>1, <2>2 DEF Closing
  <2> QED
    BY <1>1, <2>2, <2>3 DEF Closing
<1>5. CASE CancelAnnounce(s)
  BY <1>1, <1>5 DEF CancelAnnounce, Cancelled, Becomes, At, Closing, RunState
<1>6. CASE CancelRestore(s)
  <2>1. PICK on \in BOOLEAN :
           Becomes(s, [run[s] EXCEPT !.pc = "release", !.exc = "cancel", !.copying = on])
    BY <1>6 DEF CancelRestore
  <2>2. run[s].pc = "restore"
    BY <1>6 DEF CancelRestore, At
  <2> QED
    BY <1>1, <2>1, <2>2 DEF Becomes, Closing, RunState
<1>7. CASE CancelRelease(s)
  <2>1. Cancelled(s, AfterRelease(s, "cancel")) /\ run[s].pc = "release"
    BY <1>7 DEF CancelRelease, At
  <2>2. AfterRelease(s, "cancel") = IF run[s].known THEN "mark" ELSE "done"
    BY DEF AfterRelease
  <2> QED
    BY <1>1, <2>1, <2>2 DEF Cancelled, Becomes, Closing, RunState
<1>8. CASE CancelLast(s)
  <2>1. Becomes(s, [run[s] EXCEPT !.pc = "done", !.exc = "cancel", !.tx = run[s].tx])
    BY <1>1, <1>8 DEF CancelLast, At
  <2>2. run[s].pc = "publish"
    BY <1>1, <1>8 DEF CancelLast
  <2> QED
    BY <1>1, <2>1, <2>2 DEF Becomes, Closing, RunState
<1>9. ~CancelBegin(s)
  BY <1>1 DEF CancelBegin, At
<1> QED
  BY <1>2, <1>3, <1>4, <1>5, <1>6, <1>7, <1>8, <1>9 DEF Cancel

\* A step of one run leaves the others as they are.
LEMMA RunsStep ==
  ASSUME TypeOK, NEW s \in Run, Start(s) \/ Progress(s) \/ Cancel(s)
  PROVE  Others(s)
<1>1. run \in [Run -> RunState]
  BY DEF TypeOK
<1>2. ASSUME NEW d, Becomes(s, d) PROVE Others(s)
  BY <1>1, <1>2 DEF Becomes, Others
<1>3. CASE Cancel(s)
  BY <1>2, <1>3 DEF Cancel, CancelEntering, CancelBegin, CancelTool, CancelCommit, CancelAnnounce,
     CancelRestore, CancelRelease, CancelLast, Cancelled
<1>4. CASE Start(s) \/ Progress(s)
  BY <1>2, <1>4 DEF Start, Progress, Acquire, Refused, Snapshot, SnapshotFails, Begin,
     BeginFails, ToolWrites, ToolSucceeds, NothingToDo, ToolFails, Commit, CommitFails, Announce,
     AnnounceFails, Restore, RestoreFails, GiveUp, Release, ReleaseFails, Mark, MarkFails,
     Publish, PublishFails, GoTo, Raise
<1> QED
  BY <1>3, <1>4

LEMMA ClosingNext ==
  ASSUME JournalAnswers
  PROVE  LodInv /\ [Next]_vars => LodInv'
<1> SUFFICES ASSUME LodInv, [Next]_vars
             PROVE  \A s \in Run : DynDOLOD(s) => Closing(run'[s])
  BY TypeNext DEF LodInv, DynDOLOD
<1>1. /\ run \in [Run -> RunState] /\ TypeOK
      /\ \A s \in Run : DynDOLOD(s) => Closing(run[s])
  BY DEF LodInv, TypeOK
<1>2. ASSUME NEW s \in Run, Start(s) \/ Progress(s) \/ Cancel(s)
      PROVE  \A t \in Run : DynDOLOD(t) => Closing(run'[t])
  <2>1. DynDOLOD(s) => Closing(run'[s])
    BY <1>2, ClosingProgress, ClosingCancel
  <2>2. \A t \in Run \ {s} : run'[t] = run[t]
    BY <1>1, <1>2, RunsStep DEF Others
  <2> QED
    BY <1>1, <2>1, <2>2
<1>3. ASSUME NEW s \in Run, OrphanEnds(s) \/ CopyEnds(s)
      PROVE  \A t \in Run : DynDOLOD(t) => Closing(run'[t])
  <2>1. \A t \in Run : /\ run'[t].pc = run[t].pc /\ run'[t].exc = run[t].exc
                       /\ run'[t].tx = run[t].tx /\ run'[t].known = run[t].known
    BY <1>1, <1>3 DEF OrphanEnds, CopyEnds, Becomes, RunState
  <2> QED
    BY <1>1, <2>1 DEF Closing
<1>4. CASE Tick \/ UNCHANGED vars
  BY <1>1, <1>4 DEF Tick, vars
<1>5. CASE Crash
  <2> SUFFICES ASSUME NEW s \in Run, DynDOLOD(s) PROVE Closing(run'[s])
    OBVIOUS
  <2>1. run'[s] = [run[s] EXCEPT !.pc = IF @ \in Await THEN "dead" ELSE @,
                                 !.copying = FALSE,
                                 !.orphan = @ \/ At(s, "running")]
    BY <1>5 DEF Crash
  <2>2. /\ run'[s].pc \in {run[s].pc, "dead"} /\ run'[s].exc = run[s].exc
        /\ run'[s].tx = run[s].tx /\ run'[s].known = run[s].known
    BY <1>1, <2>1 DEF RunState
  <2> QED
    BY <1>1, <2>2 DEF Closing
<1> QED
  BY <1>2, <1>3, <1>4, <1>5 DEF Next

\* A DynDOLOD run that has ended has committed its transaction or marked it rolled back
\* ("NUNCA dejar TX en PENDING", dyndolod_service.py:369), whatever is cancelled, fails
\* or dies, if the journal answers and no task is cancelled while it inserts the row or
\* marks it.
THEOREM LodNeverPending ==
  ASSUME JournalAnswers
  PROVE  Spec => []NeverPending
<1>1. Init => LodInv
  <2>1. Closing(Fresh)
    BY DEF Closing, Fresh
  <2> QED
    BY <2>1, TypeInit DEF Init, LodInv
<1>2. LodInv /\ [Next]_vars => LodInv'
  BY ClosingNext
<1>3. LodInv => NeverPending
  BY DEF LodInv, Closing, NeverPending, At
<1> QED
  BY <1>1, <1>2, <1>3, PTL DEF Spec
===============================================================================
