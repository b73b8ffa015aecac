------------------------- MODULE ResourceLocksProofs -------------------------
(***************************************************************************)
(* Theorems about ResourceLocks, for every number of sessions, resources   *)
(* and agents and every TTL, retry limit and clock bound.                  *)
(***************************************************************************)
EXTENDS ResourceLocks, TLAPS

\* A fresh session is well typed, idle, and remembers nothing.
LEMMA NoCallType ==
  NoCall \in Call /\ NoCall.pc = "idle" /\ NoCall.stamp = 0 /\ NoCall.attempt = 0 /\ ~NoCall.won
  BY LocksAssumption DEF NoCall, Call, PC

\* The SQL statements return rows.
LEMMA RowTypes ==
  /\ NoRow \in Row
  /\ \A row \in Row, a \in Agent, stamp \in 0..MaxTime :
        Upsert(row, a, stamp, TTL) \in Row /\ Delete(row, a) \in Row /\ Purge(row, stamp) \in Row
  BY LocksAssumption DEF Row, NoRow, Upsert, Delete, Purge

\* What TypeOK says of the sessions.
CallOK ==
  /\ call \in [Session -> Call]
  /\ \A s \in Session : call[s].stamp <= now
  /\ \A s \in Session : call[s].pc = "backoff" => call[s].attempt < MaxRetries - 1

\* Replacing one session's variables by well-typed ones.
LEMMA CallReplaced ==
  ASSUME TypeOK, NEW s \in Session, NEW d \in Call, now' = now,
         d.stamp <= now, d.pc = "backoff" => d.attempt < MaxRetries - 1,
         call' = [call EXCEPT ![s] = d]
  PROVE  CallOK'
  BY DEF CallOK, TypeOK

LEMMA GoOnOK ==
  ASSUME TypeOK, NEW s \in Session, NEW c \in Call, now' = now,
         c.stamp <= now, c.pc = "backoff" => c.attempt < MaxRetries - 1,
         GoOn(s, c)
  PROVE  CallOK'
<1>1. now \in Nat
  BY LocksAssumption DEF TypeOK
<1>2. CASE call[s].cancelled
  <2>1. call' = [call EXCEPT ![s] = NoCall]
    BY <1>2 DEF GoOn
  <2>2. NoCall \in Call /\ NoCall.stamp <= now /\ NoCall.pc # "backoff"
    BY <1>1, NoCallType
  <2> QED
    BY <2>1, <2>2, CallReplaced
<1>3. CASE ~call[s].cancelled
  BY <1>3, CallReplaced DEF GoOn
<1> QED
  BY <1>2, <1>3

LEMMA NextAttemptOK ==
  ASSUME TypeOK, NEW s \in Session, now' = now, NextAttempt(s)
  PROVE  CallOK'
<1>1. call[s] \in Call /\ call[s].stamp <= now /\ now \in Nat
  BY LocksAssumption DEF TypeOK
<1>2. CASE call[s].attempt < MaxRetries - 1
  <2> DEFINE d == [call[s] EXCEPT !.pc = "backoff"]
  <2>1. d \in Call /\ d.stamp <= now /\ d.attempt < MaxRetries - 1
    BY <1>1, <1>2 DEF Call, PC
  <2>2. GoOn(s, d)
    BY <1>2 DEF NextAttempt
  <2> HIDE DEF d
  <2> QED
    BY <2>1, <2>2, GoOnOK
<1>3. CASE ~(call[s].attempt < MaxRetries - 1)
  BY <1>1, <1>3, GoOnOK, NoCallType DEF NextAttempt
<1> QED
  BY <1>2, <1>3

LEMMA TypeInit == Init => TypeOK
  BY LocksAssumption, NoCallType, RowTypes DEF Init, TypeOK

LEMMA TypeNext == TypeOK /\ [Next]_vars => TypeOK'
<1> SUFFICES ASSUME TypeOK, [Next]_vars PROVE TypeOK'
  OBVIOUS
<1> DEFINE RowsOK == table \in [Resource -> Row] /\ durable \in [Resource -> Row]
<1>a. RowsOK /\ CallOK /\ now \in 0..MaxTime /\ now \in Nat
  BY LocksAssumption DEF TypeOK, CallOK
<1>b. RowsOK' /\ CallOK' /\ (now \in 0..MaxTime)' => TypeOK'
  BY DEF TypeOK, CallOK
<1>c. \A s \in Session : /\ call[s] \in Call /\ AgentOf[s] \in Agent
                         /\ MyRes(s) \in Resource
                         /\ call[s].stamp \in 0..MaxTime /\ call[s].stamp <= now
                         /\ call[s].attempt \in 0..MaxRetries - 1
  BY LocksAssumption DEF TypeOK, Call, MyRes
<1>d. ASSUME NEW s \in Session, NEW r \in Resource, NEW k \in 0..MaxRetries - 1, Queue(s, r, k)
      PROVE  TypeOK'
  <2> DEFINE d == [pc |-> "exec", res |-> r, stamp |-> now,
                   attempt |-> k, won |-> FALSE, cancelled |-> FALSE]
  <2>1. d \in Call /\ d.stamp <= now /\ d.pc # "backoff"
    BY <1>a DEF Call, PC
  <2>2. call' = [call EXCEPT ![s] = d] /\ now' = now /\ RowsOK'
    BY <1>a, <1>d DEF Queue
  <2> HIDE DEF d
  <2>3. CallOK'
    BY <2>1, <2>2, CallReplaced
  <2> QED
    BY <1>a, <1>b, <2>2, <2>3
<1>1. ASSUME NEW s \in Session, NEW r \in Resource, Acquire(s, r) PROVE TypeOK'
  BY <1>1, <1>d, LocksAssumption DEF Acquire
<1>2. ASSUME NEW s \in Session, Retry(s) PROVE TypeOK'
  <2>1. call[s].attempt + 1 \in 0..MaxRetries - 1
    BY <1>2, <1>a, <1>c, LocksAssumption DEF Retry, CallOK
  <2> QED
    BY <1>2, <1>c, <1>d, <2>1 DEF Retry
<1>3. ASSUME NEW s \in Session, ExecAcquire(s) PROVE TypeOK'
  <2> DEFINE w == Claimable(table[MyRes(s)], call[s].stamp)
             d == [call[s] EXCEPT !.pc = "commit", !.won = w]
  <2>1. w \in BOOLEAN
    BY DEF Claimable
  <2>2. GoOn(s, d) /\ now' = now
    BY <1>3 DEF ExecAcquire
  <2>3. d \in Call /\ d.stamp <= now /\ d.pc # "backoff"
    <3> HIDE DEF w
    <3> QED
      BY <1>c, <2>1 DEF Call, PC
  <2>4. RowsOK'
    BY <1>3, <1>a, <1>c, RowTypes DEF ExecAcquire
  <2> HIDE DEF d
  <2>5. CallOK'
    BY <2>2, <2>3, GoOnOK
  <2> QED
    BY <1>a, <1>b, <2>2, <2>4, <2>5
<1>4. ASSUME NEW s \in Session, ExecAcquireError(s) PROVE TypeOK'
  BY <1>4, <1>a, <1>b, NextAttemptOK DEF ExecAcquireError
<1>5. ASSUME NEW s \in Session, CommitAcquire(s) PROVE TypeOK'
  <2>1. RowsOK' /\ now' = now
    BY <1>5, <1>a DEF CommitAcquire
  <2>2. CASE call[s].won
    <3> DEFINE d == [call[s] EXCEPT !.pc = "held"]
    <3>1. d \in Call /\ d.stamp <= now /\ d.pc # "backoff"
      BY <1>c DEF Call, PC
    <3>2. GoOn(s, d)
      BY <1>5, <2>2 DEF CommitAcquire
    <3> HIDE DEF d
    <3>3. CallOK'
      BY <2>1, <3>1, <3>2, GoOnOK
    <3> QED
      BY <1>a, <1>b, <2>1, <3>3
  <2>3. CASE ~call[s].won
    BY <1>5, <1>a, <1>b, <2>1, <2>3, NextAttemptOK DEF CommitAcquire
  <2> QED
    BY <2>2, <2>3
<1>6. ASSUME NEW s \in Session, CommitAcquireError(s) PROVE TypeOK'
  BY <1>6, <1>a, <1>b, NextAttemptOK DEF CommitAcquireError, CommitFails
<1>7. ASSUME NEW s \in Session, Release(s) PROVE TypeOK'
  <2> DEFINE d == [call[s] EXCEPT !.pc = "delete"]
  <2>1. d \in Call /\ d.stamp <= now /\ d.pc # "backoff"
    BY <1>c DEF Call, PC
  <2>2. call' = [call EXCEPT ![s] = d] /\ now' = now /\ RowsOK'
    BY <1>7, <1>a DEF Release
  <2> HIDE DEF d
  <2> QED
    BY <1>a, <1>b, <2>1, <2>2, CallReplaced
<1>8. ASSUME NEW s \in Session, ExecDelete(s) PROVE TypeOK'
  <2> DEFINE d == [call[s] EXCEPT !.pc = "delcommit"]
  <2>1. d \in Call /\ d.stamp <= now /\ d.pc # "backoff"
    BY <1>c DEF Call, PC
  <2>2. GoOn(s, d) /\ now' = now
    BY <1>8 DEF ExecDelete
  <2>3. RowsOK'
    BY <1>8, <1>a, <1>c, RowTypes DEF ExecDelete
  <2> HIDE DEF d
  <2> QED
    BY <1>a, <1>b, <2>1, <2>2, <2>3, GoOnOK
<1>9. ASSUME NEW s \in Session, ExecDeleteError(s) PROVE TypeOK'
  BY <1>9, <1>a, <1>b, GoOnOK, NoCallType DEF ExecDeleteError
<1>10. ASSUME NEW s \in Session, CommitDelete(s) PROVE TypeOK'
  BY <1>10, <1>a, <1>b, GoOnOK, NoCallType DEF CommitDelete
<1>11. ASSUME NEW s \in Session, CommitDeleteError(s) PROVE TypeOK'
  BY <1>11, <1>a, <1>b, GoOnOK, NoCallType DEF CommitDeleteError, CommitFails
<1>12. ASSUME NEW s \in Session, Cancel(s) PROVE TypeOK'
  <2>1. RowsOK' /\ now' = now
    BY <1>12, <1>a DEF Cancel
  <2>2. CASE call' = [call EXCEPT ![s] = NoCall]
    <3>1. NoCall \in Call /\ NoCall.stamp <= now /\ NoCall.pc # "backoff"
      BY <1>a, NoCallType
    <3> QED
      BY <1>a, <1>b, <2>1, <2>2, <3>1, CallReplaced
  <2>3. CASE call[s].pc # "backoff" /\ call' = [call EXCEPT ![s].cancelled = TRUE]
    <3> DEFINE d == [call[s] EXCEPT !.cancelled = TRUE]
    <3>1. d \in Call /\ d.stamp <= now /\ d.pc # "backoff"
      BY <1>c, <2>3 DEF Call
    <3>2. call' = [call EXCEPT ![s] = d]
      BY <2>3
    <3> HIDE DEF d
    <3> QED
      BY <1>a, <1>b, <2>1, <3>1, <3>2, CallReplaced
  <2> QED
    BY <1>12, <2>2, <2>3 DEF Cancel
<1>13. ASSUME NEW r \in Resource, ForceRelease(r) PROVE TypeOK'
  BY <1>13, <1>a, <1>b, RowTypes DEF ForceRelease, CallOK
<1>14. CASE CleanupExpired
  <2>1. PICK t \in 0..now : table' = [r \in Resource |-> Purge(table[r], t)]
    BY <1>14 DEF CleanupExpired
  <2>2. RowsOK'
    BY <1>14, <2>1, <1>a, RowTypes DEF CleanupExpired, Purge
  <2> QED
    BY <1>14, <1>a, <1>b, <2>2 DEF CleanupExpired, CallOK
<1>15. CASE Tick
  <2>1. CallOK'
    BY <1>15, <1>a, <1>c DEF Tick, CallOK, Call
  <2> QED
    BY <1>15, <1>a, <1>b, <2>1, LocksAssumption DEF Tick
<1>16. CASE Crash
  BY <1>16, <1>a, <1>b, NoCallType DEF Crash, CallOK
<1>17. CASE UNCHANGED vars
  BY <1>17 DEF vars, TypeOK
<1> QED
  BY <1>1, <1>2, <1>3, <1>4, <1>5, <1>6, <1>7, <1>8, <1>9, <1>10, <1>11, <1>12,
     <1>13, <1>14, <1>15, <1>16, <1>17 DEF Next, Step, Progress

\* Type correctness of the lock manager: its table, its durable copy and the
\* sessions' local variables keep their shapes, and no stamp is in the future.
THEOREM TypeCorrect == Spec => []TypeOK
  BY TypeInit, TypeNext, PTL DEF Spec

------------------------------------------------------------------------------
\* Nobody else's statement touches the row of a running lease.
LEMMA OthersLeaveRow ==
  ASSUME TypeOK, Separated, NEW s \in Session, Live(s), table[MyRes(s)] = MyRow(s)
  PROVE  /\ \A t \in Session : s # t =>
              /\ Upsert(table[MyRes(s)], AgentOf[t], call[t].stamp, TTL) = table[MyRes(s)]
              /\ Delete(table[MyRes(s)], AgentOf[t]) = table[MyRes(s)]
         /\ \A u \in 0..now : Purge(table[MyRes(s)], u) = table[MyRes(s)]
<1>1. AgentOf[s] # NoAgent /\ \A t \in Session : s # t => AgentOf[s] # AgentOf[t]
  BY LocksAssumption, AgentAssumption DEF Separated
<1>2. now <= Expiry(s) /\ \A t \in Session : call[t].stamp <= now
  BY DEF TypeOK, Live
<1>3. call[s].stamp \in Int /\ now \in Int /\ TTL \in Int /\ \A t \in Session : call[t].stamp \in Int
  BY LocksAssumption DEF TypeOK, Call
<1>4. Expiry(s) \in Int
  BY <1>3 DEF Expiry
<1>5. table[MyRes(s)].agent = AgentOf[s] /\ table[MyRes(s)].expires = Expiry(s)
  BY DEF MyRow
<1>6. table[MyRes(s)] # NoRow
  BY <1>1, <1>5 DEF NoRow
<1>7. \A t \in Session : ~Claimable(table[MyRes(s)], call[t].stamp)
  BY <1>2, <1>3, <1>4, <1>5, <1>6 DEF Claimable
<1>8. \A u \in 0..now : ~(table[MyRes(s)].expires < u)
  BY <1>2, <1>3, <1>4, <1>5
<1> QED
  BY <1>1, <1>5, <1>7, <1>8 DEF Upsert, Delete, Purge

\* The invariant behind mutual exclusion: every running lease, acknowledged or
\* about to be, is the row of its resource, and an acknowledged one is on disk.
LockInv == TypeOK /\ LeaseIsRow /\ DurableLease

\* What a session that claims its row after a step did in that step: it kept its
\* claim and its variables, or its statement has just taken the row.
LEMMA ClaimStep ==
  ASSUME TypeOK, NEW s \in Session, NEW t \in Session, Step(t), Claimed(s)'
  PROVE  \/ /\ s # t /\ call'[s] = call[s]
         \/ /\ s = t /\ Claimed(s) /\ table' = table /\ (Held(s)' => durable' = table)
            /\ MyRes(s)' = MyRes(s) /\ Expiry(s)' = Expiry(s)
         \/ /\ s = t /\ ExecAcquire(t) /\ ~Held(s)'
            /\ Claimable(table[MyRes(s)], call[s].stamp)
            /\ MyRes(s)' = MyRes(s) /\ Expiry(s)' = Expiry(s)
<1> USE DEF Claimed, Held, MyRes, Expiry
<1>1. call \in [Session -> Call]
  BY DEF TypeOK
<1>2. CASE s # t
  <2>1. call'[s] = call[s]
    BY <1>1, <1>2 DEF Step, Progress, Acquire, Release, Cancel, ExecAcquire, ExecAcquireError,
       CommitAcquire, CommitAcquireError, ExecDelete, ExecDeleteError, CommitDelete,
       CommitDeleteError, Retry, Queue, GoOn, NextAttempt
  <2> QED
    BY <1>2, <2>1
<1>3. CASE s = t
  <2>1. ASSUME NEW r \in Resource, NEW k, Queue(t, r, k) PROVE FALSE
    BY <1>1, <1>3, <2>1 DEF Queue
  <2>2. ~(\E r \in Resource : Acquire(t, r)) /\ ~Retry(t)
    <3>1. MyRes(t) \in Resource
      BY DEF TypeOK, Call
    <3>2. ~Retry(t)
      BY <2>1, <3>1 DEF Retry
    <3>3. ~(\E r \in Resource : Acquire(t, r))
      BY <2>1 DEF Acquire
    <3> QED
      BY <3>2, <3>3
  <2>3. ~NextAttempt(t) /\ ~GoOn(t, NoCall)
    BY <1>1, <1>3, NoCallType DEF NextAttempt, GoOn, Call
  <2>4. CASE Release(t)
    BY <1>1, <1>3, <2>4 DEF Release, Call
  <2>5. CASE Cancel(t)
    BY <1>1, <1>3, <2>5, NoCallType DEF Cancel, Call
  <2>6. CASE ExecAcquire(t)
    BY <1>1, <1>3, <2>6, NoCallType DEF ExecAcquire, GoOn, Call
  <2>7. CASE CommitAcquire(t)
    BY <1>1, <1>3, <2>3, <2>7, NoCallType DEF CommitAcquire, GoOn, Call
  <2>8. CASE ExecDelete(t)
    BY <1>1, <1>3, <2>8, NoCallType DEF ExecDelete, GoOn, Call
  <2> QED
    BY <2>2, <2>3, <2>4, <2>5, <2>6, <2>7, <2>8 DEF Step, Progress, ExecAcquireError,
       CommitAcquireError, ExecDeleteError, CommitDelete, CommitDeleteError
<1> QED
  BY <1>2, <1>3

LEMMA LockInit == Init => LockInv
<1> SUFFICES ASSUME Init PROVE LockInv
  OBVIOUS
<1>1. \A s \in Session : ~Held(s) /\ ~Claimed(s)
  BY NoCallType DEF Init, Held, Claimed
<1> QED
  BY <1>1, TypeInit DEF LockInv, LeaseIsRow, DurableLease

LEMMA LockNext ==
  ASSUME LockInv, Separated, [Next]_vars
  PROVE  LockInv'
<1> USE DEF LockInv
<1>1. TypeOK'
  BY TypeNext
<1>0. \A x \in Session : Held(x)' => Claimed(x)'
  BY DEF Claimed
<1>2. SUFFICES ASSUME NEW s \in Session, Claimed(s)', Live(s)'
               PROVE  /\ (table[MyRes(s)] = MyRow(s))'
                      /\ Held(s)' => (durable[MyRes(s)] = MyRow(s))'
  BY <1>0, <1>1 DEF LeaseIsRow, DurableLease
<1>a. now \in Int /\ call[s].stamp \in Int /\ TTL \in Int /\ call \in [Session -> Call]
  BY LocksAssumption DEF TypeOK, Call
<1>b. Claimed(s) /\ Live(s) =>
        /\ table[MyRes(s)] = MyRow(s)
        /\ Held(s) => durable[MyRes(s)] = MyRow(s)
  BY DEF LeaseIsRow, DurableLease
<1>3. ASSUME NEW t \in Session, Step(t)
      PROVE  /\ (table[MyRes(s)] = MyRow(s))'
             /\ Held(s)' => (durable[MyRes(s)] = MyRow(s))'
  <2>1. now' = now
    BY <1>3 DEF Step, Progress, Acquire, Release, Cancel, ExecAcquire, ExecAcquireError,
       CommitAcquire, CommitAcquireError, ExecDelete, ExecDeleteError, CommitDelete,
       CommitDeleteError, Retry, Queue, CommitFails
  <2>2. CASE s # t /\ call'[s] = call[s]
    <3>1. /\ MyRes(s)' = MyRes(s) /\ MyRow(s)' = MyRow(s) /\ Claimed(s) /\ Live(s)
          /\ Held(s)' = Held(s)
      BY <1>2, <2>1, <2>2 DEF MyRes, MyRow, Expiry, Claimed, Held, Live
    <3>2. table[MyRes(s)] = MyRow(s) /\ (Held(s) => durable[MyRes(s)] = MyRow(s))
      BY <1>b, <3>1
    <3>3. /\ Upsert(table[MyRes(s)], AgentOf[t], call[t].stamp, TTL) = table[MyRes(s)]
          /\ Delete(table[MyRes(s)], AgentOf[t]) = table[MyRes(s)]
      BY <2>2, <3>1, <3>2, OthersLeaveRow
    <3>4. table \in [Resource -> Row]
      BY DEF TypeOK
    <3>5. MyRes(s) \in Resource /\ MyRes(t) \in Resource
      BY DEF TypeOK, Call, MyRes
    <3>6. CASE ExecAcquire(t) \/ ExecDelete(t)
      <4>1. table'[MyRes(s)] = table[MyRes(s)]
        <5>1. CASE MyRes(t) = MyRes(s)
          BY <3>3, <3>4, <3>5, <3>6, <5>1 DEF ExecAcquire, ExecDelete
        <5>2. CASE MyRes(t) # MyRes(s)
          BY <3>4, <3>5, <3>6, <5>2 DEF ExecAcquire, ExecDelete
        <5> QED
          BY <5>1, <5>2
      <4> QED
        BY <3>1, <3>2, <3>6, <4>1 DEF ExecAcquire, ExecDelete
    <3>7. CASE UNCHANGED table /\ (durable' = durable \/ durable' = table)
      BY <3>1, <3>2, <3>7
    <3>8. ~CommitFails
      BY DEF CommitFails, Separated
    <3> QED
      BY <1>3, <3>6, <3>7, <3>8 DEF Step, Progress, Acquire, Release, Cancel,
         ExecAcquireError, CommitAcquire, CommitAcquireError, ExecDeleteError,
         CommitDelete, CommitDeleteError, Retry, Queue
  <2>3. CASE /\ s = t /\ Claimed(s) /\ table' = table /\ (Held(s)' => durable' = table)
             /\ MyRes(s)' = MyRes(s) /\ Expiry(s)' = Expiry(s)
    BY <1>2, <1>b, <2>1, <2>3 DEF Live, MyRow
  <2>4. CASE /\ s = t /\ ExecAcquire(t) /\ ~Held(s)'
             /\ Claimable(table[MyRes(s)], call[s].stamp)
             /\ MyRes(s)' = MyRes(s) /\ Expiry(s)' = Expiry(s)
    <3>1. table \in [Resource -> Row] /\ MyRes(s) \in Resource
      BY DEF TypeOK, Call, MyRes
    <3>2. table'[MyRes(s)] = MyRow(s)
      BY <2>4, <3>1 DEF ExecAcquire, Upsert, MyRow, Expiry
    <3> QED
      BY <2>4, <3>2 DEF MyRow
  <2> QED
    BY <1>2, <1>3, <2>2, <2>3, <2>4, ClaimStep
<1>4. ASSUME NEW r \in Resource, ForceRelease(r) PROVE FALSE
  BY <1>4 DEF ForceRelease, Separated
<1>5. ASSUME UNCHANGED call, now <= now', now' \in Int
      PROVE  /\ Claimed(s) /\ Live(s) /\ (Held(s)' => Held(s))
             /\ MyRes(s)' = MyRes(s) /\ MyRow(s)' = MyRow(s)
  BY <1>2, <1>5, <1>a DEF Claimed, Held, Live, MyRes, MyRow, Expiry
<1>6. CASE CleanupExpired
  <2>1. PICK u \in 0..now : table' = [r \in Resource |-> Purge(table[r], u)]
    BY <1>6 DEF CleanupExpired
  <2>2. /\ Claimed(s) /\ Live(s) /\ (Held(s)' => Held(s))
        /\ MyRes(s)' = MyRes(s) /\ MyRow(s)' = MyRow(s)
    BY <1>5, <1>6, <1>a DEF CleanupExpired
  <2>3. MyRes(s) \in Resource
    BY DEF TypeOK, Call, MyRes
  <2>4. table'[MyRes(s)] = table[MyRes(s)]
    BY <1>b, <2>1, <2>2, <2>3, OthersLeaveRow
  <2> QED
    BY <1>6, <1>b, <2>2, <2>4 DEF CleanupExpired
<1>7. CASE Tick
  <2>1. /\ Claimed(s) /\ Live(s) /\ (Held(s)' => Held(s))
        /\ MyRes(s)' = MyRes(s) /\ MyRow(s)' = MyRow(s)
    BY <1>5, <1>7, <1>a DEF Tick
  <2> QED
    BY <1>7, <1>b, <2>1 DEF Tick
<1>8. CASE Crash
  BY <1>2, <1>8, NoCallType DEF Crash, Claimed, Held
<1>9. CASE UNCHANGED vars
  <2>1. /\ Claimed(s) /\ Live(s) /\ (Held(s)' => Held(s))
        /\ MyRes(s)' = MyRes(s) /\ MyRow(s)' = MyRow(s)
    BY <1>5, <1>9, <1>a DEF vars
  <2> QED
    BY <1>9, <1>b, <2>1 DEF vars
<1> QED
  BY <1>3, <1>4, <1>6, <1>7, <1>8, <1>9 DEF Next

\* In an inductive state two running leases of one resource would be one row,
\* hence one agent, hence one session.
LEMMA LockInvExcludes == LockInv /\ Separated => MutualExclusion
<1> SUFFICES ASSUME LockInv, Separated, NEW s \in Session, NEW t \in Session, s # t,
                    Held(s), Held(t), MyRes(s) = MyRes(t), Live(s), Live(t)
             PROVE  FALSE
  BY DEF MutualExclusion
<1>1. MyRow(s) = MyRow(t)
  BY DEF LockInv, LeaseIsRow, Claimed
<1>2. AgentOf[s] = AgentOf[t]
  BY <1>1 DEF MyRow
<1> QED
  BY <1>2 DEF Separated

\* Mutual exclusion: when no two sessions use one agent_id, no commit fails and
\* nobody forces a release, two sessions never both have time left on the lock
\* of one resource, whatever is cancelled, expires or crashes.
THEOREM Exclusion == ASSUME Separated PROVE Spec => []MutualExclusion
<1>1. LockInv /\ [Next]_vars => LockInv'
  BY LockNext
<1>2. LockInv => MutualExclusion
  BY LockInvExcludes
<1> QED
  BY <1>1, <1>2, LockInit, PTL DEF Spec

\* The row of a running lease stays the session's own, in the connection ...
THEOREM LeaseKept == ASSUME Separated PROVE Spec => []LeaseIsRow
<1>1. LockInv /\ [Next]_vars => LockInv'
  BY LockNext
<1>2. LockInv => LeaseIsRow
  BY DEF LockInv
<1> QED
  BY <1>1, <1>2, LockInit, PTL DEF Spec

\* ... and on disk: an acknowledged lease survives a crash.
THEOREM LeaseDurable == ASSUME Separated PROVE Spec => []DurableLease
<1>1. LockInv /\ [Next]_vars => LockInv'
  BY LockNext
<1>2. LockInv => DurableLease
  BY DEF LockInv
<1> QED
  BY <1>1, <1>2, LockInit, PTL DEF Spec

------------------------------------------------------------------------------
\* The lease of one session, as the abstract specification sees it.
LeaseOf(s) == [session |-> s, res |-> MyRes(s), expires |-> Expiry(s)]

LEMMA LeasesAre == Leases = {LeaseOf(s) : s \in {t \in Session : Held(t)}}
  BY DEF Leases, LeaseOf

\* A step that makes no session a holder only drops leases.
LEMMA OnlyDrops ==
  ASSUME now' = now,
         \A s \in Session : Held(s)' => Held(s) /\ LeaseOf(s)' = LeaseOf(s)
  PROVE  Abstract!Drop
<1>1. Leases' = {LeaseOf(s)' : s \in {t \in Session : Held(t)'}}
  BY DEF Leases, LeaseOf
<1>2. Leases' \subseteq Leases
  BY <1>1, LeasesAre
<1> QED
  BY <1>2 DEF Abstract!Drop

\* The commit that makes a session a holder is a grant: no other session holds a
\* running lease on that resource.
LEMMA CommitGrants ==
  ASSUME LockInv, LockInv', Separated, NEW t \in Session, now' = now,
         Claimed(t), ~Held(t), Held(t)', LeaseOf(t)' = LeaseOf(t),
         \A s \in Session \ {t} : Held(s)' = Held(s) /\ LeaseOf(s)' = LeaseOf(s)
  PROVE  Abstract!Grant(LeaseOf(t))
<1>1. Leases' = {LeaseOf(s)' : s \in {u \in Session : Held(u)'}}
  BY DEF Leases, LeaseOf
<1>2. Leases' = Leases \cup {LeaseOf(t)}
  BY <1>1, LeasesAre
<1>3. \A m \in Leases : m.session # LeaseOf(t).session
  BY LeasesAre DEF LeaseOf
<1>4. ASSUME LeaseOf(t).expires >= now, NEW m \in Leases, m.res = LeaseOf(t).res
      PROVE  m.expires < now
  <2>1. PICK s \in Session : Held(s) /\ m = LeaseOf(s)
    BY <1>4, LeasesAre
  <2>2. s # t /\ MyRes(s) = MyRes(t) /\ m.expires = Expiry(s) /\ LeaseOf(t).expires = Expiry(t)
    BY <1>4, <2>1 DEF LeaseOf
  <2>3. now \in Int /\ Expiry(s) \in Int /\ Expiry(t) \in Int
    BY LocksAssumption DEF LockInv, TypeOK, Call, Expiry
  <2>4. Live(t)
    BY <1>4, <2>2, <2>3 DEF Live
  <2>5. CASE Live(s)
    <3>1. MyRow(s) = MyRow(t)
      BY <2>1, <2>2, <2>4, <2>5 DEF LockInv, LeaseIsRow, Claimed
    <3> QED
      BY <2>2, <3>1 DEF MyRow, Separated
  <2>6. CASE ~Live(s)
    BY <2>2, <2>3, <2>6 DEF Live
  <2> QED
    BY <2>5, <2>6
<1> QED
  BY <1>2, <1>3, <1>4 DEF Abstract!Grant

LEMMA LeaseStep ==
  ASSUME LockInv, LockInv', Separated, [Next]_vars
  PROVE  [Abstract!Next]_(Abstract!vars)
<1> USE DEF LockInv
<1>1. now \in Int /\ now \in 0..MaxTime /\ now' \in 0..MaxTime /\ MaxTime \in Int /\ TTL \in Nat
  BY LocksAssumption DEF TypeOK
<1>2. \A s \in Session : LeaseOf(s) \in Abstract!Lease
  <2> TAKE s \in Session
  <2>1. MyRes(s) \in Resource /\ call[s].stamp \in 0..MaxTime
    BY DEF TypeOK, Call, MyRes
  <2>2. Expiry(s) \in 0..(MaxTime + TTL)
    BY <1>1, <2>1 DEF Expiry
  <2> QED
    BY <2>1, <2>2 DEF LeaseOf, Abstract!Lease
<1>3. ASSUME NEW t \in Session, Step(t) PROVE Abstract!Next
  <2>1. now' = now
    BY <1>3 DEF Step, Progress, Acquire, Release, Cancel, ExecAcquire, ExecAcquireError,
       CommitAcquire, CommitAcquireError, ExecDelete, ExecDeleteError, CommitDelete,
       CommitDeleteError, Retry, Queue, CommitFails
  <2>2. \A s \in Session : s # t => Held(s)' = Held(s) /\ LeaseOf(s)' = LeaseOf(s)
    <3>1. \A s \in Session : s # t => call'[s] = call[s]
      BY <1>3 DEF TypeOK, Step, Progress, Acquire, Release, Cancel, ExecAcquire,
         ExecAcquireError, CommitAcquire, CommitAcquireError, ExecDelete, ExecDeleteError,
         CommitDelete, CommitDeleteError, Retry, Queue, GoOn, NextAttempt
    <3> QED
      BY <3>1 DEF Held, LeaseOf, MyRes, Expiry
  <2>3. Held(t)' => Claimed(t) /\ LeaseOf(t)' = LeaseOf(t)
    <3>1. Held(t)' => Claimed(t)'
      BY DEF Claimed
    <3> QED
      BY <1>3, <3>1, ClaimStep DEF LeaseOf
  <2>4. CASE Held(t)' => Held(t)
    BY <2>1, <2>2, <2>3, <2>4, OnlyDrops DEF Abstract!Next
  <2>5. CASE Held(t)' /\ ~Held(t)
    <3>1. Abstract!Grant(LeaseOf(t))
      BY <2>1, <2>2, <2>3, <2>5, CommitGrants
    <3> QED
      BY <1>2, <3>1 DEF Abstract!Next
  <2> QED
    BY <2>4, <2>5
<1>4. ASSUME UNCHANGED call PROVE Leases' = Leases
  BY <1>4 DEF Leases, Held, MyRes, Expiry
<1>5. ASSUME NEW r \in Resource, ForceRelease(r) PROVE FALSE
  BY <1>5 DEF ForceRelease, Separated
<1>6. CASE CleanupExpired \/ UNCHANGED vars
  BY <1>4, <1>6 DEF CleanupExpired, vars, Abstract!vars
<1>7. CASE Tick
  <2>1. now' \in 0..(MaxTime + TTL) /\ now' >= now
    BY <1>1, <1>7 DEF Tick
  <2> QED
    BY <1>4, <1>7, <2>1 DEF Tick, Abstract!Next, Abstract!Advance
<1>8. CASE Crash
  BY <1>8, OnlyDrops, NoCallType DEF Crash, Held, Abstract!Next
<1> QED
  BY <1>3, <1>5, <1>6, <1>7, <1>8 DEF Next

\* The lock manager implements leases: under the assumptions of Exclusion, every
\* behaviour of the table, the shared connection and the sessions is a behaviour
\* of LeaseService.
THEOREM Refinement == ASSUME Separated PROVE Spec => ImplementsLeases
<1>1. Init => Abstract!Init
  <2> SUFFICES ASSUME Init PROVE Abstract!Init
    OBVIOUS
  <2>1. now \in 0..(MaxTime + TTL)
    BY LocksAssumption DEF Init
  <2>2. Leases = {}
    BY NoCallType DEF Init, Leases, Held
  <2> QED
    BY <2>1, <2>2 DEF Abstract!Init
<1>2. LockInv /\ [Next]_vars => LockInv'
  BY LockNext
<1>3. LockInv /\ LockInv' /\ [Next]_vars => [Abstract!Next]_(Abstract!vars)
  BY LeaseStep
<1> QED
  BY <1>1, <1>2, <1>3, LockInit, PTL DEF Spec, ImplementsLeases, Abstract!Spec

------------------------------------------------------------------------------
\* A row that some session abandoned is claimable by everybody one TTL later:
\* this needs none of the assumptions of Exclusion.
THEOREM LeakIsBounded == Spec => []LeakBounded
<1>1. Init => LeakBounded
  BY LocksAssumption DEF Init, LeakBounded, NoRow
<1>2. TypeOK /\ LeakBounded /\ [Next]_vars => LeakBounded'
  <2> SUFFICES ASSUME TypeOK, LeakBounded, [Next]_vars PROVE LeakBounded'
    OBVIOUS
  <2> DEFINE Bounded(row) == row.expires <= now + TTL
  <2>1. /\ now \in Nat /\ now' \in Nat /\ TTL \in Nat
        /\ table \in [Resource -> Row] /\ durable \in [Resource -> Row]
    BY TypeNext, LocksAssumption DEF TypeOK
  <2>2. now' >= now
    <3>1. ASSUME NEW t \in Session, Step(t) PROVE now' = now
      BY <3>1 DEF Step, Progress, Acquire, Release, Cancel, ExecAcquire, ExecAcquireError,
         CommitAcquire, CommitAcquireError, ExecDelete, ExecDeleteError, CommitDelete,
         CommitDeleteError, Retry, Queue, CommitFails
    <3>2. CASE (\E r \in Resource : ForceRelease(r)) \/ CleanupExpired \/ Crash \/ UNCHANGED vars
      BY <2>1, <3>2 DEF ForceRelease, CleanupExpired, Crash, vars
    <3>3. CASE Tick
      BY <2>1, <3>3 DEF Tick
    <3> QED
      BY <2>1, <3>1, <3>2, <3>3 DEF Next
  <2>3. \A r \in Resource : Bounded(table[r]) /\ Bounded(durable[r])
    BY DEF LeakBounded
  <2>4. ASSUME \A r \in Resource : /\ Bounded(table'[r])
                                   /\ Bounded(durable'[r])
        PROVE  LeakBounded'
    <3>1. \A r \in Resource : table'[r].expires \in Int /\ durable'[r].expires \in Int
      BY TypeNext DEF TypeOK, Row
    <3> QED
      BY <2>1, <2>2, <2>4, <3>1 DEF LeakBounded
  <2>5. ASSUME NEW t \in Session, Step(t) PROVE LeakBounded'
    <3>1. /\ MyRes(t) \in Resource /\ call[t].stamp \in Nat /\ call[t].stamp <= now
      BY DEF TypeOK, Call, MyRes
    <3>2. /\ Bounded(Upsert(table[MyRes(t)], AgentOf[t], call[t].stamp, TTL))
          /\ Bounded(Delete(table[MyRes(t)], AgentOf[t]))
      BY <2>1, <2>3, <3>1 DEF Upsert, Delete, NoRow
    <3>3. CASE ExecAcquire(t)
      BY <2>1, <2>3, <2>4, <3>1, <3>2, <3>3 DEF ExecAcquire
    <3>4. CASE ExecDelete(t)
      BY <2>1, <2>3, <2>4, <3>1, <3>2, <3>4 DEF ExecDelete
    <3>5. CASE (table' = table \/ table' = durable) /\ (durable' = durable \/ durable' = table)
      BY <2>3, <2>4, <3>5
    <3> QED
      BY <2>5, <3>3, <3>4, <3>5 DEF Step, Progress, Acquire, Release, Cancel, ExecAcquireError,
         CommitAcquire, CommitAcquireError, ExecDeleteError, CommitDelete,
         CommitDeleteError, Retry, Queue, CommitFails
  <2>6. ASSUME NEW r \in Resource, ForceRelease(r) PROVE LeakBounded'
    BY <2>1, <2>3, <2>4, <2>6 DEF ForceRelease, NoRow
  <2>7. CASE CleanupExpired
    <3>1. PICK u \in 0..now : table' = [r \in Resource |-> Purge(table[r], u)]
      BY <2>7 DEF CleanupExpired
    <3>2. \A r \in Resource : Bounded(table'[r])
      BY <2>1, <2>3, <3>1 DEF Purge, NoRow
    <3> QED
      BY <2>4, <2>7, <3>2 DEF CleanupExpired
  <2>8. CASE Tick \/ Crash \/ UNCHANGED vars
    BY <2>3, <2>4, <2>8 DEF Tick, Crash, vars
  <2> QED
    BY <2>5, <2>6, <2>7, <2>8 DEF Next
<1> QED
  BY <1>1, <1>2, TypeInit, TypeNext, PTL DEF Spec
==============================================================================
