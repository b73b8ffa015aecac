---------------------------- MODULE ResourceLocks ----------------------------
(***************************************************************************)
(* DistributedLockManager of db/locks.py.  A session is one use of the     *)
(* manager by a tool service: a call of acquire_lock, the work under the   *)
(* lease and the call of release_lock.  Every session of the process goes  *)
(* through the one aiosqlite connection of the manager, whose worker       *)
(* thread runs statements one at a time; each await is a place where other *)
(* sessions run.  The connection has one implicit transaction: whatever is *)
(* executed on it is in table, and any session's commit makes all of it    *)
(* durable.                                                                *)
(***************************************************************************)
EXTENDS LockTable

CONSTANTS Session, Resource,
          AgentOf,      \* the agent_id each session passes
          TTL,          \* default_ttl
          MaxRetries,   \* max_retries
          DiskFaults,   \* may a commit fail (full disk, I/O error)?
          ForcedRelease,\* does somebody call force_release?
          MaxTime       \* bound on the clock

ASSUME LocksAssumption ==
    /\ Resource # {}
    /\ AgentOf \in [Session -> Agent]
    /\ TTL \in Nat
    /\ MaxRetries \in Nat \ {0}
    /\ DiskFaults \in BOOLEAN
    /\ ForcedRelease \in BOOLEAN
    /\ MaxTime \in Nat

VARIABLES now,        \* time.time()
          table,      \* resource_locks as the connection sees it
          durable,    \* resource_locks as a new connection would see it
          call        \* the session's call and its local variables

vars == <<now, table, durable, call>>

PC == {"idle", "exec", "commit", "backoff", "held", "delete", "delcommit"}

Call == [pc : PC,
         res : Resource,                 \* resource_id
         stamp : 0..MaxTime,             \* the clock reading of this attempt
         attempt : 0..MaxRetries - 1,    \* the loop variable of acquire_lock
         won : BOOLEAN,                  \* rowcount > 0 in this attempt
         cancelled : BOOLEAN]            \* the task was cancelled, its statement was not

NoCall == [pc |-> "idle", res |-> CHOOSE r \in Resource : TRUE, stamp |-> 0,
           attempt |-> 0, won |-> FALSE, cancelled |-> FALSE]

Expiry(s) == call[s].stamp + TTL
MyRow(s) == [agent |-> AgentOf[s], expires |-> Expiry(s)]
MyRes(s) == call[s].res
Held(s) == call[s].pc = "held"
Live(s) == now <= Expiry(s)   \* a reclaim needs expires_at < now

------------------------------------------------------------------------------
Init ==
    /\ now = 0
    /\ table = [r \in Resource |-> NoRow]
    /\ durable = table
    /\ call = [s \in Session |-> NoCall]

\* One pass of the loop reads the clock and queues the statement; no await lies
\* between the two, but the statement runs later.
Queue(s, r, k) ==
    /\ call' = [call EXCEPT ![s] = [pc |-> "exec", res |-> r, stamp |-> now,
                                    attempt |-> k, won |-> FALSE, cancelled |-> FALSE]]
    /\ UNCHANGED <<now, table, durable>>

Acquire(s, r) == call[s].pc = "idle" /\ Queue(s, r, 0)

\* Mutated form: the retry starts counting again.
RetryFromZero(s) == call[s].pc = "backoff" /\ Queue(s, MyRes(s), 0)

Retry(s) == call[s].pc = "backoff" /\ Queue(s, MyRes(s), call[s].attempt + 1)

\* The session's statement is done and it goes on, unless it was cancelled.
GoOn(s, c) == call' = [call EXCEPT ![s] = IF @.cancelled THEN NoCall ELSE c]

\* Mutated form: one sleep too many.
NextAttemptOffByOne(s) ==
    GoOn(s, IF call[s].attempt < MaxRetries THEN [call[s] EXCEPT !.pc = "backoff"] ELSE NoCall)

\* After a failed attempt: sleep, or raise LockAcquisitionError.
NextAttempt(s) ==
    GoOn(s, IF call[s].attempt < MaxRetries - 1 THEN [call[s] EXCEPT !.pc = "backoff"]
                                                ELSE NoCall)

\* Mutated form: the row count of the upsert is not looked at.
ExecAcquireUnchecked(s) ==
    /\ call[s].pc = "exec"
    /\ table' = [table EXCEPT ![MyRes(s)] = Upsert(@, AgentOf[s], call[s].stamp, TTL)]
    /\ GoOn(s, [call[s] EXCEPT !.pc = "commit", !.won = TRUE])
    /\ UNCHANGED <<now, durable>>

ExecAcquire(s) ==
    /\ call[s].pc = "exec"
    /\ table' = [table EXCEPT ![MyRes(s)] = Upsert(@, AgentOf[s], call[s].stamp, TTL)]
    /\ GoOn(s, [call[s] EXCEPT !.pc = "commit",
                               !.won = Claimable(table[MyRes(s)], call[s].stamp)])
    /\ UNCHANGED <<now, durable>>

\* OperationalError (the database file is locked by another program).
ExecAcquireError(s) ==
    /\ call[s].pc = "exec"
    /\ NextAttempt(s)
    /\ UNCHANGED <<now, table, durable>>

\* Mutated form: the commit is forgotten.
CommitAcquireSkipped(s) ==
    /\ call[s].pc = "commit"
    /\ IF call[s].won THEN GoOn(s, [call[s] EXCEPT !.pc = "held"]) ELSE NextAttempt(s)
    /\ UNCHANGED <<now, table, durable>>

CommitAcquire(s) ==
    /\ call[s].pc = "commit"
    /\ durable' = table
    /\ IF call[s].won THEN GoOn(s, [call[s] EXCEPT !.pc = "held"]) ELSE NextAttempt(s)
    /\ UNCHANGED <<now, table>>

\* A COMMIT that fails on the disk rolls the connection's transaction back,
\* whichever sessions' statements are in it.
CommitFails == DiskFaults /\ table' = durable /\ UNCHANGED <<now, durable>>

CommitAcquireError(s) == call[s].pc = "commit" /\ CommitFails /\ NextAttempt(s)

Release(s) ==
    /\ Held(s)
    /\ call' = [call EXCEPT ![s].pc = "delete"]
    /\ UNCHANGED <<now, table, durable>>

ExecDelete(s) ==
    /\ call[s].pc = "delete"
    /\ table' = [table EXCEPT ![MyRes(s)] = Delete(@, AgentOf[s])]
    /\ GoOn(s, [call[s] EXCEPT !.pc = "delcommit"])
    /\ UNCHANGED <<now, durable>>

\* LockReleaseError; _safe_release swallows it and the row stays.
ExecDeleteError(s) ==
    /\ call[s].pc = "delete"
    /\ GoOn(s, NoCall)
    /\ UNCHANGED <<now, table, durable>>

CommitDelete(s) ==
    /\ call[s].pc = "delcommit"
    /\ durable' = table
    /\ GoOn(s, NoCall)
    /\ UNCHANGED <<now, table>>

CommitDeleteError(s) == call[s].pc = "delcommit" /\ CommitFails /\ GoOn(s, NoCall)

\* CancelledError at an await.  A sleeping task ends; one that waits for a
\* statement ends too, but the worker thread still runs the queued statement,
\* and what would have followed it (the commit) is never issued.
Cancel(s) ==
    /\ \/ call[s].pc = "backoff" /\ call' = [call EXCEPT ![s] = NoCall]
       \/ /\ call[s].pc \in {"exec", "commit", "delete", "delcommit"}
          /\ ~call[s].cancelled
          /\ call' = [call EXCEPT ![s].cancelled = TRUE]
    /\ UNCHANGED <<now, table, durable>>

\* force_release and cleanup_expired: one statement and its commit.  Cleanup may
\* run with a clock reading that was taken a while ago.
ForceRelease(r) ==
    /\ ForcedRelease
    /\ table' = [table EXCEPT ![r] = NoRow]
    /\ durable' = table'
    /\ UNCHANGED <<now, call>>

CleanupExpired ==
    /\ \E t \in 0..now : table' = [r \in Resource |-> Purge(table[r], t)]
    /\ durable' = table'
    /\ UNCHANGED <<now, call>>

Tick ==
    /\ now < MaxTime
    /\ now' = now + 1
    /\ UNCHANGED <<table, durable, call>>

\* The process dies, or closes the manager on its way out: what was not
\* committed is gone, and so are the sessions.
Crash ==
    /\ table' = durable
    /\ call' = [s \in Session |-> NoCall]
    /\ UNCHANGED <<now, durable>>

\* Statements the worker thread runs and sleeps that end: they need no decision
\* of the session's owner.
Progress(s) ==
    \/ ExecAcquire(s) \/ ExecAcquireError(s)
    \/ CommitAcquire(s) \/ CommitAcquireError(s)
    \/ ExecDelete(s) \/ ExecDeleteError(s)
    \/ CommitDelete(s) \/ CommitDeleteError(s)
    \/ Retry(s)

Step(s) == (\E r \in Resource : Acquire(s, r)) \/ Release(s) \/ Cancel(s) \/ Progress(s)

Next ==
    \/ \E s \in Session : Step(s)
    \/ \E r \in Resource : ForceRelease(r)
    \/ CleanupExpired
    \/ Tick
    \/ Crash

Spec == Init /\ [][Next]_vars

\* The worker thread and the event loop keep running.
FairSpec == Spec /\ \A s \in Session : WF_vars(Progress(s))

------------------------------------------------------------------------------
\* Type invariant: the shape of the table, of the sessions and of the clock.
TypeOK ==
    /\ now \in 0..MaxTime
    /\ table \in [Resource -> Row]
    /\ durable \in [Resource -> Row]
    /\ call \in [Session -> Call]
    /\ \A s \in Session : call[s].stamp <= now
    /\ \A s \in Session : call[s].pc = "backoff" => call[s].attempt < MaxRetries - 1

\* The assumptions under which the manager keeps sessions apart: no two sessions
\* share an agent_id, no commit fails on the disk, nobody forces a release.
Separated ==
    /\ \A s, t \in Session : AgentOf[s] = AgentOf[t] => s = t
    /\ ~DiskFaults
    /\ ~ForcedRelease

\* A session that has seen its statement take the row, committed or not yet.
Claimed(s) == Held(s) \/ (call[s].pc = "commit" /\ call[s].won)

\* From the statement that took the row on, through the commits and statements
\* of others on the shared connection, and until the lease runs out, the row is
\* the session's own: nobody takes it over, deletes it or purges it.
LeaseIsRow == \A s \in Session : Claimed(s) /\ Live(s) => table[MyRes(s)] = MyRow(s)

\* At most one running lease per resource, "even under concurrent access"
\* (locks.py:15-16): two sessions that both hold the lock of one resource never
\* both have time left on it.
MutualExclusion ==
    \A s, t \in Session :
        s # t /\ Held(s) /\ Held(t) /\ MyRes(s) = MyRes(t) => ~Live(s) \/ ~Live(t)

\* A running lease is on disk, not only in the connection's open transaction: a
\* crash does not hand the resource to the next process before the TTL.
DurableLease == \A s \in Session : Held(s) /\ Live(s) => durable[MyRes(s)] = MyRow(s)

\* Whatever happened to its owner (crash, cancellation, a failed delete), a row
\* keeps the resource from others for one TTL at most: "deadlocks from agent
\* crashes are mitigated by time-based leases" (locks.py:9-10).
LeakBounded ==
    \A r \in Resource : table[r].expires <= now + TTL /\ durable[r].expires <= now + TTL

\* Every call of acquire_lock and release_lock returns or raises: the retry
\* loop is bounded whatever errors and contention it meets.
CallsTerminate ==
    \A s \in Session : call[s].pc \in PC \ {"idle", "held"} ~> call[s].pc \in {"idle", "held"}

\* What the header of locks.py promises: "ensures only one agent can hold a lock
\* at a time, even under concurrent access".
OneAgentAtATime ==
    \A s, t \in Session :
        Held(s) /\ Held(t) /\ MyRes(s) = MyRes(t) /\ Live(s) /\ Live(t) => AgentOf[s] = AgentOf[t]

\* acquire_lock and release_lock are an implementation of leases.
Leases ==
    {[session |-> s, res |-> MyRes(s), expires |-> Expiry(s)] : s \in {t \in Session : Held(t)}}

Abstract == INSTANCE LeaseService WITH Instant <- 0..(MaxTime + TTL), leases <- Leases

ImplementsLeases == Abstract!Spec
==============================================================================
