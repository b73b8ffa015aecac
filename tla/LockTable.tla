------------------------------ MODULE LockTable ------------------------------
(***************************************************************************)
(* The SQL statements that db/locks.py runs on the resource_locks table,   *)
(* as operators on one row.  resource_id is the primary key, so a table is *)
(* a function from resources to rows and NoRow is an absent one.  The      *)
(* acquired_at column is left out: it is expires_at minus the TTL and only *)
(* get_lock_info shows it.                                                 *)
(***************************************************************************)
EXTENDS Integers

CONSTANTS Agent,    \* the agent_id strings in use
          NoAgent   \* marks an absent row

ASSUME AgentAssumption == NoAgent \notin Agent

Row == [agent : Agent \cup {NoAgent}, expires : Int]
NoRow == [agent |-> NoAgent, expires |-> 0]

\* Mutated form: the comparison is not strict.
ClaimableAtExpiry(row, stamp) == row = NoRow \/ row.expires <= stamp

\* ON CONFLICT ... DO UPDATE ... WHERE expires_at < excluded.acquired_at: the
\* comparison is strict and uses the stamp the caller read before the statement.
Claimable(row, stamp) == row = NoRow \/ row.expires < stamp

\* Mutated form: the owner's next acquire extends its lease.
UpsertExtends(row, a, stamp, ttl) ==
    IF Claimable(row, stamp) THEN [agent |-> a, expires |-> stamp + ttl]
    ELSE IF row.agent = a THEN [row EXCEPT !.expires = @ + ttl] ELSE row

\* _ACQUIRE_SQL: insert, or take over an expired row, or leave it alone.
Upsert(row, a, stamp, ttl) ==
    IF Claimable(row, stamp) THEN [agent |-> a, expires |-> stamp + ttl] ELSE row

\* Mutated form: the owner is not in the condition.
DeleteAnyOwner(row, a) == NoRow

\* _RELEASE_SQL: WHERE resource_id = ? AND agent_id = ?; the lease's own
\* acquired_at is not part of the condition.
Delete(row, a) == IF row.agent = a THEN NoRow ELSE row

\* cleanup_expired on one row.
Purge(row, stamp) == IF row.expires < stamp THEN NoRow ELSE row
==============================================================================
