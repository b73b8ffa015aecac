---------------------------- MODULE LeaseService ----------------------------
(***************************************************************************)
(* What a lock manager with time-based leases promises, whatever its       *)
(* storage: a lease is granted on a resource only if every other lease on  *)
(* it has run out, leases disappear one by one or all at once, and the     *)
(* clock does not run backwards.                                           *)
(***************************************************************************)
EXTENDS Integers

CONSTANTS Session, Resource,
          Instant   \* the clock readings and expiry instants considered: integers

VARIABLES now,      \* the clock
          leases    \* the set of leases that callers have been granted

vars == <<now, leases>>

Lease == [session : Session, res : Resource, expires : Instant]

Init == now \in Instant /\ leases = {}

\* A lease that is still good when it is granted excludes every other one; a
\* grant so slow that the lease has already run out excludes nothing.
Grant(l) ==
    /\ \A m \in leases : m.session # l.session
    /\ l.expires >= now => \A m \in leases : m.res = l.res => m.expires < now
    /\ leases' = leases \cup {l}
    /\ UNCHANGED now

\* Holders give leases up, or die with them.
Drop == \E rest \in SUBSET leases : leases' = rest /\ UNCHANGED now

Advance == \E t \in Instant : t >= now /\ now' = t /\ UNCHANGED leases

Next == (\E l \in Lease : Grant(l)) \/ Drop \/ Advance

Spec == Init /\ [][Next]_vars
==============================================================================
