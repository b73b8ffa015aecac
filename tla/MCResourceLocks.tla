--------------------------- MODULE MCResourceLocks ---------------------------
EXTENDS ResourceLocks

CONSTANTS s1, s2, s3, synthesis, dyndolod, xedit

\* One agent_id per session: what mutual exclusion needs.
OwnAgents ==
    [s \in Session |-> CASE s = s1 -> synthesis [] s = s2 -> dyndolod [] OTHER -> xedit]

\* What the services do: AGENT_ID is a constant of the class, so two runs of
\* one service (s1 and s2) are one agent to the manager.
ServiceAgents == [s \in Session |-> IF s = s3 THEN dyndolod ELSE synthesis]
==============================================================================
