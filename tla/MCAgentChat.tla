----------------------------- MODULE MCAgentChat -----------------------------
EXTENDS AgentChat

CONSTANTS c1, c2, a

\* Two calls of one chat.
OneChat == [c \in Call |-> a]

==============================================================================
