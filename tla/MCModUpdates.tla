---------------------------- MODULE MCModUpdates ----------------------------
EXTENDS ModUpdates

CONSTANTS a, b, agent

=============================================================================
