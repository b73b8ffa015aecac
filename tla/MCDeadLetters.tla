---------------------------- MODULE MCDeadLetters ----------------------------
EXTENDS DeadLetters

CONSTANTS l1, l2, w1, w2

=============================================================================
