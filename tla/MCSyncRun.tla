------------------------------ MODULE MCSyncRun ------------------------------
EXTENDS SyncRun

CONSTANTS w1, w2

=============================================================================
