--------------------------- MODULE MCFileOperations ---------------------------
EXTENDS FileOperations, TLC

CONSTANTS o1, o2, o3, r1, r2, p1, p2

OnOneFile == [o \in {o1, o2, o3} |-> p1]
OnTwoFiles == (o1 :> p1) @@ (o2 :> p2) @@ (o3 :> p1)
==============================================================================
