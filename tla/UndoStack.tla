------------------------------- MODULE UndoStack -------------------------------
(***************************************************************************)
(* What the journal promises to whoever undoes by it: the operations that  *)
(* are in effect form a stack, in the order of the ids of their entries.   *)
(* A new one goes on top, and only the one on top can be taken back.       *)
(***************************************************************************)
EXTENDS Naturals

CONSTANT Op

VARIABLE inEffect   \* the operations done and not undone, each with its id

Above(e) == \A f \in inEffect : f[1] < e[1]
Top(e) == \A f \in inEffect : f[1] <= e[1]

Init == inEffect = {}

Do == \E e \in inEffect' : e \in Nat \X Op /\ Above(e) /\ inEffect' = inEffect \cup {e}

Undo == \E e \in inEffect : Top(e) /\ inEffect' = inEffect \ {e}

Next == Do \/ Undo

Spec == Init /\ [][Next]_inEffect
==============================================================================
