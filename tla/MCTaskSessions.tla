--------------------------- MODULE MCTaskSessions ---------------------------
(* Finite instances of TaskSessions for TLC. *)
EXTENDS SessionSafety, TLC

CONSTANTS w1, w2, w3, right, wrong, s1, s2

MCTaskTypes == {"text"}
MCPriorities == {0}

\* Workers are interchangeable if none is bannable, and slots always are.
SessionSymmetry == Permutations(Workers) \cup Permutations(Slots)
SlotSymmetry == Permutations(Slots)
=============================================================================
