--------------------------- MODULE MCTaskPipeline ---------------------------
(* Finite instances of TaskPipeline for TLC. *)
EXTENDS TaskRefinement, TLC

CONSTANTS w1, w2, w3, right, wrong

MCTaskTypes == {"text"}
MCPriorities == {0}
MCPrioritiesTwo == {0, 1}
MCStatusInputs == {"offline"}
MCResetValues == {0}

\* Workers are interchangeable: no definition names one.
Symmetry == Permutations(Workers)
=============================================================================
