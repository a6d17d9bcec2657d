---------------------------- MODULE MCWorkerLoop ----------------------------
(* Finite instances of WorkerLoop for TLC: a pool of two threads and two single processes. *)
EXTENDS WorkerLoop, TLC

CONSTANTS w1, w2, w3, p1, p2, l2, l3, right, wrong

MCTaskTypes == {"text"}
MCPriorities == {0}
MCIdent == (p1 :> w1) @@ (p2 :> w1) @@ (l2 :> w2) @@ (l3 :> w3)
=============================================================================
