--------------------------- MODULE TaskRefinement ---------------------------
(***************************************************************************)
(* TaskPipeline implements TwoTierSettlement: the verdict columns of a     *)
(* task row are the settlement, the transactions table is the payments,    *)
(* the balances are the funds.  Every request but a validation stutters.   *)
(***************************************************************************)
EXTENDS TaskSafety

\* The base rewards get_task_reward can return.
CodeRewards == {50, 100, 150, 500, 1000}

SettledAs(row) ==
  IF row.status \in Finished
  THEN [verdict |-> row.status, executor |-> row.worker, validator |-> row.validator]
  ELSE [verdict |-> "open"]

Market ==
  INSTANCE TwoTierSettlement WITH
    BaseRewards <- CodeRewards,
    settled     <- [t \in TaskIds |-> SettledAs(task[t])],
    payments    <- transactions,
    funds       <- [w \in Workers |-> account[w].balance]

(***************************************************************************)
(* The pipeline implements the settlement promise: every request leaves    *)
(* the settlements, payments and balances alone or settles one open task,  *)
(* between two different workers, with the payments of its verdict.        *)
(***************************************************************************)
ImplementsSettlement == Market!SettlementSpec
=============================================================================
