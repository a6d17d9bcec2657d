----------------------------- MODULE TaskSafety -----------------------------
(***************************************************************************)
(* What the two-tier pipeline of TaskPipeline promises, as invariants and  *)
(* action properties.  Invariants are conjunctions of named parts, so that *)
(* TaskPipelineProofs can use the parts separately.                        *)
(***************************************************************************)
EXTENDS TaskPipeline, FiniteSetsExt

(***************************************************************************)
(* Every variable holds rows of the shape the tables declare.              *)
(***************************************************************************)
TypeOK ==
  /\ task \in [TaskIds -> TaskRow]
  /\ worker \in [Workers -> WorkerRow]
  /\ account \in [Workers -> AccountRow]
  /\ transactions \in [TaskIds -> Seq(TransactionRow)]

-----------------------------------------------------------------------------
(* The columns a status implies *)

HasNobody(row) ==
  row.worker = NoWorker /\ row.validator = NoWorker /\ row.result = NoAnswer

OnlyExecutor(row) == row.worker \in Workers /\ row.validator = NoWorker

StageConsistent(row) ==
  /\ row.status \in {"absent", "pending"} => HasNobody(row)
  /\ row.status = "assigned" => OnlyExecutor(row) /\ row.result = NoAnswer
  /\ row.status = "submitted_A" => OnlyExecutor(row) /\ row.result \in Answers
  /\ row.status \in {"validating"} \cup Finished =>
       row.worker \in Workers /\ row.validator \in Workers /\ row.result \in Answers

(***************************************************************************)
(* The status of a task and the columns that name its workers agree: no    *)
(* queued task is still owned, no submitted task has lost its executor or  *)
(* its result, and no task is being validated or finished without both     *)
(* tiers.  A submitted task without executor would match no validator's    *)
(* query (Task.worker_id != worker_id is not true of NULL) and would be    *)
(* lost in the table for good.                                             *)
(***************************************************************************)
StagesConsistent == \A t \in TaskIds : StageConsistent(task[t])

TwoDifferentTiers(row) == row.validator # NoWorker => row.validator # row.worker

(***************************************************************************)
(* A worker never validates its own result: whatever sequence of expiries, *)
(* releases and claims led there, the two tiers are two different workers. *)
(***************************************************************************)
IndependentValidation == \A t \in TaskIds : TwoDifferentTiers(task[t])

-----------------------------------------------------------------------------
(* Money *)

\* What a task in this state should have paid so far.
OwedFor(row) ==
  CASE row.status = "done" -> Payments(row, "match")
    [] row.status = "rejected" /\ row.golden \in {NoAnswer, row.result} ->
         Payments(row, "mismatch")
    [] OTHER -> << >>

(***************************************************************************)
(* A task is paid exactly once: nothing before its verdict, then one       *)
(* reward to its executor and one to its validator if it is done, one      *)
(* bonus to its validator if it is rejected by comparison, nothing if a    *)
(* golden answer was missed (validate_task).                               *)
(***************************************************************************)
PaidExactlyOnce == \A t \in TaskIds : transactions[t] = OwedFor(task[t])

EarnedBy(w) ==
  MapThenSumSet(
    LAMBDA t : MapThenSumSet(
                 LAMBDA i : IF transactions[t][i].worker = w
                            THEN transactions[t][i].amount ELSE 0,
                 DOMAIN transactions[t]),
    TaskIds)

(***************************************************************************)
(* The stored balance is the sum of the transaction rows, although the     *)
(* handler computes the two separately from values read earlier            *)
(* (create_transaction).                                                   *)
(***************************************************************************)
BalanceIsLedger == \A w \in Workers : account[w].balance = EarnedBy(w)

(***************************************************************************)
(* The counters that feed the success rate and the leaderboards count      *)
(* finished tasks, each once.                                              *)
(***************************************************************************)
CountersMatchTasks ==
  \A w \in Workers :
    /\ account[w].completed =
         Cardinality({t \in TaskIds : task[t].status = "done" /\ task[t].worker = w})
    /\ account[w].failed =
         Cardinality({t \in TaskIds : task[t].status = "rejected" /\ task[t].worker = w})
    /\ account[w].validated =
         Cardinality({t \in TaskIds : task[t].status \in Finished /\ task[t].validator = w})

GoldenRespected(row) == row.status = "done" => row.golden \in {NoAnswer, row.result}

(***************************************************************************)
(* A wrong answer to a golden task is never accepted, even when executor   *)
(* and validator agree on it.                                              *)
(***************************************************************************)
GoldenGate == \A t \in TaskIds : GoldenRespected(task[t])

-----------------------------------------------------------------------------
(* What a step may not do *)

\* Set in this step only: w is banned now and was not before.
BannedNow(w) == worker'[w].isBanned /\ ~worker[w].isBanned

(***************************************************************************)
(* A verdict is final: no expiry, ban or late request changes a finished   *)
(* task or adds to what it paid.                                           *)
(***************************************************************************)
VerdictIsFinal ==
  [][\A t \in TaskIds : task[t].status \in Finished =>
        task'[t] = task[t] /\ transactions'[t] = transactions[t]]_vars

(***************************************************************************)
(* A submitted result stays as it was submitted until the verdict, unless  *)
(* its executor is banned in that very step.                               *)
(***************************************************************************)
ResultIsKept ==
  [][\A t \in TaskIds : task[t].result \in Answers /\ task'[t].result # task[t].result =>
        task[t].worker \in Workers /\ BannedNow(task[t].worker)]_vars

(***************************************************************************)
(* While its lease is live, an assigned task is taken from its executor    *)
(* only by a ban of that executor.                                         *)
(***************************************************************************)
LeaseProtectsExecutor ==
  [][\A t \in TaskIds :
        task[t].status = "assigned" /\ task[t].lease = "live"
          /\ task'[t].worker # task[t].worker =>
        task[t].worker \in Workers /\ BannedNow(task[t].worker)]_vars

(***************************************************************************)
(* A banned worker is given no new task, neither to execute nor to         *)
(* validate (the 403 of get_next_task).                                    *)
(***************************************************************************)
BannedGetNoTask ==
  [][\A t \in TaskIds, w \in Workers : worker[w].isBanned =>
        /\ task'[t].worker = w => task[t].worker = w
        /\ task'[t].validator = w => task[t].validator = w]_vars

=============================================================================
