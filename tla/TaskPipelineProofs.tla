------------------------- MODULE TaskPipelineProofs -------------------------
(***************************************************************************)
(* Machine-checked proofs about TaskPipeline, for any set of workers and   *)
(* answers and any number of tasks: the safety invariants and action       *)
(* properties of TaskSafety, that the pipeline implements                  *)
(* TwoTierSettlement, and that balances and counters are what the          *)
(* transactions and the finished tasks add up to.                          *)
(***************************************************************************)
EXTENDS TaskRefinement, FiniteSums, SequenceTheorems, TLAPS

-----------------------------------------------------------------------------
(* Helpers of the handlers *)

LEMMA ClampedType == ASSUME NEW r \in Int PROVE Clamped(r) \in Reputation
<1>1. CASE r < 0            BY <1>1 DEF Clamped, Reputation
<1>2. CASE r > 10000        BY <1>2 DEF Clamped, Reputation
<1>3. CASE r \in 0..10000   BY <1>3 DEF Clamped, Reputation
<1>4. QED BY <1>1, <1>2, <1>3

LEMMA ReputationIsInt == ASSUME NEW r \in Reputation PROVE r \in Int
  BY DEF Reputation

LEMMA RewardType ==
  ASSUME NEW type
  PROVE  TaskReward(type) \in Nat /\ ValidatorReward(type) \in Nat
<1>1. TaskReward(type) \in {50, 100, 150, 500, 1000}
  BY DEF TaskReward
<1>2. QED BY <1>1 DEF ValidatorReward

LEMMA ExecutorChangeType == ASSUME NEW v PROVE ExecutorChange(v) \in Int
  BY DEF ExecutorChange

LEMMA ValidatorChangeType == ASSUME NEW v PROVE ValidatorChange(v) \in Int
  BY DEF ValidatorChange

LEMMA VerdictType ==
  ASSUME NEW row, NEW answer PROVE Verdict(row, answer) \in Verdicts
  BY DEF Verdict, Verdicts

LEMMA AccountFields ==
  ASSUME NEW acct \in AccountRow
  PROVE  /\ acct.balance \in Nat /\ acct.reputation \in Reputation
         /\ acct.completed \in Nat /\ acct.failed \in Nat /\ acct.validated \in Nat
  BY DEF AccountRow

LEMMA AccountUpdate ==
  ASSUME NEW acct \in AccountRow, NEW b \in Nat, NEW r \in Reputation,
         NEW c \in Nat, NEW f \in Nat, NEW v \in Nat
  PROVE  /\ [acct EXCEPT !.balance = b, !.reputation = r, !.completed = c, !.failed = f]
              \in AccountRow
         /\ [acct EXCEPT !.balance = b, !.reputation = r, !.validated = v] \in AccountRow
  BY DEF AccountRow

LEMMA ExecutorAccountType ==
  ASSUME NEW acct \in AccountRow, NEW row, NEW verdict \in Verdicts
  PROVE  ExecutorAccount(acct, row, verdict) \in AccountRow
<1>1. acct.reputation \in Int
  BY AccountFields, ReputationIsInt
<1>2. ExecutorChange(verdict) \in Int
  BY ExecutorChangeType
<1>3. acct.reputation + ExecutorChange(verdict) \in Int
  BY <1>1, <1>2
<1>4. Clamped(acct.reputation + ExecutorChange(verdict)) \in Reputation
  BY <1>3, ClampedType
<1>5. TaskReward(row.type) \in Nat
  BY RewardType
<1>6. (IF verdict = "match" THEN acct.balance + TaskReward(row.type) ELSE acct.balance) \in Nat
  BY <1>5, AccountFields
<1>7. /\ (IF verdict = "match" THEN acct.completed + 1 ELSE acct.completed) \in Nat
      /\ (IF verdict = "match" THEN acct.failed ELSE acct.failed + 1) \in Nat
  BY AccountFields
<1>8. QED
  BY <1>4, <1>6, <1>7, AccountUpdate DEF ExecutorAccount

LEMMA ValidatorAccountType ==
  ASSUME NEW acct \in AccountRow, NEW row, NEW verdict \in Verdicts
  PROVE  ValidatorAccount(acct, row, verdict) \in AccountRow
<1>1. acct.reputation \in Int
  BY AccountFields, ReputationIsInt
<1>2. ValidatorChange(verdict) \in Int
  BY ValidatorChangeType
<1>3. acct.reputation + ValidatorChange(verdict) \in Int
  BY <1>1, <1>2
<1>4. Clamped(acct.reputation + ValidatorChange(verdict)) \in Reputation
  BY <1>3, ClampedType
<1>5. ValidatorReward(row.type) \in Nat
  BY RewardType
<1>6. (CASE verdict = "golden_failed" -> acct.balance
         [] verdict = "match" -> acct.balance + ValidatorReward(row.type)
         [] OTHER -> acct.balance + 10) \in Nat
  <2>1. acct.balance \in Nat
    BY AccountFields
  <2>2. QED BY <1>5, <2>1
<1>7. acct.validated + 1 \in Nat
  BY AccountFields
<1>8. QED
  BY <1>4, <1>6, <1>7, AccountUpdate DEF ValidatorAccount

LEMMA PaymentsType ==
  ASSUME NEW row, NEW verdict, row.worker \in Workers, row.validator \in Workers
  PROVE  Payments(row, verdict) \in Seq(TransactionRow)
<1>1. [worker |-> row.worker, kind |-> "reward", amount |-> TaskReward(row.type)]
        \in TransactionRow
  BY RewardType DEF TransactionRow
<1>2. [worker |-> row.validator, kind |-> "reward", amount |-> ValidatorReward(row.type)]
        \in TransactionRow
  BY RewardType DEF TransactionRow
<1>3. [worker |-> row.validator, kind |-> "bonus", amount |-> 10] \in TransactionRow
  BY DEF TransactionRow
<1>4. QED BY <1>1, <1>2, <1>3 DEF Payments
-----------------------------------------------------------------------------
(* Type correctness *)

LEMMA NewTaskType ==
  ASSUME NEW type \in TaskTypes, NEW priority \in Priorities,
         NEW golden \in Answers \cup {NoAnswer}
  PROVE  NewTask(type, priority, golden) \in TaskRow
  BY DEF NewTask, TaskRow, TaskStatus

LEMMA AbsentTaskType == AbsentTask \in TaskRow
  BY DEF AbsentTask, NewTask, TaskRow, TaskStatus

LEMMA AfterExpiryType == ASSUME NEW row \in TaskRow PROVE AfterExpiry(row) \in TaskRow
  BY DEF AfterExpiry, TaskRow, TaskStatus

LEMMA AfterBanType ==
  ASSUME NEW row \in TaskRow, NEW w PROVE AfterBan(w, row) \in TaskRow
  BY DEF AfterBan, TaskRow, TaskStatus

LEMMA WorkerRowStatus ==
  ASSUME NEW r \in WorkerRow, NEW s \in WorkerStatus
  PROVE  [r EXCEPT !.status = s] \in WorkerRow
  BY DEF WorkerRow

LEMMA WorkerStatusUpdate ==
  ASSUME NEW f \in [Workers -> WorkerRow], NEW w \in Workers, NEW s \in WorkerStatus
  PROVE  [f EXCEPT ![w].status = s] \in [Workers -> WorkerRow]
  BY WorkerRowStatus

\* The rows the handlers write, each from the row they read.
LEMMA ChangedRow ==
  ASSUME NEW row \in TaskRow
  PROVE  /\ [row EXCEPT !.status = "pending", !.worker = NoWorker] \in TaskRow
         /\ [row EXCEPT !.lease = "lapsed"] \in TaskRow
         /\ \A s \in Finished : [row EXCEPT !.status = s] \in TaskRow
         /\ \A w \in Workers :
              [row EXCEPT !.status = "validating", !.validator = w, !.lease = "live"] \in TaskRow
         /\ \A w \in Workers :
              [row EXCEPT !.status = "assigned", !.worker = w, !.lease = "live"] \in TaskRow
         /\ \A answer \in Answers :
              [row EXCEPT !.status = "submitted_A", !.result = answer, !.lease = "none"] \in TaskRow
  BY DEF TaskRow, TaskStatus, Finished

LEMMA InitTypeOK == Init => TypeOK
<1>1. NewAccount \in AccountRow
  BY DEF NewAccount, AccountRow, Reputation
<1>2. AbsentWorker \in WorkerRow
  BY DEF AbsentWorker, WorkerRow
<1>3. QED
  BY <1>1, <1>2, AbsentTaskType DEF Init, TypeOK

LEMMA WorkerRequestTypeOK ==
  ASSUME TypeOK, NEW w \in Workers, WorkerRequest(w)
  PROVE  TypeOK'
<1> USE DEF TypeOK
<1>1. CASE RegisterWorker(w)
  <2>1. NewAccount \in AccountRow
    BY DEF NewAccount, AccountRow, Reputation
  <2>2. [status |-> "idle", isBanned |-> FALSE] \in WorkerRow
    BY DEF WorkerRow, WorkerStatus
  <2>3. QED BY <1>1, <2>1, <2>2 DEF RegisterWorker
<1>2. CASE Heartbeat(w)
  BY <1>2, WorkerStatusUpdate DEF Heartbeat, WorkerStatus
<1>3. ASSUME NEW status \in StatusInputs, UpdateWorkerStatus(w, status)
      PROVE  TypeOK'
  <2>1. status \in WorkerStatus
    BY PipelineAssumption DEF SettableStatus
  <2>2. QED BY <1>3, <2>1, WorkerStatusUpdate DEF UpdateWorkerStatus
<1>4. ASSUME NEW t \in TaskIds, ClaimValidation(w, t)
      PROVE  TypeOK'
  <2>1. task' \in [TaskIds -> TaskRow]
    <3>1. task' = [task EXCEPT ![t] = [task[t] EXCEPT
                     !.status = "validating", !.validator = w, !.lease = "live"]]
      BY <1>4 DEF ClaimValidation, AsValidation
    <3>2. QED BY <3>1, ChangedRow
  <2>2. worker' \in [Workers -> WorkerRow]
    BY <1>4, WorkerStatusUpdate DEF ClaimValidation, WorkerStatus
  <2>3. QED BY <1>4, <2>1, <2>2 DEF ClaimValidation
<1>5. ASSUME NEW t \in TaskIds, ClaimExecution(w, t)
      PROVE  TypeOK'
  <2>1. task' \in [TaskIds -> TaskRow]
    <3>1. task' = [task EXCEPT ![t] = [task[t] EXCEPT
                     !.status = "assigned", !.worker = w, !.lease = "live"]]
      BY <1>5 DEF ClaimExecution, AsExecution
    <3>2. QED BY <3>1, ChangedRow
  <2>2. worker' \in [Workers -> WorkerRow]
    BY <1>5, WorkerStatusUpdate DEF ClaimExecution, WorkerStatus
  <2>3. QED BY <1>5, <2>1, <2>2 DEF ClaimExecution
<1>6. CASE FindNothing(w)
  BY <1>6, WorkerStatusUpdate DEF FindNothing, WorkerStatus
<1>7. ASSUME NEW t \in TaskIds, NEW answer \in Answers, SubmitResult(w, t, answer)
      PROVE  TypeOK'
  <2>1. task' \in [TaskIds -> TaskRow]
    <3>1. task' = [task EXCEPT ![t] = [task[t] EXCEPT
                     !.status = "submitted_A", !.result = answer, !.lease = "none"]]
      BY <1>7 DEF SubmitResult, AsSubmitted
    <3>2. QED BY <3>1, ChangedRow
  <2>2. worker' \in [Workers -> WorkerRow]
    BY <1>7, WorkerStatusUpdate DEF SubmitResult, WorkerStatus
  <2>3. QED BY <1>7, <2>1, <2>2 DEF SubmitResult
<1>8. ASSUME NEW t \in TaskIds, SubmitTooLate(w, t)
      PROVE  TypeOK'
  <2>1. task' = [task EXCEPT ![t] = [task[t] EXCEPT !.status = "pending", !.worker = NoWorker]]
    BY <1>8 DEF SubmitTooLate, AsReturned
  <2>2. [task[t] EXCEPT !.status = "pending", !.worker = NoWorker] \in TaskRow
    BY ChangedRow
  <2>3. QED BY <1>8, <2>1, <2>2 DEF SubmitTooLate
<1>9. ASSUME NEW t \in TaskIds, NEW answer \in Answers, ValidateTask(w, t, answer)
      PROVE  TypeOK'
  <2> DEFINE row == task[t]
             a == row.worker
             verdict == Verdict(row, answer)
  <2>1. row \in TaskRow /\ a \in Workers /\ row.validator = w
    BY <1>9 DEF ValidateTask
  <2>2. verdict \in Verdicts
    BY VerdictType
  <2>3. task' \in [TaskIds -> TaskRow]
    <3>1. PICK final \in Finished : task' = [task EXCEPT ![t] = [task[t] EXCEPT !.status = final]]
      BY <1>9 DEF ValidateTask, AsJudged, Finished
    <3>2. QED BY <3>1, ChangedRow
  <2>4. worker' \in [Workers -> WorkerRow]
    <3>1. "idle" \in WorkerStatus
      BY DEF WorkerStatus
    <3>2. [worker EXCEPT ![a].status = "idle"] \in [Workers -> WorkerRow]
      BY <2>1, <3>1, WorkerStatusUpdate
    <3>3. worker' = [[worker EXCEPT ![a].status = "idle"] EXCEPT ![w].status = "idle"]
      BY <1>9 DEF ValidateTask
    <3>4. QED BY <3>1, <3>2, <3>3, WorkerStatusUpdate
  <2>5. account' \in [Workers -> AccountRow]
    <3>1. ExecutorAccount(account[a], row, verdict) \in AccountRow
      BY <2>1, <2>2, ExecutorAccountType
    <3>2. \A acct \in AccountRow : ValidatorAccount(acct, row, verdict) \in AccountRow
      BY <2>2, ValidatorAccountType
    <3>3. QED BY <1>9, <2>1, <3>1, <3>2 DEF ValidateTask, Credited
  <2>6. transactions' \in [TaskIds -> Seq(TransactionRow)]
    <3>1. Payments(row, verdict) \in Seq(TransactionRow)
      BY <2>1, PaymentsType
    <3>2. transactions[t] \o Payments(row, verdict) \in Seq(TransactionRow)
      BY <3>1
    <3>3. QED BY <1>9, <3>2 DEF ValidateTask
  <2>7. QED BY <2>3, <2>4, <2>5, <2>6
<1>10. QED
  BY <1>1, <1>2, <1>3, <1>4, <1>5, <1>6, <1>7, <1>8, <1>9 DEF WorkerRequest, GetNextTask

LEMMA AdminRequestTypeOK == ASSUME TypeOK, AdminRequest PROVE TypeOK'
<1> USE DEF TypeOK
<1>1. [status |-> "banned", isBanned |-> TRUE] \in WorkerRow
      /\ [status |-> "idle", isBanned |-> FALSE] \in WorkerRow
  BY DEF WorkerRow, WorkerStatus
<1>2. CASE ExpireStaleLeases
  BY <1>2, AfterExpiryType DEF ExpireStaleLeases
<1>3. ASSUME NEW w \in Workers, BanWorker(w) PROVE TypeOK'
  BY <1>3, <1>1, AfterBanType DEF BanWorker
<1>4. ASSUME NEW w \in Workers, UnbanWorker(w) PROVE TypeOK'
  BY <1>4, <1>1 DEF UnbanWorker
<1>5. ASSUME NEW colluders \in SUBSET Workers, AutoBanColluders(colluders) PROVE TypeOK'
  BY <1>5, <1>1 DEF AutoBanColluders
<1>6. ASSUME NEW silent \in SUBSET Workers, CleanupStaleWorkers(silent) PROVE TypeOK'
  BY <1>6 DEF CleanupStaleWorkers, WorkerRow, WorkerStatus
<1>7. ASSUME NEW w \in Workers, NEW r \in ResetValues, ResetReputation(w, r) PROVE TypeOK'
  BY <1>7, PipelineAssumption DEF ResetReputation, AccountRow
<1>8. QED
  BY <1>2, <1>3, <1>4, <1>5, <1>6, <1>7 DEF AdminRequest

LEMMA NextTypeOK == TypeOK /\ [Next]_vars => TypeOK'
<1> SUFFICES ASSUME TypeOK, [Next]_vars PROVE TypeOK'
  OBVIOUS
<1>1. CASE \E w \in Workers : WorkerRequest(w)
  BY <1>1, WorkerRequestTypeOK
<1>2. CASE AdminRequest
  BY <1>2, AdminRequestTypeOK
<1>3. CASE ClientRequest
  BY <1>3, NewTaskType DEF ClientRequest, CreateTask, TypeOK
<1>4. ASSUME NEW t \in TaskIds, LeaseLapses(t) PROVE TypeOK'
  BY <1>4 DEF LeaseLapses, TypeOK, TaskRow
<1>5. CASE UNCHANGED vars
  BY <1>5 DEF vars, TypeOK
<1>6. QED
  BY <1>1, <1>2, <1>3, <1>4, <1>5 DEF Next

(***************************************************************************)
(* Every reachable state holds well-formed rows, whatever the numbers of   *)
(* workers, tasks and answers.                                             *)
(***************************************************************************)
THEOREM TypeCorrect == Spec => []TypeOK
  BY InitTypeOK, NextTypeOK, PTL DEF Spec
-----------------------------------------------------------------------------
(* What one step makes of one task *)

\* The ways a row changes without a verdict, with the guards proofs need.
QuietChange(old, new) ==
  \/ new = old
  \/ /\ old.status = "absent"
     /\ \E type \in TaskTypes, priority \in Priorities, golden \in Answers \cup {NoAnswer} :
          new = NewTask(type, priority, golden)
  \/ \E w \in Workers :
       /\ Admitted(w)
       /\ old.status = "submitted_A" /\ old.worker # w
       /\ new = [old EXCEPT !.status = "validating", !.validator = w, !.lease = "live"]
  \/ \E w \in Workers :
       /\ Admitted(w)
       /\ old.status = "pending"
       /\ new = [old EXCEPT !.status = "assigned", !.worker = w, !.lease = "live"]
  \/ \E answer \in Answers :
       /\ old.status = "assigned"
       /\ new = [old EXCEPT !.status = "submitted_A", !.result = answer, !.lease = "none"]
  \/ /\ old.status = "assigned" /\ old.lease = "lapsed"
     /\ new = [old EXCEPT !.status = "pending", !.worker = NoWorker]
  \/ /\ old.status \in {"assigned", "validating"}
     /\ new = [old EXCEPT !.lease = "lapsed"]
  \/ new = AfterExpiry(old)
  \/ \E w \in Workers : BannedNow(w) /\ new = AfterBan(w, old)

Judged(old, new, answer) ==
  /\ old.status = "validating"
  /\ old.validator \in Workers
  /\ old.worker \in Workers
  /\ new = [old EXCEPT !.status = IF Verdict(old, answer) = "match" THEN "done" ELSE "rejected"]

QuietStep(t) == QuietChange(task[t], task'[t]) /\ transactions'[t] = transactions[t]

RowStep(t) ==
  \/ QuietStep(t)
  \/ \E answer \in Answers :
       /\ Judged(task[t], task'[t], answer)
       /\ transactions'[t] = transactions[t] \o Payments(task[t], Verdict(task[t], answer))

Judging(w) == \E t \in TaskIds, answer \in Answers : ValidateTask(w, t, answer)

LEMMA WorkerRequestByRow ==
  ASSUME TypeOK, NEW t \in TaskIds, NEW w \in Workers, WorkerRequest(w), ~Judging(w)
  PROVE  QuietStep(t)
<1> USE DEF TypeOK
<1>1. CASE UNCHANGED <<task, transactions>>
  BY <1>1 DEF QuietStep, QuietChange
<1>2. ASSUME NEW u \in TaskIds, ClaimValidation(w, u) PROVE QuietStep(t)
  <2>1. u = t => /\ task[t].status = "submitted_A" /\ task[t].worker # w
                 /\ task'[t] = [task[t] EXCEPT
                      !.status = "validating", !.validator = w, !.lease = "live"]
    BY <1>2 DEF ClaimValidation, AsValidation, IsFirst, Validatable
  <2>2. Admitted(w) /\ transactions' = transactions
    BY <1>2 DEF ClaimValidation
  <2>3. u # t => task'[t] = task[t]
    BY <1>2 DEF ClaimValidation, AsValidation
  <2>4. QED BY <2>1, <2>2, <2>3 DEF QuietStep, QuietChange
<1>3. ASSUME NEW u \in TaskIds, ClaimExecution(w, u) PROVE QuietStep(t)
  <2>1. u = t => /\ task[t].status = "pending"
                 /\ task'[t] = [task[t] EXCEPT
                      !.status = "assigned", !.worker = w, !.lease = "live"]
    BY <1>3 DEF ClaimExecution, AsExecution, IsFirst, Pending
  <2>2. Admitted(w) /\ transactions' = transactions
    BY <1>3 DEF ClaimExecution
  <2>3. u # t => task'[t] = task[t]
    BY <1>3 DEF ClaimExecution, AsExecution
  <2>4. QED BY <2>1, <2>2, <2>3 DEF QuietStep, QuietChange
<1>4. ASSUME NEW u \in TaskIds, NEW answer \in Answers, SubmitResult(w, u, answer)
      PROVE  QuietStep(t)
  <2>1. u = t => /\ task[t].status = "assigned"
                 /\ task'[t] = [task[t] EXCEPT
                      !.status = "submitted_A", !.result = answer, !.lease = "none"]
    BY <1>4 DEF SubmitResult, AsSubmitted
  <2>2. transactions' = transactions /\ (u # t => task'[t] = task[t])
    BY <1>4 DEF SubmitResult, AsSubmitted
  <2>3. QED BY <2>1, <2>2 DEF QuietStep, QuietChange
<1>5. ASSUME NEW u \in TaskIds, SubmitTooLate(w, u) PROVE QuietStep(t)
  <2>1. u = t => /\ task[t].status = "assigned" /\ task[t].lease = "lapsed"
                 /\ task'[t] = [task[t] EXCEPT !.status = "pending", !.worker = NoWorker]
    BY <1>5 DEF SubmitTooLate, AsReturned
  <2>2. transactions' = transactions /\ (u # t => task'[t] = task[t])
    BY <1>5 DEF SubmitTooLate, AsReturned
  <2>3. QED BY <2>1, <2>2 DEF QuietStep, QuietChange
<1>6. QED
  BY <1>1, <1>2, <1>3, <1>4, <1>5
  DEF WorkerRequest, Judging, GetNextTask, RegisterWorker, Heartbeat, UpdateWorkerStatus, FindNothing

LEMMA ValidationByRow ==
  ASSUME TypeOK, NEW t \in TaskIds, NEW w \in Workers, NEW u \in TaskIds, NEW answer \in Answers,
         ValidateTask(w, u, answer)
  PROVE  RowStep(t)
<1> USE DEF TypeOK
<1>1. u = t => /\ Judged(task[t], task'[t], answer)
               /\ transactions'[t] =
                    transactions[t] \o Payments(task[t], Verdict(task[t], answer))
  BY DEF ValidateTask, Judged, AsJudged
<1>2. u # t => task'[t] = task[t] /\ transactions'[t] = transactions[t]
  BY DEF ValidateTask
<1>3. QED BY <1>1, <1>2 DEF RowStep, QuietStep, QuietChange

LEMMA AdminRequestByRow ==
  ASSUME TypeOK, NEW t \in TaskIds, AdminRequest PROVE QuietStep(t)
<1>1. CASE UNCHANGED <<task, transactions>>
  BY <1>1 DEF QuietStep, QuietChange
<1>2. CASE ExpireStaleLeases
  BY <1>2 DEF ExpireStaleLeases, QuietStep, QuietChange
<1>3. ASSUME NEW w \in Workers, BanWorker(w) PROVE QuietStep(t)
  <2>1. BannedNow(w)
    BY <1>3 DEF BanWorker, BannedNow, Admitted, TypeOK
  <2>2. QED BY <1>3, <2>1 DEF BanWorker, QuietStep, QuietChange
<1>4. QED
  BY <1>1, <1>2, <1>3
  DEF AdminRequest, UnbanWorker, AutoBanColluders, CleanupStaleWorkers, ResetReputation

LEMMA QuietByRow ==
  ASSUME TypeOK, [Next]_vars, \A w \in Workers : ~Judging(w), NEW t \in TaskIds
  PROVE  QuietStep(t)
<1>1. CASE \E w \in Workers : WorkerRequest(w)
  BY <1>1, WorkerRequestByRow
<1>2. CASE AdminRequest
  BY <1>2, AdminRequestByRow
<1>3. CASE ClientRequest
  <2>1. PICK u \in TaskIds, type \in TaskTypes, priority \in Priorities,
             golden \in Answers \cup {NoAnswer} : CreateTask(u, type, priority, golden)
    BY <1>3 DEF ClientRequest
  <2>2. u = t => task[t].status = "absent" /\ task'[t] = NewTask(type, priority, golden)
    BY <2>1 DEF CreateTask, TypeOK
  <2>3. transactions' = transactions /\ (u # t => task'[t] = task[t])
    BY <2>1 DEF CreateTask, TypeOK
  <2>4. QED BY <2>2, <2>3 DEF QuietStep, QuietChange
<1>4. ASSUME NEW u \in TaskIds, LeaseLapses(u) PROVE QuietStep(t)
  <2>1. u = t => /\ task[t].status \in {"assigned", "validating"}
                 /\ task'[t] = [task[t] EXCEPT !.lease = "lapsed"]
    BY <1>4 DEF LeaseLapses, TypeOK
  <2>2. transactions' = transactions /\ (u # t => task'[t] = task[t])
    BY <1>4 DEF LeaseLapses, TypeOK
  <2>3. QED BY <2>1, <2>2 DEF QuietStep, QuietChange
<1>5. CASE UNCHANGED vars
  BY <1>5 DEF vars, QuietStep, QuietChange
<1>6. QED BY <1>1, <1>2, <1>3, <1>4, <1>5 DEF Next

LEMMA StepByRow == ASSUME TypeOK, [Next]_vars, NEW t \in TaskIds PROVE RowStep(t)
<1>1. CASE \E w \in Workers : Judging(w)
  BY <1>1, ValidationByRow DEF Judging
<1>2. CASE \A w \in Workers : ~Judging(w)
  BY <1>2, QuietByRow DEF RowStep
<1>3. QED BY <1>1, <1>2

-----------------------------------------------------------------------------
(* The safety invariants *)

(***************************************************************************)
(* The inductive invariant.  That a verdict finds two different workers,   *)
(* that a payment finds an empty history and that a release finds no       *)
(* validator all rest on the columns each status implies, so the named     *)
(* invariants are inductive only together.                                 *)
(***************************************************************************)
IInv ==
  /\ TypeOK
  /\ StagesConsistent
  /\ IndependentValidation
  /\ GoldenGate
  /\ PaidExactlyOnce

RowInv(row) == StageConsistent(row) /\ TwoDifferentTiers(row) /\ GoldenRespected(row)

LEMMA QuietKeepsRowInv ==
  ASSUME NEW old \in TaskRow, NEW new, RowInv(old), QuietChange(old, new)
  PROVE  RowInv(new)
<1> USE PipelineAssumption
    DEF RowInv, StageConsistent, HasNobody, OnlyExecutor, TwoDifferentTiers,
        GoldenRespected, TaskRow, TaskStatus, Finished
<1>1. CASE new = old
  BY <1>1
<1>2. ASSUME NEW type \in TaskTypes, NEW priority \in Priorities,
             NEW golden \in Answers \cup {NoAnswer}, new = NewTask(type, priority, golden)
      PROVE  RowInv(new)
  BY <1>2 DEF NewTask
<1>3. ASSUME NEW w \in Workers, old.status = "submitted_A", old.worker # w,
             new = [old EXCEPT !.status = "validating", !.validator = w, !.lease = "live"]
      PROVE  RowInv(new)
  BY <1>3
<1>4. ASSUME NEW w \in Workers, old.status = "pending",
             new = [old EXCEPT !.status = "assigned", !.worker = w, !.lease = "live"]
      PROVE  RowInv(new)
  BY <1>4
<1>5. ASSUME NEW answer \in Answers, old.status = "assigned",
             new = [old EXCEPT !.status = "submitted_A", !.result = answer, !.lease = "none"]
      PROVE  RowInv(new)
  BY <1>5
<1>6. CASE /\ old.status = "assigned"
           /\ new = [old EXCEPT !.status = "pending", !.worker = NoWorker]
  BY <1>6
<1>7. CASE /\ old.status \in {"assigned", "validating"}
           /\ new = [old EXCEPT !.lease = "lapsed"]
  BY <1>7
<1>8. CASE new = AfterExpiry(old)
  BY <1>8 DEF AfterExpiry
<1>9. ASSUME NEW w \in Workers, new = AfterBan(w, old)
      PROVE  RowInv(new)
  <2>1. CASE old.status \in {"assigned", "submitted_A"}
             /\ new = [old EXCEPT !.status = "pending", !.worker = NoWorker, !.result = NoAnswer]
    <3>1. /\ new.status = "pending" /\ new.worker = NoWorker /\ new.result = NoAnswer
          /\ new.validator = old.validator
      BY <2>1
    <3>2. old.validator = NoWorker
      BY <2>1
    <3>3. QED BY <3>1, <3>2
  <2>2. CASE new = old
    BY <2>2
  <2>3. QED BY <1>9, <2>1, <2>2 DEF AfterBan
<1> HIDE DEF RowInv, TaskRow
<1>10. QED
  BY <1>1, <1>2, <1>3, <1>4, <1>5, <1>6, <1>7, <1>8, <1>9, Zenon DEF QuietChange

LEMMA JudgedKeepsRowInv ==
  ASSUME NEW old \in TaskRow, NEW new, NEW answer \in Answers,
         RowInv(old), Judged(old, new, answer)
  PROVE  RowInv(new)
<1>1. /\ new.status = IF Verdict(old, answer) = "match" THEN "done" ELSE "rejected"
      /\ new.worker = old.worker /\ new.validator = old.validator
      /\ new.result = old.result /\ new.golden = old.golden
  BY DEF Judged, TaskRow
<1>2. StageConsistent(new)
  BY <1>1 DEF Judged, RowInv, StageConsistent, Finished
<1>3. TwoDifferentTiers(new)
  BY <1>1 DEF RowInv, TwoDifferentTiers
<1>4. GoldenRespected(new)
  BY <1>1 DEF GoldenRespected, Verdict
<1>5. QED BY <1>2, <1>3, <1>4 DEF RowInv

LEMMA QuietNeverFinishes ==
  ASSUME NEW old \in TaskRow, NEW new, QuietChange(old, new), old.status \notin Finished
  PROVE  new.status \notin Finished
<1>1. AfterExpiry(old).status \notin Finished
  BY DEF AfterExpiry, TaskRow, Finished
<1>2. \A w : AfterBan(w, old).status \notin Finished
  BY DEF AfterBan, TaskRow, Finished
<1>3. \A type, priority, golden : NewTask(type, priority, golden).status \notin Finished
  BY DEF NewTask, Finished
<1>4. \A s \in TaskStatus \ Finished : \A w :
        /\ [old EXCEPT !.status = s, !.worker = w].status \notin Finished
        /\ [old EXCEPT !.status = s, !.validator = w, !.lease = "live"].status \notin Finished
        /\ [old EXCEPT !.status = s, !.worker = w, !.lease = "live"].status \notin Finished
        /\ [old EXCEPT !.status = s, !.result = w, !.lease = "none"].status \notin Finished
  BY DEF TaskRow
<1>5. [old EXCEPT !.lease = "lapsed"].status = old.status
  BY DEF TaskRow
<1>6. {"pending", "assigned", "submitted_A", "validating"} \subseteq TaskStatus \ Finished
  BY DEF TaskStatus, Finished
<1>7. QED BY <1>1, <1>2, <1>3, <1>4, <1>5, <1>6 DEF QuietChange

LEMMA FinishedIsQuiet ==
  ASSUME NEW old \in TaskRow, NEW new, old.status \in Finished, QuietChange(old, new)
  PROVE  new = old
  BY DEF QuietChange, AfterExpiry, AfterBan, Finished

LEMMA QuietKeepsOwed ==
  ASSUME NEW old \in TaskRow, NEW new, QuietChange(old, new)
  PROVE  OwedFor(new) = OwedFor(old)
<1>1. CASE old.status \in Finished
  BY <1>1, FinishedIsQuiet
<1>2. CASE old.status \notin Finished
  <2>1. new.status \notin Finished
    BY <1>2, QuietNeverFinishes
  <2>2. QED BY <1>2, <2>1 DEF OwedFor, Finished
<1>3. QED BY <1>1, <1>2

LEMMA JudgedOwes ==
  ASSUME NEW old \in TaskRow, NEW new, NEW answer \in Answers, Judged(old, new, answer)
  PROVE  OwedFor(old) \o Payments(old, Verdict(old, answer)) = OwedFor(new)
<1>1. OwedFor(old) = << >>
  BY DEF Judged, OwedFor
<1>2. Payments(old, Verdict(old, answer)) \in Seq(TransactionRow)
  BY PaymentsType DEF Judged
<1>3. << >> \o Payments(old, Verdict(old, answer)) = Payments(old, Verdict(old, answer))
  BY <1>2
<1>4. /\ new.status = IF Verdict(old, answer) = "match" THEN "done" ELSE "rejected"
      /\ new.golden = old.golden /\ new.result = old.result /\ new.type = old.type
      /\ new.worker = old.worker /\ new.validator = old.validator
  BY DEF Judged, TaskRow
<1>5. \A v : Payments(new, v) = Payments(old, v)
  BY <1>4 DEF Payments
<1>6. OwedFor(new) = Payments(old, Verdict(old, answer))
  <2>1. CASE old.golden \notin {NoAnswer, old.result}
    <3>1. Verdict(old, answer) = "golden_failed"
      BY <2>1 DEF Verdict
    <3>2. QED BY <1>4, <2>1, <3>1 DEF OwedFor, Payments
  <2>2. CASE old.golden \in {NoAnswer, old.result} /\ old.result = answer
    <3>1. Verdict(old, answer) = "match"
      BY <2>2 DEF Verdict
    <3>2. QED BY <1>4, <1>5, <3>1 DEF OwedFor
  <2>3. CASE old.golden \in {NoAnswer, old.result} /\ old.result # answer
    <3>1. Verdict(old, answer) = "mismatch"
      BY <2>3 DEF Verdict
    <3>2. QED BY <1>4, <1>5, <2>3, <3>1 DEF OwedFor
  <2>4. QED BY <2>1, <2>2, <2>3
<1>7. QED BY <1>1, <1>3, <1>6

LEMMA InvNext ==
  ASSUME IInv, [Next]_vars PROVE IInv'
<1> USE DEF IInv
<1>1. TypeOK'
  BY NextTypeOK
<1>2. ASSUME NEW t \in TaskIds PROVE RowInv(task'[t])
  <2>1. task[t] \in TaskRow /\ RowInv(task[t]) /\ RowStep(t)
    BY StepByRow DEF TypeOK, RowInv, StagesConsistent, IndependentValidation, GoldenGate
  <2>2. CASE QuietChange(task[t], task'[t])
    BY <2>1, <2>2, QuietKeepsRowInv
  <2>3. ASSUME NEW answer \in Answers, Judged(task[t], task'[t], answer)
        PROVE  RowInv(task'[t])
    BY <2>1, <2>3, JudgedKeepsRowInv
  <2>4. QED BY <2>1, <2>2, <2>3 DEF RowStep, QuietStep
<1>3. ASSUME NEW t \in TaskIds PROVE transactions'[t] = OwedFor(task'[t])
  <2>1. task[t] \in TaskRow /\ RowStep(t) /\ transactions[t] = OwedFor(task[t])
    BY StepByRow DEF TypeOK, PaidExactlyOnce
  <2>2. CASE QuietChange(task[t], task'[t]) /\ transactions'[t] = transactions[t]
    BY <2>1, <2>2, QuietKeepsOwed
  <2>3. ASSUME NEW answer \in Answers, Judged(task[t], task'[t], answer),
               transactions'[t] = transactions[t] \o Payments(task[t], Verdict(task[t], answer))
        PROVE  transactions'[t] = OwedFor(task'[t])
    BY <2>1, <2>3, JudgedOwes
  <2>4. QED BY <2>1, <2>2, <2>3 DEF RowStep, QuietStep
<1>4. QED
  BY <1>1, <1>2, <1>3
  DEF RowInv, StagesConsistent, IndependentValidation, GoldenGate, PaidExactlyOnce

LEMMA InvInit == Init => IInv
<1> SUFFICES ASSUME Init PROVE IInv
  OBVIOUS
<1>1. TypeOK
  BY InitTypeOK
<1>2. \A t \in TaskIds :
        /\ task[t].status = "absent" /\ HasNobody(task[t])
        /\ transactions[t] = << >>
  BY DEF Init, AbsentTask, NewTask, HasNobody
<1>3. QED
  BY <1>1, <1>2
  DEF IInv, StagesConsistent, StageConsistent, IndependentValidation, TwoDifferentTiers,
      HasNobody, GoldenGate, GoldenRespected, PaidExactlyOnce, OwedFor, Finished

LEMMA Invariant == Spec => []IInv
<1>1. IInv /\ [Next]_vars => IInv'
  BY InvNext
<1>2. QED BY <1>1, InvInit, PTL DEF Spec

(***************************************************************************)
(* Status and columns of every task agree: no accepted result is ever lost *)
(* from the table by an expiry, a ban or a late answer.                    *)
(***************************************************************************)
THEOREM StagesAlwaysConsistent == Spec => []StagesConsistent
<1>1. IInv => StagesConsistent
  BY DEF IInv
<1>2. QED BY <1>1, Invariant, PTL

(***************************************************************************)
(* No worker ever validates its own result (the second tier is another     *)
(* worker), for any number of workers and tasks.                           *)
(***************************************************************************)
THEOREM ValidationIsIndependent == Spec => []IndependentValidation
<1>1. IInv => IndependentValidation
  BY DEF IInv
<1>2. QED BY <1>1, Invariant, PTL

(***************************************************************************)
(* No task with a golden answer is done with another answer.               *)
(***************************************************************************)
THEOREM GoldenGateHolds == Spec => []GoldenGate
<1>1. IInv => GoldenGate
  BY DEF IInv
<1>2. QED BY <1>1, Invariant, PTL

(***************************************************************************)
(* Every task has paid exactly what its status says: nothing before the    *)
(* verdict, and afterwards each tier once.                                 *)
(***************************************************************************)
THEOREM EveryTaskPaidOnce == Spec => []PaidExactlyOnce
<1>1. IInv => PaidExactlyOnce
  BY DEF IInv
<1>2. QED BY <1>1, Invariant, PTL

-----------------------------------------------------------------------------
(* What a step may not do *)

(***************************************************************************)
(* No step of any handler changes a finished task or adds to its payments. *)
(***************************************************************************)
THEOREM VerdictsAreFinal == Spec => VerdictIsFinal
<1>1. ASSUME IInv, [Next]_vars, NEW t \in TaskIds, task[t].status \in Finished
      PROVE  task'[t] = task[t] /\ transactions'[t] = transactions[t]
  <2>1. RowStep(t) /\ task[t] \in TaskRow
    BY <1>1, StepByRow DEF IInv, TypeOK
  <2>2. \A answer : ~Judged(task[t], task'[t], answer)
    BY <1>1 DEF Judged, Finished
  <2>3. QED BY <1>1, <2>1, <2>2, FinishedIsQuiet DEF RowStep, QuietStep
<1>2. IInv /\ [Next]_vars =>
        [\A t \in TaskIds : task[t].status \in Finished =>
            task'[t] = task[t] /\ transactions'[t] = transactions[t]]_vars
  BY <1>1
<1>3. QED BY <1>2, Invariant, PTL DEF Spec, VerdictIsFinal

LEMMA QuietKeepsResult ==
  ASSUME NEW old \in TaskRow, NEW new, StageConsistent(old), QuietChange(old, new),
         old.result \in Answers, new.result # old.result
  PROVE  old.worker \in Workers /\ BannedNow(old.worker)
<1>1. old.status \notin {"absent", "pending", "assigned"}
  BY PipelineAssumption DEF StageConsistent, HasNobody
<1>2. AfterExpiry(old).result = old.result
  BY DEF AfterExpiry, TaskRow
<1>3. \A w : [old EXCEPT !.status = "validating", !.validator = w, !.lease = "live"].result
               = old.result
  BY DEF TaskRow
<1>4. [old EXCEPT !.lease = "lapsed"].result = old.result
  BY DEF TaskRow
<1>5. PICK w \in Workers : BannedNow(w) /\ new = AfterBan(w, old)
  BY <1>1, <1>2, <1>3, <1>4 DEF QuietChange
<1>6. old.worker = w
  BY <1>5 DEF AfterBan
<1>7. QED BY <1>5, <1>6

(***************************************************************************)
(* A submitted result is overwritten or cleared by no step but the ban of  *)
(* the worker that submitted it.                                           *)
(***************************************************************************)
THEOREM ResultsAreKept == Spec => ResultIsKept
<1>1. ASSUME IInv, [Next]_vars, NEW t \in TaskIds,
             task[t].result \in Answers, task'[t].result # task[t].result
      PROVE  task[t].worker \in Workers /\ BannedNow(task[t].worker)
  <2>1. RowStep(t) /\ task[t] \in TaskRow /\ StageConsistent(task[t])
    BY <1>1, StepByRow DEF IInv, TypeOK, StagesConsistent
  <2>2. \A answer : ~Judged(task[t], task'[t], answer)
    BY <1>1, <2>1 DEF Judged, TaskRow
  <2>3. QED BY <1>1, <2>1, <2>2, QuietKeepsResult DEF RowStep, QuietStep
<1>2. IInv /\ [Next]_vars =>
        [\A t \in TaskIds : task[t].result \in Answers /\ task'[t].result # task[t].result =>
            task[t].worker \in Workers /\ BannedNow(task[t].worker)]_vars
  BY <1>1
<1>3. QED BY <1>2, Invariant, PTL DEF Spec, ResultIsKept

LEMMA QuietKeepsExecutor ==
  ASSUME NEW old \in TaskRow, NEW new, QuietChange(old, new),
         old.status = "assigned", old.lease = "live", new.worker # old.worker
  PROVE  old.worker \in Workers /\ BannedNow(old.worker)
<1>1. AfterExpiry(old) = old
  BY DEF AfterExpiry
<1>2. /\ [old EXCEPT !.lease = "lapsed"].worker = old.worker
      /\ \A answer : [old EXCEPT !.status = "submitted_A", !.result = answer,
                                 !.lease = "none"].worker = old.worker
  BY DEF TaskRow
<1>3. PICK w \in Workers : BannedNow(w) /\ new = AfterBan(w, old)
  BY <1>1, <1>2 DEF QuietChange
<1>4. old.worker = w
  BY <1>3 DEF AfterBan
<1>5. QED BY <1>3, <1>4

(***************************************************************************)
(* A live lease protects its executor from everything but its own ban.     *)
(***************************************************************************)
THEOREM LeasesProtectExecutors == Spec => LeaseProtectsExecutor
<1>1. ASSUME IInv, [Next]_vars, NEW t \in TaskIds, task[t].status = "assigned",
             task[t].lease = "live", task'[t].worker # task[t].worker
      PROVE  task[t].worker \in Workers /\ BannedNow(task[t].worker)
  <2>1. RowStep(t) /\ task[t] \in TaskRow
    BY <1>1, StepByRow DEF IInv, TypeOK
  <2>2. \A answer : ~Judged(task[t], task'[t], answer)
    BY <1>1 DEF Judged
  <2>3. QED BY <1>1, <2>1, <2>2, QuietKeepsExecutor DEF RowStep, QuietStep
<1>2. IInv /\ [Next]_vars =>
        [\A t \in TaskIds :
            task[t].status = "assigned" /\ task[t].lease = "live"
              /\ task'[t].worker # task[t].worker =>
            task[t].worker \in Workers /\ BannedNow(task[t].worker)]_vars
  BY <1>1
<1>3. QED BY <1>2, Invariant, PTL DEF Spec, LeaseProtectsExecutor

LEMMA QuietNamesAdmitted ==
  ASSUME NEW old \in TaskRow, NEW new, NEW w \in Workers, QuietChange(old, new),
         ~Admitted(w)
  PROVE  /\ new.worker = w => old.worker = w
         /\ new.validator = w => old.validator = w
<1> USE PipelineAssumption
<1>1. AfterExpiry(old).worker \in {old.worker, NoWorker}
      /\ AfterExpiry(old).validator \in {old.validator, NoWorker}
  BY DEF AfterExpiry, TaskRow
<1>2. \A u : /\ AfterBan(u, old).worker \in {old.worker, NoWorker}
             /\ AfterBan(u, old).validator = old.validator
  BY DEF AfterBan, TaskRow
<1>3. \A type, priority, golden :
        /\ NewTask(type, priority, golden).worker = NoWorker
        /\ NewTask(type, priority, golden).validator = NoWorker
  BY DEF NewTask
<1>4. /\ [old EXCEPT !.status = "pending", !.worker = NoWorker].worker = NoWorker
      /\ [old EXCEPT !.status = "pending", !.worker = NoWorker].validator = old.validator
      /\ [old EXCEPT !.lease = "lapsed"].worker = old.worker
      /\ [old EXCEPT !.lease = "lapsed"].validator = old.validator
  BY DEF TaskRow
<1>5. CASE \/ new = old
           \/ new = AfterExpiry(old)
           \/ \E u : new = AfterBan(u, old)
           \/ \E type, priority, golden : new = NewTask(type, priority, golden)
           \/ new = [old EXCEPT !.status = "pending", !.worker = NoWorker]
           \/ new = [old EXCEPT !.lease = "lapsed"]
  <2>1. new.worker \in {old.worker, NoWorker} /\ new.validator \in {old.validator, NoWorker}
    <3>1. CASE new = AfterExpiry(old)
      BY <1>1, <3>1
    <3>2. CASE \E u : new = AfterBan(u, old)
      BY <1>2, <3>2
    <3>3. CASE \E type, priority, golden : new = NewTask(type, priority, golden)
      BY <1>3, <3>3
    <3>4. QED BY <1>4, <1>5, <3>1, <3>2, <3>3
  <2>2. QED BY <2>1
<1>6. ASSUME NEW u \in Workers, Admitted(u),
             \/ new = [old EXCEPT !.status = "validating", !.validator = u, !.lease = "live"]
             \/ new = [old EXCEPT !.status = "assigned", !.worker = u, !.lease = "live"]
      PROVE  /\ new.worker = w => old.worker = w
             /\ new.validator = w => old.validator = w
  <2>1. CASE new = [old EXCEPT !.status = "validating", !.validator = u, !.lease = "live"]
    <3>1. new.worker = old.worker /\ new.validator = u
      BY <2>1 DEF TaskRow
    <3>2. QED BY <1>6, <3>1
  <2>2. CASE new = [old EXCEPT !.status = "assigned", !.worker = u, !.lease = "live"]
    <3>1. new.worker = u /\ new.validator = old.validator
      BY <2>2 DEF TaskRow
    <3>2. QED BY <1>6, <3>1
  <2>3. QED BY <1>6, <2>1, <2>2
<1>7. ASSUME NEW answer \in Answers,
              new = [old EXCEPT !.status = "submitted_A", !.result = answer, !.lease = "none"]
       PROVE  /\ new.worker = w => old.worker = w
              /\ new.validator = w => old.validator = w
  <2>1. new.worker = old.worker /\ new.validator = old.validator
    BY <1>7 DEF TaskRow
  <2>2. QED BY <2>1
<1>8. QED BY <1>5, <1>6, <1>7, Zenon DEF QuietChange

(***************************************************************************)
(* A banned worker is given no new task.                                   *)
(***************************************************************************)
THEOREM BannedWorkersGetNoTask == Spec => BannedGetNoTask
<1>1. ASSUME IInv, [Next]_vars, NEW t \in TaskIds, NEW w \in Workers, worker[w].isBanned
      PROVE  /\ task'[t].worker = w => task[t].worker = w
             /\ task'[t].validator = w => task[t].validator = w
  <2>1. RowStep(t) /\ task[t] \in TaskRow
    BY <1>1, StepByRow DEF IInv, TypeOK
  <2>2. ASSUME NEW answer, Judged(task[t], task'[t], answer)
        PROVE  task'[t].worker = task[t].worker /\ task'[t].validator = task[t].validator
    BY <2>1, <2>2 DEF Judged, TaskRow
  <2>3. QED BY <1>1, <2>1, <2>2, QuietNamesAdmitted DEF RowStep, QuietStep, Admitted
<1>2. IInv /\ [Next]_vars =>
        [\A t \in TaskIds, w \in Workers : worker[w].isBanned =>
            /\ task'[t].worker = w => task[t].worker = w
            /\ task'[t].validator = w => task[t].validator = w]_vars
  BY <1>1
<1>3. QED BY <1>2, Invariant, PTL DEF Spec, BannedGetNoTask

-----------------------------------------------------------------------------
(* The pipeline implements the settlement.  A validation settles; every    *)
(* other request is a stutter, for which one more invariant is needed:     *)
(* register_worker writes an empty account and must not wipe out credits.  *)

\* A worker that has not registered has no credits, and no task names it.
NewcomersUnknown ==
  \A w \in Workers : ~Registered(w) =>
    /\ account[w].balance = 0
    /\ \A t \in TaskIds : w \notin {task[t].worker, task[t].validator}

NobodyJudges == \A w \in Workers : ~Judging(w)

-----------------------------------------------------------------------------
(* Newcomers *)

LEMMA RegisteredStays ==
  ASSUME TypeOK, [Next]_vars, NEW w \in Workers, Registered(w)
  PROVE  Registered(w)'
<1> USE DEF Registered, TypeOK
<1>1. CASE worker' = worker
  BY <1>1
<1>2. ASSUME NEW v \in Workers, WorkerRequest(v) PROVE Registered(w)'
  <2>1. ASSUME NEW status \in WorkerStatus, worker' = [worker EXCEPT ![v].status = status]
        PROVE  Registered(w)'
    BY <2>1 DEF WorkerRow, WorkerStatus
  <2>2. CASE RegisterWorker(v)
    BY <2>2 DEF RegisterWorker
  <2>3. CASE \E status \in StatusInputs : UpdateWorkerStatus(v, status)
    BY <2>1, <2>3, PipelineAssumption DEF UpdateWorkerStatus, SettableStatus
  <2>4. CASE \/ Heartbeat(v) \/ GetNextTask(v)
             \/ \E t \in TaskIds, answer \in Answers : SubmitResult(v, t, answer)
    <3>1. PICK status \in WorkerStatus : worker' = [worker EXCEPT ![v].status = status]
      BY <2>4 DEF Heartbeat, GetNextTask, ClaimValidation, ClaimExecution, FindNothing, SubmitResult,
                  WorkerStatus
    <3>2. QED BY <2>1, <3>1
  <2>5. ASSUME NEW t \in TaskIds, NEW answer \in Answers, ValidateTask(v, t, answer)
        PROVE  Registered(w)'
    <3>1. worker' = [worker EXCEPT ![task[t].worker].status = "idle", ![v].status = "idle"]
      BY <2>5 DEF ValidateTask
    <3>2. QED BY <3>1 DEF WorkerRow
  <2>6. QED
    BY <1>1, <1>2, <2>2, <2>3, <2>4, <2>5 DEF WorkerRequest, SubmitTooLate
<1>3. CASE AdminRequest
  <2>1. worker'[w] = worker[w] \/ worker'[w].status \in {"banned", "idle", "offline"}
    BY <1>3 DEF AdminRequest, ExpireStaleLeases, BanWorker, UnbanWorker, AutoBanColluders,
         CleanupStaleWorkers, ResetReputation, WorkerRow
  <2>2. QED BY <2>1
<1>4. QED
  BY <1>1, <1>2, <1>3 DEF Next, ClientRequest, CreateTask, LeaseLapses, vars

\* No request but a validation moves money.
LEMMA FundsKept ==
  ASSUME TypeOK, NewcomersUnknown, [Next]_vars, NobodyJudges, NEW w \in Workers
  PROVE  account'[w].balance = account[w].balance
<1>1. CASE account' = account
  BY <1>1
<1>2. ASSUME NEW v \in Workers, RegisterWorker(v)
      PROVE  account'[w].balance = account[w].balance
  <2>1. v # w => account'[w] = account[w]
    BY <1>2 DEF RegisterWorker, TypeOK
  <2>2. v = w => account'[w].balance = 0 /\ account[w].balance = 0
    BY <1>2 DEF RegisterWorker, NewAccount, NewcomersUnknown, TypeOK
  <2>3. QED BY <2>1, <2>2
<1>3. ASSUME NEW v \in Workers, NEW reputation \in ResetValues, ResetReputation(v, reputation)
      PROVE  account'[w].balance = account[w].balance
  <2>1. account' = [account EXCEPT ![v].reputation = reputation]
    BY <1>3 DEF ResetReputation
  <2>2. account \in [Workers -> AccountRow]
    BY DEF TypeOK
  <2>3. QED BY <2>1, <2>2 DEF AccountRow
<1>4. CASE \E v \in Workers : WorkerRequest(v)
  BY <1>1, <1>2, <1>4 DEF NobodyJudges, Judging, WorkerRequest, Heartbeat, UpdateWorkerStatus,
       GetNextTask, ClaimValidation, ClaimExecution, FindNothing, SubmitResult, SubmitTooLate
<1>5. CASE AdminRequest
  BY <1>1, <1>3, <1>5 DEF AdminRequest, ExpireStaleLeases, BanWorker, UnbanWorker,
       AutoBanColluders, CleanupStaleWorkers
<1>6. QED
  BY <1>1, <1>4, <1>5 DEF Next, ClientRequest, CreateTask, LeaseLapses, vars

LEMMA NewcomersNext ==
  ASSUME IInv, NewcomersUnknown, [Next]_vars
  PROVE  NewcomersUnknown'
<1>1. ASSUME NEW w \in Workers, ~Registered(w)'
      PROVE  /\ account'[w].balance = 0
             /\ \A t \in TaskIds : w \notin {task'[t].worker, task'[t].validator}
  <2>1. ~Registered(w) /\ ~Admitted(w) /\ TypeOK
    BY <1>1, RegisteredStays DEF Admitted, IInv
  <2>2. /\ account[w].balance = 0
        /\ \A t \in TaskIds : w \notin {task[t].worker, task[t].validator}
    BY <2>1 DEF NewcomersUnknown
  <2>3. ASSUME NEW t \in TaskIds
        PROVE  w \notin {task'[t].worker, task'[t].validator}
    <3>1. RowStep(t) /\ task[t] \in TaskRow
      BY <2>1, StepByRow DEF TypeOK
    <3>2. ASSUME NEW answer, Judged(task[t], task'[t], answer)
          PROVE  task'[t].worker = task[t].worker /\ task'[t].validator = task[t].validator
      BY <3>1, <3>2 DEF Judged, TaskRow
    <3>3. QED BY <2>1, <2>2, <3>1, <3>2, QuietNamesAdmitted DEF RowStep, QuietStep
  <2>4. account'[w].balance = account[w].balance
    <3>1. CASE NobodyJudges
      BY <2>1, <3>1, FundsKept
    <3>2. ASSUME NEW v \in Workers, NEW t \in TaskIds, NEW answer \in Answers, ValidateTask(v, t, answer)
          PROVE  account'[w].balance = account[w].balance
      <4>1. w # task[t].worker /\ w # task[t].validator
        BY <2>2
      <4>2. account' = Credited(account, task[t], Verdict(task[t], answer))
        BY <3>2 DEF ValidateTask
      <4>3. account'[w] = account[w]
        BY <2>1, <4>1, <4>2 DEF Credited, TypeOK
      <4>4. QED BY <4>3
    <3>3. QED BY <3>1, <3>2 DEF NobodyJudges, Judging
  <2>5. QED BY <2>2, <2>3, <2>4
<1>2. QED BY <1>1 DEF NewcomersUnknown

LEMMA NewcomersInit == Init => NewcomersUnknown
<1>1. ASSUME Init, NEW w \in Workers, NEW t \in TaskIds
      PROVE  account[w].balance = 0 /\ task[t].worker = NoWorker /\ task[t].validator = NoWorker
  BY <1>1 DEF Init, NewAccount, AbsentTask, NewTask
<1>2. QED BY <1>1, PipelineAssumption DEF NewcomersUnknown, Init, NewAccount

-----------------------------------------------------------------------------
(* The simulation *)

LEMMA QuietStutters ==
  ASSUME NEW old \in TaskRow, NEW new, QuietChange(old, new)
  PROVE  SettledAs(new) = SettledAs(old)
<1>1. CASE old.status \in Finished
  BY <1>1, FinishedIsQuiet
<1>2. CASE old.status \notin Finished
  BY <1>2, QuietNeverFinishes DEF SettledAs
<1>3. QED BY <1>1, <1>2

Settled == [t \in TaskIds |-> SettledAs(task[t])]

Funds == [w \in Workers |-> account[w].balance]

LEMMA StutterStep ==
  ASSUME IInv, NewcomersUnknown, [Next]_vars, NobodyJudges
  PROVE  UNCHANGED <<Settled, transactions, Funds>>
<1>1. TypeOK /\ TypeOK'
  BY NextTypeOK DEF IInv
<1>2. ASSUME NEW t \in TaskIds
      PROVE  SettledAs(task[t])' = SettledAs(task[t]) /\ transactions'[t] = transactions[t]
  <2>1. QuietStep(t) /\ task[t] \in TaskRow
    BY <1>1, QuietByRow DEF NobodyJudges, TypeOK
  <2>2. SettledAs(task'[t]) = SettledAs(task[t])
    BY <2>1, QuietStutters DEF QuietStep
  <2>3. QED BY <2>1, <2>2 DEF QuietStep
<1>3. Settled' = Settled
  BY <1>2 DEF Settled
<1>4. transactions' = transactions
  BY <1>1, <1>2 DEF TypeOK
<1>5. Funds' = Funds
  BY <1>1, FundsKept DEF Funds
<1>6. QED BY <1>3, <1>4, <1>5

LEMMA RewardIsCodeReward == ASSUME NEW type PROVE TaskReward(type) \in CodeRewards
  BY DEF TaskReward, CodeRewards

\* What a validation does to the four tables, as the settlement sees them.
LEMMA ValidationSettles ==
  ASSUME IInv, NEW w \in Workers, NEW t \in TaskIds, NEW answer \in Answers,
         ValidateTask(w, t, answer)
  PROVE  LET a == task[t].worker
             verdict == Verdict(task[t], answer)
         IN
         /\ a \in Workers /\ a # w /\ Settled[t] = [verdict |-> "open"]
         /\ Settled' = [Settled EXCEPT ![t] =
              [verdict |-> IF verdict = "match" THEN "done" ELSE "rejected",
               executor |-> a, validator |-> w]]
         /\ transactions' = [transactions EXCEPT ![t] = Payments(task[t], verdict)]
         /\ Funds' = [Funds EXCEPT
              ![a] = ExecutorAccount(account[a], task[t], verdict).balance,
              ![w] = ValidatorAccount(account[w], task[t], verdict).balance]
<1> DEFINE row == task[t]
           a == task[t].worker
           verdict == Verdict(task[t], answer)
<1>1. TypeOK /\ row \in TaskRow
  BY DEF IInv, TypeOK
<1>2. a \in Workers /\ row.validator = w /\ row.status = "validating"
  BY DEF ValidateTask
<1>3. a # w
  BY <1>2, PipelineAssumption DEF IInv, IndependentValidation, TwoDifferentTiers
<1>4. /\ task' = [task EXCEPT ![t] = AsJudged(row, verdict)]
      /\ account' = Credited(account, row, verdict)
      /\ transactions' = [transactions EXCEPT ![t] = transactions[t] \o Payments(row, verdict)]
  BY DEF ValidateTask
<1>5. Settled[t] = [verdict |-> "open"]
  BY <1>2 DEF Settled, SettledAs, Finished
<1>6. Settled' = [Settled EXCEPT ![t] =
        [verdict |-> IF verdict = "match" THEN "done" ELSE "rejected",
         executor |-> a, validator |-> w]]
  <2> DEFINE new == AsJudged(row, verdict)
  <2>1. /\ new.status = IF verdict = "match" THEN "done" ELSE "rejected"
        /\ new.worker = a /\ new.validator = w
    BY <1>1, <1>2 DEF AsJudged, TaskRow
  <2>2. SettledAs(new) = [verdict |-> IF verdict = "match" THEN "done" ELSE "rejected",
                          executor |-> a, validator |-> w]
    BY <2>1 DEF SettledAs, Finished
  <2> HIDE DEF new
  <2>3. \A u \in TaskIds : task'[u] = IF u = t THEN new ELSE task[u]
    BY <1>1, <1>4 DEF TypeOK, new
  <2>4. \A u \in TaskIds : SettledAs(task'[u]) = IF u = t THEN SettledAs(new) ELSE SettledAs(task[u])
    BY <2>3
  <2>5. Settled' = [u \in TaskIds |-> SettledAs(task'[u])]
    BY DEF Settled
  <2>6. QED BY <2>2, <2>4, <2>5 DEF Settled
<1>7. transactions' = [transactions EXCEPT ![t] = Payments(row, verdict)]
  <2>1. transactions[t] = << >>
    BY <1>2 DEF IInv, PaidExactlyOnce, OwedFor
  <2>2. Payments(row, verdict) \in Seq(TransactionRow)
    BY <1>1, <1>2, PaymentsType
  <2>3. << >> \o Payments(row, verdict) = Payments(row, verdict)
    BY <2>2
  <2>4. QED BY <1>4, <2>1, <2>3
<1>8. Funds' = [Funds EXCEPT
        ![a] = ExecutorAccount(account[a], row, verdict).balance,
        ![w] = ValidatorAccount(account[w], row, verdict).balance]
  <2> DEFINE ea == ExecutorAccount(account[a], row, verdict)
             va == ValidatorAccount(account[w], row, verdict)
  <2>1. account' = [account EXCEPT ![a] = ea, ![w] = va]
    BY <1>1, <1>2, <1>3, <1>4 DEF Credited, TypeOK
  <2> HIDE DEF ea, va, a
  <2>2. \A v \in Workers : account'[v] = IF v = w THEN va ELSE IF v = a THEN ea ELSE account[v]
    BY <1>1, <2>1 DEF TypeOK
  <2>3. Funds' = [v \in Workers |-> account'[v].balance]
    BY DEF Funds
  <2>4. [Funds EXCEPT ![a] = ea.balance, ![w] = va.balance]
          = [v \in Workers |-> IF v = w THEN va.balance ELSE IF v = a THEN ea.balance
                               ELSE account[v].balance]
    BY DEF Funds
  <2>5. \A v \in Workers : account'[v].balance
          = IF v = w THEN va.balance ELSE IF v = a THEN ea.balance ELSE account[v].balance
    BY <2>2
  <2>6. QED BY <2>3, <2>4, <2>5 DEF ea, va
<1>9. QED BY <1>2, <1>3, <1>5, <1>6, <1>7, <1>8

\* The balances after a verdict.
LEMMA Balances ==
  ASSUME NEW acct \in AccountRow, NEW row \in TaskRow, NEW verdict
  PROVE  /\ ExecutorAccount(acct, row, verdict).balance =
              IF verdict = "match" THEN acct.balance + TaskReward(row.type) ELSE acct.balance
         /\ ValidatorAccount(acct, row, verdict).balance =
              CASE verdict = "golden_failed" -> acct.balance
                [] verdict = "match" -> acct.balance + ValidatorReward(row.type)
                [] OTHER -> acct.balance + 10
  BY DEF ExecutorAccount, ValidatorAccount, AccountRow

LEMMA SettleStep ==
  ASSUME IInv, NEW w \in Workers, NEW t \in TaskIds, NEW answer \in Answers,
         ValidateTask(w, t, answer)
  PROVE  Market!Settle(t, task[t].worker, w)
<1> DEFINE row == task[t]
           a == task[t].worker
           verdict == Verdict(task[t], answer)
           settlement == [verdict |-> IF verdict = "match" THEN "done" ELSE "rejected",
                          executor |-> a, validator |-> w]
<1>1. /\ a \in Workers /\ a # w /\ Settled[t] = [verdict |-> "open"]
      /\ Settled' = [Settled EXCEPT ![t] = settlement]
      /\ transactions' = [transactions EXCEPT ![t] = Payments(row, verdict)]
      /\ Funds' = [Funds EXCEPT
              ![a] = ExecutorAccount(account[a], row, verdict).balance,
              ![w] = ValidatorAccount(account[w], row, verdict).balance]
  BY ValidationSettles
<1>2. /\ row \in TaskRow /\ row.validator = w
      /\ account[a] \in AccountRow /\ account[w] \in AccountRow
      /\ Funds \in [Workers -> Nat] /\ Funds[a] = account[a].balance /\ Funds[w] = account[w].balance
  BY <1>1 DEF IInv, TypeOK, ValidateTask, Funds, AccountRow
<1>3. transactions[t] = << >> /\ transactions \in [TaskIds -> Seq(TransactionRow)]
  BY DEF IInv, TypeOK, PaidExactlyOnce, OwedFor, ValidateTask
<1>4. CASE verdict = "match"
  <2>1. PICK reward \in CodeRewards : reward = TaskReward(row.type)
    BY RewardIsCodeReward
  <2>2. ValidatorReward(row.type) = Market!ValidatorShare(reward)
    BY <2>1 DEF ValidatorReward, Market!ValidatorShare
  <2>3. Funds' = [Funds EXCEPT ![a] = Funds[a] + reward, ![w] = Funds[w] + ValidatorReward(row.type)]
    <3>1. /\ ExecutorAccount(account[a], row, verdict).balance = Funds[a] + reward
          /\ ValidatorAccount(account[w], row, verdict).balance = Funds[w] + ValidatorReward(row.type)
      BY <1>2, <1>4, <2>1, Balances
    <3>2. QED BY <1>1, <3>1
  <2>4. Payments(row, verdict) =
          << [worker |-> a, kind |-> "reward", amount |-> reward],
             [worker |-> w, kind |-> "reward", amount |-> ValidatorReward(row.type)] >>
    BY <1>2, <1>4, <2>1 DEF Payments
  <2> HIDE DEF a, verdict
  <2>5. Market!Accept(t, a, w, reward)
    BY <1>1, <1>2, <1>4, <2>2, <2>3, <2>4 DEF Market!Accept, Market!Settlement, Settled, Funds
  <2>6. QED BY <1>1, <2>5 DEF Market!Settle, Market!Open, Settled, a
<1>5. CASE verdict = "mismatch"
  <2>1. Funds' = [Funds EXCEPT ![w] = Funds[w] + 10]
    <3>1. /\ ExecutorAccount(account[a], row, verdict).balance = Funds[a]
          /\ ValidatorAccount(account[w], row, verdict).balance = Funds[w] + 10
      BY <1>2, <1>5, Balances
    <3>2. Funds' = [Funds EXCEPT ![a] = Funds[a], ![w] = Funds[w] + 10]
      BY <1>1, <3>1
    <3>3. QED BY <1>2, <3>2
  <2>2. Payments(row, verdict) = << [worker |-> w, kind |-> "bonus", amount |-> 10] >>
    BY <1>2, <1>5 DEF Payments
  <2> HIDE DEF a, verdict
  <2>3. Market!RejectMismatch(t, a, w)
    BY <1>1, <1>2, <1>5, <2>1, <2>2
       DEF Market!RejectMismatch, Market!Settlement, Market!CaughtMismatchBonus, Settled, Funds
  <2>4. QED BY <1>1, <2>3 DEF Market!Settle, Market!Open, Settled, a
<1>6. CASE verdict = "golden_failed"
  <2>1. Funds' = Funds
    BY <1>1, <1>2, <1>6, Balances
  <2>2. transactions' = transactions
    BY <1>1, <1>3, <1>6 DEF Payments
  <2> HIDE DEF a, verdict
  <2>3. Market!RejectGolden(t, a, w)
    BY <1>1, <1>6, <2>1, <2>2 DEF Market!RejectGolden, Market!Settlement, Settled, Funds
  <2>4. QED BY <1>1, <2>3 DEF Market!Settle, Market!Open, Settled, a
<1>7. QED BY <1>4, <1>5, <1>6, VerdictType DEF Verdicts

LEMMA Simulation ==
  ASSUME IInv, NewcomersUnknown, [Next]_vars
  PROVE  [Market!SettlementNext]_<<Settled, transactions, Funds>>
<1>1. CASE NobodyJudges
  BY <1>1, StutterStep
<1>2. ASSUME NEW w \in Workers, NEW t \in TaskIds, NEW answer \in Answers, ValidateTask(w, t, answer)
      PROVE  Market!SettlementNext
  <2>1. Market!Settle(t, task[t].worker, w) /\ task[t].worker \in Workers
    BY <1>2, SettleStep DEF ValidateTask
  <2>2. QED BY <2>1 DEF Market!SettlementNext
<1>3. QED BY <1>1, <1>2 DEF NobodyJudges, Judging

LEMMA SettlementStarts == Init => Market!SettlementInit
<1> SUFFICES ASSUME Init PROVE Market!SettlementInit
  OBVIOUS
<1>1. \A t \in TaskIds : SettledAs(task[t]) = [verdict |-> "open"]
  BY DEF Init, SettledAs, AbsentTask, NewTask, Finished
<1>2. \A w \in Workers : account[w].balance = 0
  BY DEF Init, NewAccount
<1>3. QED BY <1>1, <1>2 DEF Market!SettlementInit, Market!Open, Init

(***************************************************************************)
(* The pipeline keeps its promise to the users: whatever workers, admins   *)
(* and clients ask in whatever order, money moves only when a task is      *)
(* settled between two different workers, once and as its verdict says     *)
(* (validate_task); no registration, ban, expiry or reset moves any.       *)
(***************************************************************************)
THEOREM PipelineImplementsSettlement == Spec => ImplementsSettlement
<1>1. IInv /\ NewcomersUnknown /\ [Next]_vars => NewcomersUnknown'
  BY NewcomersNext
<1>2. IInv /\ NewcomersUnknown /\ [Next]_vars => [Market!SettlementNext]_Market!settlementVars
  BY Simulation DEF Market!settlementVars, Settled, Funds
<1>3. QED
  BY <1>1, <1>2, Invariant, NewcomersInit, SettlementStarts, PTL
  DEF Spec, ImplementsSettlement, Market!SettlementSpec

-----------------------------------------------------------------------------
(* The balances and the ledger *)

\* What one row, the rows of one task and all rows of a table paid to w.
Share(row, w) == IF row.worker = w THEN row.amount ELSE 0

PaidOut(pay, d, w) == MapThenSumSet(LAMBDA i : Share(pay[i], w), d)

EarnedIn(table, w) == MapThenSumSet(LAMBDA t : PaidOut(table[t], DOMAIN table[t], w), TaskIds)

\* The same summands as functions, for the lemmas of FiniteSums.
Paid(pay, d, w) == [i \in d |-> Share(pay[i], w)]

PaidPerTask(table, w) == [t \in TaskIds |-> PaidOut(table[t], DOMAIN table[t], w)]

\* EarnedBy in a state and after a step: a sum over that table.
LEMMA EarnedNow == ASSUME NEW w PROVE EarnedBy(w) = EarnedIn(transactions, w)
  BY DEF EarnedBy, EarnedIn, PaidOut, Share, MapThenSumSet, MapThenFoldSet

LEMMA EarnedNext == ASSUME NEW w PROVE EarnedBy(w)' = EarnedIn(transactions', w)
  BY DEF EarnedBy, EarnedIn, PaidOut, Share, MapThenSumSet, MapThenFoldSet

LEMMA PaidOutIsSum ==
  ASSUME NEW pay, NEW d, IsFiniteSet(d), NEW w
  PROVE  PaidOut(pay, d, w) = SumOver(Paid(pay, d, w), d)
<1>1. PICK f : f = Paid(pay, d, w)
  OBVIOUS
<1>2. PICK g : IsSumTable(g, f, d) /\ SumOver(f, d) = g[d]
  BY SumTableUnfold
<1>3. PICK h : IsSumTable(h, f, d) /\ PaidOut(pay, d, w) = h[d]
  <2>1. \A x \in d : f[x] = Share(pay[x], w)
    BY <1>1 DEF Paid
  <2>2. \A s \in SUBSET d : s # {} => Chosen(s) \in d
    BY DEF Chosen
  <2>3. \A k : IsSumTable(k, f, d) <=>
          k = [s \in SUBSET d |->
                 IF s = {} THEN 0 ELSE Share(pay[Chosen(s)], w) + k[s \ {Chosen(s)}]]
    BY <2>1, <2>2 DEF IsSumTable
  <2>4. QED
    BY <1>2, <2>3 DEF PaidOut, MapThenSumSet, MapThenFoldSet, Chosen
<1>4. g[d] = h[d]
  BY <1>2, <1>3, SumTableAgrees
<1>5. QED BY <1>1, <1>2, <1>3, <1>4

LEMMA TaskIdsFinite == IsFiniteSet(TaskIds)
  BY PipelineAssumption, FS_Interval DEF TaskIds

LEMMA EarnedIsSum ==
  ASSUME NEW table, NEW w
  PROVE  EarnedIn(table, w) = SumOver(PaidPerTask(table, w), TaskIds)
<1>1. PICK f : f = PaidPerTask(table, w)
  OBVIOUS
<1>2. PICK g : IsSumTable(g, f, TaskIds) /\ SumOver(f, TaskIds) = g[TaskIds]
  BY TaskIdsFinite, SumTableUnfold
<1>3. PICK h : IsSumTable(h, f, TaskIds) /\ EarnedIn(table, w) = h[TaskIds]
  <2>1. \A t \in TaskIds : f[t] = PaidOut(table[t], DOMAIN table[t], w)
    BY <1>1 DEF PaidPerTask
  <2>2. \A s \in SUBSET TaskIds : s # {} => Chosen(s) \in TaskIds
    BY DEF Chosen
  <2>3. \A k : IsSumTable(k, f, TaskIds) <=>
          k = [s \in SUBSET TaskIds |->
                 IF s = {} THEN 0
                 ELSE PaidOut(table[Chosen(s)], DOMAIN table[Chosen(s)], w) + k[s \ {Chosen(s)}]]
    BY <2>1, <2>2 DEF IsSumTable
  <2>4. QED
    BY <1>2, <2>3 DEF EarnedIn, MapThenSumSet, MapThenFoldSet, Chosen
<1>4. g[TaskIds] = h[TaskIds]
  BY <1>2, <1>3, TaskIdsFinite, SumTableAgrees
<1>5. QED BY <1>1, <1>2, <1>3, <1>4

\* What the rows of one task pay is a number of thousandths.
LEMMA PaidOutType ==
  ASSUME NEW pay \in Seq(TransactionRow), NEW w
  PROVE  PaidOut(pay, DOMAIN pay, w) \in Nat
<1>1. DOMAIN pay = 1 .. Len(pay) /\ Len(pay) \in Nat
  BY LenProperties
<1>2. IsFiniteSet(DOMAIN pay)
  BY <1>1, FS_Interval
<1>3. PICK F : F = Paid(pay, DOMAIN pay, w)
  OBVIOUS
<1>4. ASSUME NEW i \in DOMAIN pay PROVE F[i] \in Nat
  <2>1. pay[i] \in TransactionRow
    BY <1>1, ElementOfSeq
  <2>2. pay[i].amount \in Nat
    BY <2>1 DEF TransactionRow
  <2>3. QED BY <1>3, <2>2 DEF Paid, Share
<1>5. SumOver(F, DOMAIN pay) \in Nat
  BY <1>2, <1>4, SumNatural
<1>6. QED BY <1>2, <1>3, <1>5, PaidOutIsSum

\* The rows of one task are replaced.
LEMMA EarnedReplaced ==
  ASSUME NEW table \in [TaskIds -> Seq(TransactionRow)], NEW t \in TaskIds,
         NEW pay \in Seq(TransactionRow), NEW w
  PROVE  /\ EarnedIn(table, w) \in Nat
         /\ EarnedIn([table EXCEPT ![t] = pay], w) =
              EarnedIn(table, w) + (PaidOut(pay, DOMAIN pay, w) - PaidOut(table[t], DOMAIN table[t], w))
<1> DEFINE new == [table EXCEPT ![t] = pay]
<1>1. new \in [TaskIds -> Seq(TransactionRow)] /\ new[t] = pay /\ \A u \in TaskIds \ {t} : new[u] = table[u]
  OBVIOUS
<1> HIDE DEF new
<1>2. PICK F : F = PaidPerTask(table, w)
  OBVIOUS
<1>3. PICK G : G = PaidPerTask(new, w)
  OBVIOUS
<1>4. /\ \A u \in TaskIds : F[u] \in Nat /\ G[u] \in Nat
      /\ \A u \in TaskIds \ {t} : G[u] = F[u]
  <2>1. \A u \in TaskIds : F[u] = PaidOut(table[u], DOMAIN table[u], w) /\ table[u] \in Seq(TransactionRow)
    BY <1>2 DEF PaidPerTask
  <2>2. \A u \in TaskIds : G[u] = PaidOut(new[u], DOMAIN new[u], w) /\ new[u] \in Seq(TransactionRow)
    BY <1>1, <1>3 DEF PaidPerTask
  <2>3. QED BY <1>1, <2>1, <2>2, PaidOutType
<1>5. F[t] = PaidOut(table[t], DOMAIN table[t], w) /\ G[t] = PaidOut(pay, DOMAIN pay, w)
  BY <1>1, <1>2, <1>3 DEF PaidPerTask
<1>6. SumOver(G, TaskIds) = SumOver(F, TaskIds) + (G[t] - F[t])
  <2>1. \A u \in TaskIds : F[u] \in Int /\ G[u] \in Int
    BY <1>4
  <2>2. \A u \in TaskIds \ {t} : G[u] = F[u]
    BY <1>4
  <2>3. QED BY <2>1, <2>2, TaskIdsFinite, SumChanged
<1>7. SumOver(F, TaskIds) \in Nat
  BY <1>4, TaskIdsFinite, SumNatural
<1>8. EarnedIn(table, w) = SumOver(F, TaskIds) /\ EarnedIn(new, w) = SumOver(G, TaskIds)
  BY <1>2, <1>3, EarnedIsSum
<1>9. QED BY <1>5, <1>6, <1>7, <1>8 DEF new

\* A payment history written for a task that had none.
LEMMA EarnedGrows ==
  ASSUME NEW table \in [TaskIds -> Seq(TransactionRow)], NEW t \in TaskIds, table[t] = << >>,
         NEW pay \in Seq(TransactionRow), NEW w
  PROVE  /\ EarnedIn(table, w) \in Int
         /\ EarnedIn([table EXCEPT ![t] = pay], w) = EarnedIn(table, w) + PaidOut(pay, DOMAIN pay, w)
<1>1. PaidOut(<< >>, DOMAIN << >>, w) = 0
  <2>1. DOMAIN << >> = {} /\ IsFiniteSet({})
    BY FS_EmptySet
  <2>2. SumOver(Paid(<< >>, {}, w), {}) = 0
    BY SumEmpty
  <2>3. PaidOut(<< >>, {}, w) = 0
    BY <2>1, <2>2, PaidOutIsSum
  <2>4. QED BY <2>1, <2>3
<1>2. PICK after, due, nothing : /\ after = EarnedIn([table EXCEPT ![t] = pay], w)
                                /\ due = PaidOut(pay, DOMAIN pay, w)
                                /\ nothing = PaidOut(table[t], DOMAIN table[t], w)
  OBVIOUS
<1>3. due \in Nat /\ nothing = 0
  BY <1>1, <1>2, PaidOutType
<1>4. EarnedIn(table, w) \in Nat /\ after = EarnedIn(table, w) + (due - nothing)
  BY <1>2, EarnedReplaced
<1>5. QED BY <1>2, <1>3, <1>4

\* What a verdict owes to w.
Due(row, verdict, w) ==
  CASE verdict = "match" /\ w = row.worker    -> TaskReward(row.type)
    [] verdict = "match" /\ w = row.validator -> ValidatorReward(row.type)
    [] verdict = "mismatch" /\ w = row.validator -> 10
    [] OTHER -> 0

\* The rows a verdict inserts pay each worker what is due...
LEMMA PaymentsAreDue ==
  ASSUME NEW row \in TaskRow, row.worker \in Workers, row.validator \in Workers,
         row.worker # row.validator, NEW verdict \in Verdicts, NEW w
  PROVE  PaidOut(Payments(row, verdict), DOMAIN Payments(row, verdict), w) = Due(row, verdict, w)
<1>1. PICK pay : pay = Payments(row, verdict)
  OBVIOUS
<1>2. PICK d : d = DOMAIN pay
  OBVIOUS
<1>3. PICK F : F = Paid(pay, d, w)
  OBVIOUS
<1>4. TaskReward(row.type) \in Int /\ ValidatorReward(row.type) \in Int
  BY RewardType
<1>5. CASE verdict = "match"
  <2>1. pay = << [worker |-> row.worker, kind |-> "reward", amount |-> TaskReward(row.type)],
                 [worker |-> row.validator, kind |-> "reward", amount |-> ValidatorReward(row.type)] >>
    BY <1>1, <1>5 DEF Payments
  <2>2. d = {1, 2}
    <3>1. d = 1 .. 2
      BY <1>2, <2>1
    <3>2. QED BY <3>1
  <2>3. /\ F[1] = IF row.worker = w THEN TaskReward(row.type) ELSE 0
        /\ F[2] = IF row.validator = w THEN ValidatorReward(row.type) ELSE 0
    BY <1>3, <2>1, <2>2 DEF Paid, Share
  <2>4. IsFiniteSet(d) /\ SumOver(F, d) = F[1] + F[2]
    <3>1. F[1] \in Int /\ F[2] \in Int
      BY <1>4, <2>3
    <3>2. d = {2} \cup {1} /\ IsFiniteSet({2})
      BY <2>2, FS_Singleton
    <3>3. IsFiniteSet(d)
      BY <3>2, FS_AddElement
    <3>4. SumOver(F, {1, 2}) = F[1] + F[2]
      <4>1. PICK x, y : x = 1 /\ y = 2
        OBVIOUS
      <4>2. x # y /\ F[x] \in Int /\ F[y] \in Int
        BY <3>1, <4>1
      <4>3. SumOver(F, {x, y}) = F[x] + F[y]
        BY <4>2, SumTwo
      <4>4. QED BY <4>1, <4>3
    <3>5. QED BY <2>2, <3>3, <3>4
  <2>5. PaidOut(pay, d, w) = F[1] + F[2]
    BY <1>3, <2>4, PaidOutIsSum
  <2>6. F[1] + F[2] = Due(row, verdict, w)
    BY <1>4, <1>5, <2>3 DEF Due
  <2>7. QED BY <1>1, <1>2, <2>5, <2>6
<1>6. CASE verdict = "mismatch"
  <2>1. pay = << [worker |-> row.validator, kind |-> "bonus", amount |-> 10] >>
    BY <1>1, <1>6 DEF Payments
  <2>2. d = {1}
    <3>1. d = 1 .. 1
      BY <1>2, <2>1
    <3>2. QED BY <3>1
  <2>3. F[1] = IF row.validator = w THEN 10 ELSE 0
    BY <1>3, <2>1, <2>2 DEF Paid, Share
  <2>4. IsFiniteSet(d) /\ SumOver(F, d) = F[1]
    <3>1. PICK x : x = 1
      OBVIOUS
    <3>2. F[x] \in Int
      BY <2>3, <3>1
    <3>3. SumOver(F, {x}) = F[x]
      BY <3>2, SumOne
    <3>4. IsFiniteSet(d)
      BY <2>2, FS_Singleton
    <3>5. QED BY <2>2, <3>1, <3>3, <3>4
  <2>5. PaidOut(pay, d, w) = F[1]
    BY <1>3, <2>4, PaidOutIsSum
  <2>6. F[1] = Due(row, verdict, w)
    BY <1>6, <2>3 DEF Due
  <2>7. QED BY <1>1, <1>2, <2>5, <2>6
<1>7. CASE verdict = "golden_failed"
  <2>1. pay = << >> /\ d = {}
    BY <1>1, <1>2, <1>7 DEF Payments
  <2>2. IsFiniteSet(d) /\ SumOver(F, d) = 0
    BY <2>1, SumEmpty, FS_EmptySet
  <2>3. PaidOut(pay, d, w) = 0
    BY <1>3, <2>2, PaidOutIsSum
  <2>4. Due(row, verdict, w) = 0
    BY <1>7 DEF Due
  <2>5. QED BY <1>1, <1>2, <2>3, <2>4
<1>8. QED BY <1>5, <1>6, <1>7 DEF Verdicts

\* ... and so do the accounts, which the handler computes apart from the rows.
LEMMA VerdictPaysDue ==
  ASSUME NEW P, NEW accounts \in [P -> AccountRow], NEW row \in TaskRow,
         row.worker \in P, row.validator \in P, row.worker # row.validator,
         NEW verdict \in Verdicts, NEW w \in P
  PROVE  /\ Credited(accounts, row, verdict)[w].balance = accounts[w].balance + Due(row, verdict, w)
         /\ Credited(accounts, row, verdict)[w].completed =
              accounts[w].completed + (IF verdict = "match" /\ w = row.worker THEN 1 ELSE 0)
         /\ Credited(accounts, row, verdict)[w].failed =
              accounts[w].failed + (IF verdict # "match" /\ w = row.worker THEN 1 ELSE 0)
         /\ Credited(accounts, row, verdict)[w].validated =
              accounts[w].validated + (IF w = row.validator THEN 1 ELSE 0)
<1>1. PICK acct \in AccountRow : acct = accounts[w]
  OBVIOUS
<1>2. PICK new : new = Credited(accounts, row, verdict)[w]
  OBVIOUS
<1>3. /\ acct.balance \in Nat /\ acct.completed \in Nat /\ acct.failed \in Nat
      /\ acct.validated \in Nat
  BY AccountFields
<1>4. TaskReward(row.type) \in Nat /\ ValidatorReward(row.type) \in Nat
  BY RewardType
<1>5. CASE w = row.worker
  <2>1. new = ExecutorAccount(acct, row, verdict)
    BY <1>1, <1>2, <1>5 DEF Credited
  <2>2. /\ new.balance = IF verdict = "match" THEN acct.balance + TaskReward(row.type) ELSE acct.balance
        /\ new.completed = IF verdict = "match" THEN acct.completed + 1 ELSE acct.completed
        /\ new.failed = IF verdict = "match" THEN acct.failed ELSE acct.failed + 1
        /\ new.validated = acct.validated
    BY <2>1 DEF ExecutorAccount, AccountRow
  <2>3. Due(row, verdict, w) = IF verdict = "match" THEN TaskReward(row.type) ELSE 0
    BY <1>5 DEF Due
  <2>4. QED BY <1>1, <1>2, <1>3, <1>4, <1>5, <2>2, <2>3
<1>6. CASE w = row.validator
  <2>1. new = ValidatorAccount(acct, row, verdict)
    BY <1>1, <1>2, <1>6 DEF Credited
  <2>2. /\ new.balance = CASE verdict = "golden_failed" -> acct.balance
                           [] verdict = "match" -> acct.balance + ValidatorReward(row.type)
                           [] OTHER -> acct.balance + 10
        /\ new.completed = acct.completed /\ new.failed = acct.failed
        /\ new.validated = acct.validated + 1
    BY <2>1 DEF ValidatorAccount, AccountRow
  <2>3. Due(row, verdict, w) = CASE verdict = "match" -> ValidatorReward(row.type)
                                 [] verdict = "mismatch" -> 10
                                 [] OTHER -> 0
    BY <1>6 DEF Due
  <2>4. new.balance = acct.balance + Due(row, verdict, w)
    BY <1>3, <1>4, <2>2, <2>3 DEF Verdicts
  <2>5. QED BY <1>1, <1>2, <1>3, <1>6, <2>2, <2>4
<1>7. CASE w # row.worker /\ w # row.validator
  <2>1. new = acct
    BY <1>1, <1>2, <1>7 DEF Credited
  <2>2. Due(row, verdict, w) = 0
    BY <1>7 DEF Due
  <2>3. QED BY <1>1, <1>2, <1>3, <1>7, <2>1, <2>2
<1>8. QED BY <1>5, <1>6, <1>7

LEMMA LedgerNext ==
  ASSUME IInv, NewcomersUnknown, BalanceIsLedger, [Next]_vars
  PROVE  BalanceIsLedger'
<1>1. ASSUME NEW w \in Workers PROVE account'[w].balance = EarnedBy(w)'
  <2>1. account[w].balance = EarnedIn(transactions, w) /\ EarnedBy(w)' = EarnedIn(transactions', w)
    BY EarnedNow, EarnedNext DEF BalanceIsLedger
  <2>2. TypeOK
    BY DEF IInv
  <2>3. CASE NobodyJudges
    <3>1. transactions' = transactions
      BY <2>3, StutterStep
    <3>2. account'[w].balance = account[w].balance
      BY <2>2, <2>3, FundsKept
    <3>3. QED BY <2>1, <3>1, <3>2
  <2>4. ASSUME NEW v \in Workers, NEW t \in TaskIds, NEW answer \in Answers, ValidateTask(v, t, answer)
        PROVE  account'[w].balance = EarnedBy(w)'
    <3>1. PICK row : row = task[t]
      OBVIOUS
    <3>2. PICK verdict \in Verdicts : verdict = Verdict(task[t], answer)
      BY VerdictType
    <3>3. PICK pay : pay = Payments(row, verdict)
      OBVIOUS
    <3>4. /\ row \in TaskRow /\ row.worker \in Workers /\ row.validator = v
          /\ account' = Credited(account, row, verdict)
      BY <2>2, <2>4, <3>1, <3>2 DEF ValidateTask, TypeOK
    <3>5. row.worker # row.validator /\ transactions' = [transactions EXCEPT ![t] = pay]
      BY <2>4, <3>1, <3>2, <3>3, <3>4, ValidationSettles
    <3>6. transactions[t] = << >> /\ transactions \in [TaskIds -> Seq(TransactionRow)]
      BY <2>4 DEF IInv, TypeOK, PaidExactlyOnce, OwedFor, ValidateTask
    <3>7. pay \in Seq(TransactionRow)
      BY <3>3, <3>4, PaymentsType
    <3>8. /\ EarnedIn(transactions, w) \in Int
          /\ EarnedIn(transactions', w) = EarnedIn(transactions, w) + PaidOut(pay, DOMAIN pay, w)
      BY <3>5, <3>6, <3>7, EarnedGrows
    <3>9. PaidOut(pay, DOMAIN pay, w) = Due(row, verdict, w)
      BY <3>3, <3>4, <3>5, PaymentsAreDue
    <3>10. account'[w].balance = account[w].balance + Due(row, verdict, w)
      <4>1. account \in [Workers -> AccountRow] /\ row.validator \in Workers
        BY <2>2, <3>4 DEF TypeOK
      <4>2. Credited(account, row, verdict)[w].balance = account[w].balance + Due(row, verdict, w)
        BY ONLY <3>2, <3>4, <3>5, <4>1, VerdictPaysDue, w \in Workers
      <4>3. QED BY <3>4, <4>2
    <3>11. QED BY <2>1, <3>8, <3>9, <3>10
  <2>5. QED BY <2>3, <2>4 DEF NobodyJudges, Judging
<1>2. QED BY <1>1 DEF BalanceIsLedger

LEMMA LedgerInit == Init => BalanceIsLedger
<1>1. ASSUME Init, NEW w \in Workers PROVE account[w].balance = EarnedBy(w)
  <2>1. account[w].balance = 0 /\ \A t \in TaskIds : transactions[t] = << >>
    BY <1>1 DEF Init, NewAccount
  <2>2. PICK F : F = PaidPerTask(transactions, w)
    OBVIOUS
  <2>3. ASSUME NEW t \in TaskIds PROVE F[t] = 0
    <3>1. PaidOut(<< >>, {}, w) = 0
      BY FS_EmptySet, SumEmpty, PaidOutIsSum
    <3>2. DOMAIN transactions[t] = {}
      BY <2>1
    <3>3. QED BY <2>1, <2>2, <3>1, <3>2 DEF PaidPerTask
  <2>4. SumOver(F, TaskIds) = 0
    BY <2>3, TaskIdsFinite, SumZero
  <2>5. QED BY <2>1, <2>2, <2>4, EarnedNow, EarnedIsSum
<1>2. QED BY <1>1 DEF BalanceIsLedger

(***************************************************************************)
(* The balance a worker sees is the sum of the transaction rows that name  *)
(* it, for any number of workers and tasks.                                *)
(***************************************************************************)
THEOREM BalancesAreLedger == Spec => []BalanceIsLedger
<1>1. IInv /\ NewcomersUnknown /\ [Next]_vars => NewcomersUnknown'
  BY NewcomersNext
<1>2. IInv /\ NewcomersUnknown /\ BalanceIsLedger /\ [Next]_vars => BalanceIsLedger'
  BY LedgerNext
<1>3. QED
  BY <1>1, <1>2, Invariant, NewcomersInit, LedgerInit, PTL DEF Spec

-----------------------------------------------------------------------------
(* The counters *)

DoneFor(w) == {t \in TaskIds : task[t].status = "done" /\ task[t].worker = w}

RejectedFor(w) == {t \in TaskIds : task[t].status = "rejected" /\ task[t].worker = w}

JudgedBy(w) == {t \in TaskIds : task[t].status \in Finished /\ task[t].validator = w}

LEMMA CountsFinite ==
  ASSUME NEW w
  PROVE  /\ IsFiniteSet(DoneFor(w)) /\ IsFiniteSet(RejectedFor(w)) /\ IsFiniteSet(JudgedBy(w))
  BY TaskIdsFinite, FS_Subset DEF DoneFor, RejectedFor, JudgedBy

\* No request but a validation counts anything; a registration finds counters at zero.
LEMMA CountersKept ==
  ASSUME TypeOK, NewcomersUnknown, CountersMatchTasks, [Next]_vars, NobodyJudges, NEW w \in Workers
  PROVE  /\ account'[w].completed = account[w].completed
         /\ account'[w].failed = account[w].failed
         /\ account'[w].validated = account[w].validated
<1> DEFINE Kept == /\ account'[w].completed = account[w].completed
                   /\ account'[w].failed = account[w].failed
                   /\ account'[w].validated = account[w].validated
<1>1. CASE account' = account
  BY <1>1
<1>2. ASSUME NEW v \in Workers, RegisterWorker(v) PROVE Kept
  <2>1. v # w => account'[w] = account[w]
    BY <1>2 DEF RegisterWorker, TypeOK
  <2>2. CASE v = w
    <3>1. DoneFor(w) = {} /\ RejectedFor(w) = {} /\ JudgedBy(w) = {}
      BY <1>2, <2>2 DEF NewcomersUnknown, RegisterWorker, DoneFor, RejectedFor, JudgedBy
    <3>2. account[w].completed = 0 /\ account[w].failed = 0 /\ account[w].validated = 0
      BY <3>1, FS_EmptySet DEF CountersMatchTasks, DoneFor, RejectedFor, JudgedBy
    <3>3. account'[w] = NewAccount
      BY <1>2, <2>2 DEF RegisterWorker, TypeOK
    <3>4. QED BY <3>2, <3>3 DEF NewAccount
  <2>3. QED BY <2>1, <2>2
<1>3. ASSUME NEW v \in Workers, NEW reputation \in ResetValues, ResetReputation(v, reputation)
      PROVE  Kept
  <2>1. account' = [account EXCEPT ![v].reputation = reputation]
    BY <1>3 DEF ResetReputation
  <2>2. account \in [Workers -> AccountRow]
    BY DEF TypeOK
  <2>3. QED BY <2>1, <2>2 DEF AccountRow
<1>4. CASE \E v \in Workers : WorkerRequest(v)
  BY <1>1, <1>2, <1>4 DEF NobodyJudges, Judging, WorkerRequest, Heartbeat, UpdateWorkerStatus,
       GetNextTask, ClaimValidation, ClaimExecution, FindNothing, SubmitResult, SubmitTooLate
<1>5. CASE AdminRequest
  BY <1>1, <1>3, <1>5 DEF AdminRequest, ExpireStaleLeases, BanWorker, UnbanWorker,
       AutoBanColluders, CleanupStaleWorkers
<1>6. QED
  BY <1>1, <1>4, <1>5 DEF Next, ClientRequest, CreateTask, LeaseLapses, vars

\* What a step makes of the finished tasks.
LEMMA QuietKeepsCounts ==
  ASSUME IInv, [Next]_vars, NobodyJudges, NEW w
  PROVE  /\ DoneFor(w)' = DoneFor(w)
         /\ RejectedFor(w)' = RejectedFor(w)
         /\ JudgedBy(w)' = JudgedBy(w)
<1>1. ASSUME NEW t \in TaskIds PROVE SettledAs(task'[t]) = SettledAs(task[t])
  <2>1. QuietStep(t) /\ task[t] \in TaskRow
    BY QuietByRow DEF NobodyJudges, IInv, TypeOK
  <2>2. QED BY <2>1, QuietStutters DEF QuietStep
<1>2. ASSUME NEW t \in TaskIds
      PROVE  /\ task'[t].status \in Finished <=> task[t].status \in Finished
             /\ task[t].status \in Finished =>
                  /\ task'[t].status = task[t].status /\ task'[t].worker = task[t].worker
                  /\ task'[t].validator = task[t].validator
  <2>1. CASE task[t].status \in Finished
    <3>1. SettledAs(task'[t]).verdict = task[t].status /\ SettledAs(task'[t]).executor = task[t].worker
          /\ SettledAs(task'[t]).validator = task[t].validator
      BY <1>1, <2>1 DEF SettledAs
    <3>2. task'[t].status \in Finished
      BY <2>1, <3>1 DEF SettledAs, Finished
    <3>3. QED BY <2>1, <3>1, <3>2 DEF SettledAs
  <2>2. CASE task[t].status \notin Finished
    <3>1. SettledAs(task'[t]).verdict = "open"
      BY <1>1, <2>2 DEF SettledAs
    <3>2. QED BY <2>2, <3>1 DEF SettledAs, Finished
  <2>3. QED BY <2>1, <2>2
<1>3. "done" \in Finished /\ "rejected" \in Finished
  BY DEF Finished
<1>4. QED BY <1>2, <1>3 DEF DoneFor, RejectedFor, JudgedBy

LEMMA VerdictCounts ==
  ASSUME IInv, NEW v \in Workers, NEW t \in TaskIds, NEW answer \in Answers,
         ValidateTask(v, t, answer), NEW w
  PROVE  LET a == task[t].worker
             match == Verdict(task[t], answer) = "match"
         IN
         /\ t \notin DoneFor(w) \cup RejectedFor(w) \cup JudgedBy(w)
         /\ DoneFor(w)' = IF match /\ w = a THEN DoneFor(w) \cup {t} ELSE DoneFor(w)
         /\ RejectedFor(w)' = IF ~match /\ w = a THEN RejectedFor(w) \cup {t} ELSE RejectedFor(w)
         /\ JudgedBy(w)' = IF w = v THEN JudgedBy(w) \cup {t} ELSE JudgedBy(w)
<1>1. PICK row \in TaskRow : row = task[t]
  BY DEF IInv, TypeOK
<1>2. PICK verdict : verdict = Verdict(row, answer)
  OBVIOUS
<1>3. row.status = "validating" /\ row.validator = v /\ task \in [TaskIds -> TaskRow]
  BY <1>1 DEF ValidateTask, IInv, TypeOK
<1>4. PICK new : new = AsJudged(row, verdict)
  OBVIOUS
<1>5. /\ new.status = IF verdict = "match" THEN "done" ELSE "rejected"
      /\ new.worker = row.worker /\ new.validator = v
  BY <1>3, <1>4 DEF AsJudged, TaskRow
<1>6. task' = [task EXCEPT ![t] = new]
  BY <1>1, <1>2, <1>4 DEF ValidateTask
<1>7. task'[t] = new /\ \A u \in TaskIds \ {t} : task'[u] = task[u]
  BY <1>3, <1>6
<1>8. t \notin DoneFor(w) \cup RejectedFor(w) \cup JudgedBy(w)
  BY <1>1, <1>3 DEF DoneFor, RejectedFor, JudgedBy, Finished
<1>9. DoneFor(w)' = IF verdict = "match" /\ w = row.worker THEN DoneFor(w) \cup {t} ELSE DoneFor(w)
  BY <1>1, <1>3, <1>5, <1>7 DEF DoneFor
<1>10. RejectedFor(w)' =
         IF verdict # "match" /\ w = row.worker THEN RejectedFor(w) \cup {t} ELSE RejectedFor(w)
  BY <1>1, <1>3, <1>5, <1>7 DEF RejectedFor
<1>11. JudgedBy(w)' = IF w = v THEN JudgedBy(w) \cup {t} ELSE JudgedBy(w)
  BY <1>1, <1>3, <1>5, <1>7 DEF JudgedBy, Finished
<1>12. QED BY <1>1, <1>2, <1>8, <1>9, <1>10, <1>11

LEMMA CountersNext ==
  ASSUME IInv, NewcomersUnknown, CountersMatchTasks, [Next]_vars
  PROVE  CountersMatchTasks'
<1>1. ASSUME NEW w \in Workers
      PROVE  /\ account'[w].completed = Cardinality(DoneFor(w)')
             /\ account'[w].failed = Cardinality(RejectedFor(w)')
             /\ account'[w].validated = Cardinality(JudgedBy(w)')
  <2>1. /\ account[w].completed = Cardinality(DoneFor(w))
        /\ account[w].failed = Cardinality(RejectedFor(w))
        /\ account[w].validated = Cardinality(JudgedBy(w))
    BY DEF CountersMatchTasks, DoneFor, RejectedFor, JudgedBy
  <2>2. CASE NobodyJudges
    <3>1. /\ account'[w].completed = account[w].completed
          /\ account'[w].failed = account[w].failed
          /\ account'[w].validated = account[w].validated
      BY <2>2, CountersKept DEF IInv
    <3>2. QED BY <2>1, <2>2, <3>1, QuietKeepsCounts
  <2>3. ASSUME NEW v \in Workers, NEW t \in TaskIds, NEW answer \in Answers, ValidateTask(v, t, answer)
        PROVE  /\ account'[w].completed = Cardinality(DoneFor(w)')
               /\ account'[w].failed = Cardinality(RejectedFor(w)')
               /\ account'[w].validated = Cardinality(JudgedBy(w)')
    <3>1. PICK row : row = task[t]
      OBVIOUS
    <3>2. PICK verdict \in Verdicts : verdict = Verdict(task[t], answer)
      BY VerdictType
    <3>3. /\ row \in TaskRow /\ row.worker \in Workers /\ row.validator = v
          /\ account' = Credited(account, row, verdict) /\ account \in [Workers -> AccountRow]
      BY <2>3, <3>1, <3>2 DEF ValidateTask, IInv, TypeOK
    <3>4. row.worker # row.validator
      BY <2>3, <3>1, <3>3, ValidationSettles
    <3>5. /\ account'[w].completed =
               account[w].completed + (IF verdict = "match" /\ w = row.worker THEN 1 ELSE 0)
          /\ account'[w].failed =
               account[w].failed + (IF verdict # "match" /\ w = row.worker THEN 1 ELSE 0)
          /\ account'[w].validated = account[w].validated + (IF w = row.validator THEN 1 ELSE 0)
      BY <3>3, <3>4, VerdictPaysDue
    <3>6. /\ t \notin DoneFor(w) \cup RejectedFor(w) \cup JudgedBy(w)
          /\ DoneFor(w)' =
               IF verdict = "match" /\ w = row.worker THEN DoneFor(w) \cup {t} ELSE DoneFor(w)
          /\ RejectedFor(w)' =
               IF verdict # "match" /\ w = row.worker THEN RejectedFor(w) \cup {t} ELSE RejectedFor(w)
          /\ JudgedBy(w)' = IF w = v THEN JudgedBy(w) \cup {t} ELSE JudgedBy(w)
      BY <2>3, <3>1, <3>2, VerdictCounts
    <3>7. /\ Cardinality(DoneFor(w) \cup {t}) = Cardinality(DoneFor(w)) + 1
          /\ Cardinality(RejectedFor(w) \cup {t}) = Cardinality(RejectedFor(w)) + 1
          /\ Cardinality(JudgedBy(w) \cup {t}) = Cardinality(JudgedBy(w)) + 1
      BY <3>6, CountsFinite, FS_AddElement
    <3>8. /\ Cardinality(DoneFor(w)) \in Nat /\ Cardinality(RejectedFor(w)) \in Nat
          /\ Cardinality(JudgedBy(w)) \in Nat
      BY CountsFinite, FS_CardinalityType
    <3>9. account'[w].completed = Cardinality(DoneFor(w)')
      BY <2>1, <3>5, <3>6, <3>7, <3>8
    <3>10. account'[w].failed = Cardinality(RejectedFor(w)')
      BY <2>1, <3>5, <3>6, <3>7, <3>8
    <3>11. account'[w].validated = Cardinality(JudgedBy(w)')
      BY <2>1, <3>3, <3>5, <3>6, <3>7, <3>8
    <3>12. QED BY <3>9, <3>10, <3>11
  <2>4. QED BY <2>2, <2>3 DEF NobodyJudges, Judging
<1>2. QED BY <1>1 DEF CountersMatchTasks, DoneFor, RejectedFor, JudgedBy

LEMMA CountersInit == Init => CountersMatchTasks
<1>1. ASSUME Init, NEW w \in Workers
      PROVE  /\ account[w].completed = 0 /\ account[w].failed = 0 /\ account[w].validated = 0
             /\ DoneFor(w) = {} /\ RejectedFor(w) = {} /\ JudgedBy(w) = {}
  <2>1. \A t \in TaskIds : task[t].status = "absent"
    BY <1>1 DEF Init, AbsentTask, NewTask
  <2>2. QED BY <1>1, <2>1 DEF Init, NewAccount, DoneFor, RejectedFor, JudgedBy, Finished
<1>2. QED BY <1>1, FS_EmptySet DEF CountersMatchTasks, DoneFor, RejectedFor, JudgedBy

(***************************************************************************)
(* The statistics of every worker count its finished tasks, each once,     *)
(* whatever is registered, banned, reset or expired in between.            *)
(***************************************************************************)
THEOREM CountersAlwaysMatch == Spec => []CountersMatchTasks
<1>1. IInv /\ NewcomersUnknown /\ [Next]_vars => NewcomersUnknown'
  BY NewcomersNext
<1>2. IInv /\ NewcomersUnknown /\ CountersMatchTasks /\ [Next]_vars => CountersMatchTasks'
  BY CountersNext
<1>3. QED
  BY <1>1, <1>2, Invariant, NewcomersInit, CountersInit, PTL DEF Spec
=============================================================================
