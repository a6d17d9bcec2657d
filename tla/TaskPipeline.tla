---------------------------- MODULE TaskPipeline ----------------------------
(***************************************************************************)
(* The two-tier task pipeline of the main server: worker A executes a      *)
(* task, worker B re-executes it, and the comparison decides rewards and   *)
(* reputation (server/routers/tasks.py), together with the endpoints that  *)
(* change the same rows: worker registration, heartbeat and status         *)
(* (server/routers/workers.py), bans and admin resets                      *)
(* (server/routers/admin_panel.py) and the collusion auto-ban              *)
(* (server/collusion.py).                                                  *)
(*                                                                         *)
(* One action is one whole request handler: this module is the system as   *)
(* it behaves when requests do not overlap.  TaskSessions splits the same  *)
(* handlers into their reads and their commit.                             *)
(*                                                                         *)
(* Abstractions.  A prompt and a result are members of Answers.  Time is   *)
(* one flag per lease, "live" or "lapsed".  Money is in thousandths of a   *)
(* credit and reputation in thousandths of a point, so every amount of the *)
(* code is an integer.  The statistics no handler of this module reads     *)
(* (total_earned, golden counters, timestamps), withdrawals and the decay  *)
(* of reputation are left out.                                             *)
(***************************************************************************)
EXTENDS Integers, FiniteSets, Sequences

CONSTANTS
  Workers,          \* workers that may register
  MaxTasks,         \* bound: tasks created in one behaviour
  Answers,          \* results a worker may submit, expected golden answers
  TaskTypes,        \* values of Task.task_type a client may ask for
  Priorities,       \* values of Task.priority a client may ask for
  StatusInputs,     \* values sent to POST /workers/status
  ResetValues,      \* values sent to POST /admin/reset-reputation
  NoWorker,         \* a NULL worker_id or validator_worker_id
  NoAnswer          \* a NULL result or golden_answer

WorkerStatus == {"idle", "online", "working", "offline", "banned"}

(***************************************************************************)
(* Statuses of a worker row a client may set, "banned" being refused       *)
(* (valid_statuses in update_worker_status).                               *)
(***************************************************************************)
SettableStatus == WorkerStatus \ {"banned"}

\* Thousandths of a point, from 0.0 to 10.0.
Reputation == 0..10000

ASSUME PipelineAssumption ==
  /\ NoWorker \notin Workers
  /\ NoAnswer \notin Answers
  /\ MaxTasks \in Nat
  /\ TaskTypes \subseteq STRING
  /\ Priorities \subseteq 0..100
  /\ StatusInputs \subseteq SettableStatus
  /\ ResetValues \subseteq Reputation

VARIABLES
  task,             \* the rows of table tasks, by id
  worker,           \* status and is_banned of the rows of table workers
  account,          \* balance, reputation and statistics of the same rows
  transactions      \* the rows of table transactions, by task_id

vars == <<task, worker, account, transactions>>

-----------------------------------------------------------------------------
(* Rows *)

TaskIds == 1..MaxTasks

\* "absent" is a row that has not been inserted yet.
TaskStatus ==
  {"absent", "pending", "assigned", "submitted_A", "validating", "done", "rejected"}

Finished == {"done", "rejected"}

TaskRow ==
  [status    : TaskStatus,
   type      : TaskTypes \cup {"none"},
   priority  : Priorities \cup {0},
   golden    : Answers \cup {NoAnswer},
   worker    : Workers \cup {NoWorker},
   validator : Workers \cup {NoWorker},
   result    : Answers \cup {NoAnswer},
   lease     : {"none", "live", "lapsed"}]

WorkerRow ==
  [status : WorkerStatus \cup {"absent"}, isBanned : BOOLEAN]

AccountRow ==
  [balance : Nat, reputation : Reputation,
   completed : Nat, failed : Nat, validated : Nat]

TransactionRow ==
  [worker : Workers, kind : {"reward", "bonus"}, amount : Nat]

NewTask(type, priority, golden) ==
  [status |-> "pending", type |-> type, priority |-> priority,
   golden |-> golden, worker |-> NoWorker, validator |-> NoWorker,
   result |-> NoAnswer, lease |-> "none"]

AbsentTask == [NewTask("none", 0, NoAnswer) EXCEPT !.status = "absent"]

AbsentWorker == [status |-> "absent", isBanned |-> FALSE]

\* Balance 0, reputation 1.0 and empty statistics (register_worker).
NewAccount ==
  [balance |-> 0, reputation |-> 1000, completed |-> 0, failed |-> 0, validated |-> 0]

Registered(w) == worker[w].status # "absent"

\* Mutant: the 403 of a banned worker is forgotten.
AdmittedEvenBanned(w) == Registered(w)

\* The check every worker-facing endpoint but submit and validate makes.
Admitted(w) == Registered(w) /\ ~worker[w].isBanned

-----------------------------------------------------------------------------
(* Pure parts of the handlers *)

\* get_task_reward: unknown types earn the reward of "text".
TaskReward(type) ==
  CASE type = "reverse" -> 100
    [] type = "math"    -> 150
    [] type = "llm"     -> 500
    [] type = "heavy"   -> 1000
    [] OTHER            -> 50

\* Mutant: half instead of two fifths.
ValidatorHalf(type) == TaskReward(type) \div 2

\* reward_B = base_reward * 0.4
ValidatorReward(type) == (TaskReward(type) * 4) \div 10

\* Mutant: the lower bound is forgotten.
ClampedAbove(reputation) == IF reputation > 10000 THEN 10000 ELSE reputation

\* The clamp of update_reputation.
Clamped(reputation) ==
  CASE reputation < 0     -> 0
    [] reputation > 10000 -> 10000
    [] OTHER              -> reputation

\* Mutant: the golden answer is not looked at.
VerdictByComparison(row, answer) == IF row.result = answer THEN "match" ELSE "mismatch"

\* The three outcomes of validate_task, in the order the code tests them.
Verdict(row, answer) ==
  CASE row.golden \notin {NoAnswer, row.result} -> "golden_failed"
    [] row.golden \in {NoAnswer, row.result} /\ row.result = answer -> "match"
    [] OTHER -> "mismatch"

Verdicts == {"golden_failed", "match", "mismatch"}

ExecutorChange(verdict) ==
  CASE verdict = "golden_failed" -> -200
    [] verdict = "match"         -> 10
    [] OTHER                     -> -100

ValidatorChange(verdict) ==
  CASE verdict = "golden_failed" -> 0
    [] verdict = "match"         -> 5
    [] OTHER                     -> 10

\* Mutant: the bonus reaches the balance but not the table.
PaymentsWithoutBonus(row, verdict) ==
  IF verdict = "match"
  THEN << [worker |-> row.worker, kind |-> "reward", amount |-> TaskReward(row.type)],
          [worker |-> row.validator, kind |-> "reward", amount |-> ValidatorReward(row.type)] >>
  ELSE << >>

\* Mutant: the validator's reward reaches the balance but not the table.
PaymentsToExecutor(row, verdict) ==
  CASE verdict = "golden_failed" -> << >>
    [] verdict = "match" ->
         << [worker |-> row.worker, kind |-> "reward", amount |-> TaskReward(row.type)] >>
    [] OTHER ->
         << [worker |-> row.validator, kind |-> "bonus", amount |-> 10] >>

\* The transaction rows a verdict inserts, in order.
Payments(row, verdict) ==
  CASE verdict = "golden_failed" -> << >>
    [] verdict = "match" ->
         << [worker |-> row.worker, kind |-> "reward",
             amount |-> TaskReward(row.type)],
            [worker |-> row.validator, kind |-> "reward",
             amount |-> ValidatorReward(row.type)] >>
    [] OTHER ->
         << [worker |-> row.validator, kind |-> "bonus", amount |-> 10] >>

\* Mutant: the golden branch forgets tasks_failed += 1.
ExecutorAccountGoldenUncounted(acct, row, verdict) ==
  [acct EXCEPT
     !.balance    = IF verdict = "match" THEN @ + TaskReward(row.type) ELSE @,
     !.reputation = Clamped(@ + ExecutorChange(verdict)),
     !.completed  = IF verdict = "match" THEN @ + 1 ELSE @,
     !.failed     = IF verdict = "mismatch" THEN @ + 1 ELSE @]

ExecutorAccount(acct, row, verdict) ==
  [acct EXCEPT
     !.balance    = IF verdict = "match" THEN @ + TaskReward(row.type) ELSE @,
     !.reputation = Clamped(@ + ExecutorChange(verdict)),
     !.completed  = IF verdict = "match" THEN @ + 1 ELSE @,
     !.failed     = IF verdict = "match" THEN @ ELSE @ + 1]

\* Mutant: the bonus row is written, the balance is not.
ValidatorAccountUnpaidBonus(acct, row, verdict) ==
  [acct EXCEPT
     !.balance    = IF verdict = "match" THEN @ + ValidatorReward(row.type) ELSE @,
     !.reputation = Clamped(@ + ValidatorChange(verdict)),
     !.validated  = @ + 1]

ValidatorAccount(acct, row, verdict) ==
  [acct EXCEPT
     !.balance    = CASE verdict = "golden_failed" -> @
                      [] verdict = "match" -> @ + ValidatorReward(row.type)
                      [] OTHER -> @ + 10,
     !.reputation = Clamped(@ + ValidatorChange(verdict)),
     !.validated  = @ + 1]

\* What get_next_task, submit_result and validate_task make of a task row.
AsValidation(row, w) ==
  [row EXCEPT !.status = "validating", !.validator = w, !.lease = "live"]

AsExecution(row, w) ==
  [row EXCEPT !.status = "assigned", !.worker = w, !.lease = "live"]

AsSubmitted(row, answer) ==
  [row EXCEPT !.status = "submitted_A", !.result = answer, !.lease = "none"]

\* The 408 answer: back to the queue, the lapsed lease stays.
AsReturned(row) == [row EXCEPT !.status = "pending", !.worker = NoWorker]

AsJudged(row, verdict) ==
  [row EXCEPT !.status = IF verdict = "match" THEN "done" ELSE "rejected"]

\* What a verdict makes of the accounts; the executor's side comes first.
Credited(accounts, row, verdict) ==
  [accounts EXCEPT ![row.worker]    = ExecutorAccount(@, row, verdict),
                   ![row.validator] = ValidatorAccount(@, row, verdict)]

-----------------------------------------------------------------------------
(* Workers *)

RegisterWorker(w) ==
  /\ ~Registered(w)
  /\ worker' = [worker EXCEPT ![w] = [status |-> "idle", isBanned |-> FALSE]]
  /\ account' = [account EXCEPT ![w] = NewAccount]
  /\ UNCHANGED <<task, transactions>>

Heartbeat(w) ==
  /\ Admitted(w)
  /\ worker[w].status = "idle"
  /\ worker' = [worker EXCEPT ![w].status = "online"]
  /\ UNCHANGED <<task, account, transactions>>

UpdateWorkerStatus(w, status) ==
  /\ Admitted(w)
  /\ worker' = [worker EXCEPT ![w].status = status]
  /\ UNCHANGED <<task, account, transactions>>

\* Which workers have been silent for 30 minutes is left open.
CleanupStaleWorkers(silent) ==
  /\ \A w \in silent : Admitted(w)
  /\ worker' = [w \in Workers |->
                  IF w \in silent THEN [worker[w] EXCEPT !.status = "offline"]
                  ELSE worker[w]]
  /\ UNCHANGED <<task, account, transactions>>

-----------------------------------------------------------------------------
(* Tasks *)

\* A golden template, when one is injected, brings its expected answer.
CreateTask(t, type, priority, golden) ==
  /\ task[t].status = "absent"
  /\ \A u \in TaskIds : u < t => task[u].status # "absent"
  /\ task' = [task EXCEPT ![t] = NewTask(type, priority, golden)]
  /\ UNCHANGED <<worker, account, transactions>>

\* ORDER BY priority DESC, id ASC ... LIMIT 1
IsFirst(t, candidates) ==
  /\ t \in candidates
  /\ \A u \in candidates :
       \/ task[u].priority < task[t].priority
       \/ task[u].priority = task[t].priority /\ t <= u

\* Mutant: Task.worker_id != worker_id is forgotten.
ValidatableByAnyone(w) ==
  {t \in TaskIds : task[t].status = "submitted_A" /\ task[t].validator = NoWorker}

Validatable(w) ==
  {t \in TaskIds : /\ task[t].status = "submitted_A"
                   /\ task[t].worker \notin {w, NoWorker}
                   /\ task[t].validator = NoWorker}

Pending == {t \in TaskIds : task[t].status = "pending"}

ClaimValidation(w, t) ==
  /\ Admitted(w)
  /\ IsFirst(t, Validatable(w))
  /\ task' = [task EXCEPT ![t] = AsValidation(@, w)]
  /\ worker' = [worker EXCEPT ![w].status = "working"]
  /\ UNCHANGED <<account, transactions>>

ClaimExecution(w, t) ==
  /\ Admitted(w)
  /\ Validatable(w) = {}
  /\ IsFirst(t, Pending)
  /\ task' = [task EXCEPT ![t] = AsExecution(@, w)]
  /\ worker' = [worker EXCEPT ![w].status = "working"]
  /\ UNCHANGED <<account, transactions>>

FindNothing(w) ==
  /\ Admitted(w)
  /\ Validatable(w) = {}
  /\ Pending = {}
  /\ worker' = [worker EXCEPT ![w].status = "online"]
  /\ UNCHANGED <<task, account, transactions>>

GetNextTask(w) ==
  \/ \E t \in TaskIds : ClaimValidation(w, t)
  \/ \E t \in TaskIds : ClaimExecution(w, t)
  \/ FindNothing(w)

SubmitResult(w, t, answer) ==
  /\ task[t].status = "assigned"
  /\ task[t].worker = w
  /\ task[t].lease # "lapsed"
  /\ task' = [task EXCEPT ![t] = AsSubmitted(@, answer)]
  /\ worker' = [worker EXCEPT ![w].status = "idle"]
  /\ UNCHANGED <<account, transactions>>

SubmitTooLate(w, t) ==
  /\ task[t].status = "assigned"
  /\ task[t].worker = w
  /\ task[t].lease = "lapsed"
  /\ task' = [task EXCEPT ![t] = AsReturned(@)]
  /\ UNCHANGED <<worker, account, transactions>>

ValidateTask(w, t, answer) ==
  LET row     == task[t]
      a       == row.worker
      verdict == Verdict(row, answer)
  IN
  /\ row.status = "validating"
  /\ row.validator = w
  /\ a \in Workers
  /\ task' = [task EXCEPT ![t] = AsJudged(@, verdict)]
  /\ worker' = [worker EXCEPT ![a].status = "idle", ![w].status = "idle"]
  /\ account' = Credited(account, row, verdict)
  /\ transactions' = [transactions EXCEPT ![t] = @ \o Payments(row, verdict)]

\* A lease is read only while its task is assigned or validating.
LeaseLapses(t) ==
  /\ task[t].status \in {"assigned", "validating"}
  /\ task[t].lease = "live"
  /\ task' = [task EXCEPT ![t].lease = "lapsed"]
  /\ UNCHANGED <<worker, account, transactions>>

\* Mutant: validator_worker_id survives the release of a validation.
AfterExpiryKeepingValidator(row) ==
  CASE row.status = "assigned" /\ row.lease = "lapsed" ->
         [row EXCEPT !.status = "pending", !.worker = NoWorker, !.lease = "none"]
    [] row.status = "validating" /\ row.lease = "lapsed" ->
         [row EXCEPT !.status = "submitted_A", !.lease = "none"]
    [] OTHER -> row

\* Mutant: lease_expires_at < now is forgotten for assigned tasks.
AfterExpiryOfLiveLeases(row) ==
  CASE row.status = "assigned" ->
         [row EXCEPT !.status = "pending", !.worker = NoWorker, !.lease = "none"]
    [] row.status = "validating" /\ row.lease = "lapsed" ->
         [row EXCEPT !.status = "submitted_A", !.validator = NoWorker, !.lease = "none"]
    [] OTHER -> row

\* Mutant: the release of a validation clears the result, as a ban does.
AfterExpiryClearingResult(row) ==
  CASE row.status = "assigned" /\ row.lease = "lapsed" ->
         [row EXCEPT !.status = "pending", !.worker = NoWorker, !.lease = "none"]
    [] row.status = "validating" /\ row.lease = "lapsed" ->
         [row EXCEPT !.status = "submitted_A", !.validator = NoWorker,
                     !.result = NoAnswer, !.lease = "none"]
    [] OTHER -> row

\* Mutant: only validations are released.
AfterExpiryOfValidations(row) ==
  IF row.status = "validating" /\ row.lease = "lapsed"
  THEN [row EXCEPT !.status = "submitted_A", !.validator = NoWorker, !.lease = "none"]
  ELSE row

\* What POST /tasks/expire-leases makes of one row.
AfterExpiry(row) ==
  CASE row.status = "assigned" /\ row.lease = "lapsed" ->
         [row EXCEPT !.status = "pending", !.worker = NoWorker, !.lease = "none"]
    [] row.status = "validating" /\ row.lease = "lapsed" ->
         [row EXCEPT !.status = "submitted_A", !.validator = NoWorker, !.lease = "none"]
    [] OTHER -> row

ExpireStaleLeases ==
  /\ \E t \in TaskIds : AfterExpiry(task[t]) # task[t]
  /\ task' = [t \in TaskIds |-> AfterExpiry(task[t])]
  /\ UNCHANGED <<worker, account, transactions>>

-----------------------------------------------------------------------------
(* Administration *)

\* Mutant: the filter on the status of the tasks is forgotten.
AfterBanAnyStatus(w, row) ==
  IF row.worker = w
  THEN [row EXCEPT !.status = "pending", !.worker = NoWorker, !.result = NoAnswer]
  ELSE row

\* What ban_worker makes of one row: only the executor's side is released.
AfterBan(w, row) ==
  IF row.worker = w /\ row.status \in {"assigned", "submitted_A"}
  THEN [row EXCEPT !.status = "pending", !.worker = NoWorker, !.result = NoAnswer]
  ELSE row

BanWorker(w) ==
  /\ Admitted(w)
  /\ worker' = [worker EXCEPT ![w] = [status |-> "banned", isBanned |-> TRUE]]
  /\ task' = [t \in TaskIds |-> AfterBan(w, task[t])]
  /\ UNCHANGED <<account, transactions>>

UnbanWorker(w) ==
  /\ worker[w].isBanned
  /\ worker' = [worker EXCEPT ![w] = [status |-> "idle", isBanned |-> FALSE]]
  /\ UNCHANGED <<task, account, transactions>>

\* Which workers the collusion scan recommends is left open.
AutoBanColluders(colluders) ==
  /\ \A w \in colluders : Admitted(w)
  /\ worker' = [w \in Workers |->
                  IF w \in colluders THEN [status |-> "banned", isBanned |-> TRUE]
                  ELSE worker[w]]
  /\ UNCHANGED <<task, account, transactions>>

ResetReputation(w, reputation) ==
  /\ Registered(w)
  /\ account' = [account EXCEPT ![w].reputation = reputation]
  /\ UNCHANGED <<task, worker, transactions>>

-----------------------------------------------------------------------------
(* Specification *)

Init ==
  /\ task = [t \in TaskIds |-> AbsentTask]
  /\ worker = [w \in Workers |-> AbsentWorker]
  /\ account = [w \in Workers |-> NewAccount]
  /\ transactions = [t \in TaskIds |-> << >>]

WorkerRequest(w) ==
  \/ RegisterWorker(w)
  \/ Heartbeat(w)
  \/ \E status \in StatusInputs : UpdateWorkerStatus(w, status)
  \/ GetNextTask(w)
  \/ \E t \in TaskIds, answer \in Answers : SubmitResult(w, t, answer)
  \/ \E t \in TaskIds : SubmitTooLate(w, t)
  \/ \E t \in TaskIds, answer \in Answers : ValidateTask(w, t, answer)

AdminRequest ==
  \/ ExpireStaleLeases
  \/ \E w \in Workers : BanWorker(w)
  \/ \E w \in Workers : UnbanWorker(w)
  \/ \E colluders \in SUBSET Workers : AutoBanColluders(colluders)
  \/ \E silent \in SUBSET Workers : CleanupStaleWorkers(silent)
  \/ \E w \in Workers, reputation \in ResetValues : ResetReputation(w, reputation)

ClientRequest ==
  \E t \in TaskIds, type \in TaskTypes, priority \in Priorities,
     golden \in Answers \cup {NoAnswer} : CreateTask(t, type, priority, golden)

Next ==
  \/ \E w \in Workers : WorkerRequest(w)
  \/ AdminRequest
  \/ ClientRequest
  \/ \E t \in TaskIds : LeaseLapses(t)

Spec == Init /\ [][Next]_vars

=============================================================================
