---------------------------- MODULE SessionSafety ----------------------------
(***************************************************************************)
(* What is left of the promises of TaskSafety when requests overlap, and   *)
(* which of them fail.                                                     *)
(***************************************************************************)
EXTENDS TaskSafety, TaskSessions

Kinds == {"idle", "asking", "claiming", "submitting", "validating", "sweeping", "banning"}

(***************************************************************************)
(* Whatever the overlap, every row keeps the shape its table declares.     *)
(***************************************************************************)
SessionTypeOK ==
  /\ TypeOK
  /\ \A s \in Slots :
       /\ session[s].kind \in Kinds
       /\ session[s].kind \in {"claiming", "submitting", "validating"} =>
            session[s].row \in TaskRow /\ session[s].job \in TaskIds

(***************************************************************************)
(* No verdict is ever computed on a worker's own result: the lock on the   *)
(* worker row keeps two get_next_task of one worker from taking the same   *)
(* task as executor and as validator.                                      *)
(***************************************************************************)
NoSelfVerdict ==
  \A s \in Slots :
    session[s].kind = "validating" => session[s].row.worker # session[s].worker

\* The rows keep their types and no open request judges its own worker.
SessionInv == SessionTypeOK /\ NoSelfVerdict

(***************************************************************************)
(* Overlapping verdicts may lose an update of a balance, but never credit  *)
(* more than the transaction rows add up to.                               *)
(***************************************************************************)
BalanceWithinLedger == \A w \in Workers : account[w].balance <= EarnedBy(w)

(***************************************************************************)
(* A task that is done has been paid for: its last two transaction rows    *)
(* are the rewards of an executor and a validator, even if other verdicts, *)
(* sweeps and claims wrote the row in between.                             *)
(***************************************************************************)
DoneIsPaid ==
  \A t \in TaskIds :
    LET paid == transactions[t]
        type == task[t].type
    IN  task[t].status = "done" =>
          /\ Len(paid) >= 2
          /\ paid[Len(paid) - 1].amount = TaskReward(type)
          /\ paid[Len(paid)].amount = ValidatorReward(type)

-----------------------------------------------------------------------------
(* What fails *)

(***************************************************************************)
(* "Test validation for task in wrong status" (tests/test_validation.py):  *)
(* once a task has its verdict, no further verdict is paid.                *)
(***************************************************************************)
OneVerdict == \A t \in TaskIds : Len(transactions[t]) <= 2

(***************************************************************************)
(* "Worker A Submits -> Status: submitted_A", "Worker B Validates"         *)
(* (docs/README.md): a submitted task has an executor, without whom        *)
(* get_next_task offers it to no validator.                                *)
(***************************************************************************)
SubmittedCanBeValidated ==
  \A t \in TaskIds : task[t].status = "submitted_A" =>
    task[t].worker \in Workers /\ task[t].validator = NoWorker
=============================================================================
