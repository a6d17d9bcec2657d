---------------------------- MODULE TaskSessions ----------------------------
(***************************************************************************)
(* The handlers of TaskPipeline when requests overlap.  FastAPI runs them  *)
(* in a thread pool, each with a database session of its own               *)
(* (server/db.py), at PostgreSQL's default READ COMMITTED and without      *)
(* SELECT ... FOR UPDATE.  A handler therefore reads rows, computes, and   *)
(* commits later; its UPDATE names the row by id and sets, to the values   *)
(* computed from what was read, just the columns that differ from what was *)
(* read.                                                                   *)
(*                                                                         *)
(* A request is a slot that goes through: read -> commit.  get_next_task   *)
(* and ban_worker change the worker row before they query the tasks, so    *)
(* the session flushes it first and holds its row lock until the commit.   *)
(*                                                                         *)
(* Abstractions.  The reads before the first write of a handler are one    *)
(* step (get_next_task excepted), as are the two queries of                *)
(* expire_stale_leases.  Requests that change a single column of a worker  *)
(* (heartbeat, status, reputation reset) are in TaskPipeline only.         *)
(***************************************************************************)
EXTENDS TaskPipeline

CONSTANTS
  Slots,          \* bound: requests open at the same time
  Bannable,       \* bound: workers an administrator bans and unbans
  MaxVerdicts     \* bound: no worker opens a validation after that many verdicts

ASSUME SessionAssumption == Bannable \subseteq Workers /\ MaxVerdicts \in Nat

VARIABLE session        \* the open request of each slot

sessionVars == <<vars, session>>

Idle == [kind |-> "idle"]

Free(s) == session[s] = Idle

Open(s, request) == session' = [session EXCEPT ![s] = request]

Close(s) == session' = [session EXCEPT ![s] = Idle]

\* Mutant: get_next_task does not write the worker row before it selects.
LockingBans(s) == session[s].kind = "banning"

\* The request of slot s holds the lock on the row of its worker.
Locking(s) == session[s].kind \in {"claiming", "banning"}

\* No open request keeps others from writing the row of worker w.
Unlocked(w) == \A s \in Slots : Locking(s) => session[s].worker # w

\* The row after a handler that read old and computed new has committed.
Written(current, old, new) ==
  [c \in DOMAIN current |-> IF new[c] = old[c] THEN current[c] ELSE new[c]]

WriteTask(t, old, new) == task' = [task EXCEPT ![t] = Written(@, old, new)]

\* Status of the worker row, written only if it was read as something else.
WriteStatus(w, old, status) ==
  worker' = [worker EXCEPT ![w] = Written(@, old, [old EXCEPT !.status = status])]

-----------------------------------------------------------------------------
(* get_next_task *)

\* session.get(Worker, worker_id) and the check of is_banned.
ReadNext(s, w) ==
  /\ Free(s)
  /\ Admitted(w)
  /\ Open(s, [kind |-> "asking", worker |-> w, staff |-> worker[w]])
  /\ UNCHANGED vars

\* The flush of the worker row, then the two queries.
SelectNext(s) ==
  LET w == session[s].worker
      Claim(t, new) ==
        Open(s, [kind |-> "claiming", worker |-> w, job |-> t, row |-> task[t], new |-> new])
  IN
  /\ session[s].kind = "asking"
  /\ Unlocked(w)
  /\ \/ /\ \E t \in TaskIds : IsFirst(t, Validatable(w)) /\ Claim(t, AsValidation(task[t], w))
        /\ UNCHANGED worker
     \/ /\ Validatable(w) = {}
        /\ \E t \in TaskIds : IsFirst(t, Pending) /\ Claim(t, AsExecution(task[t], w))
        /\ UNCHANGED worker
     \/ /\ Validatable(w) = {} /\ Pending = {}
        /\ WriteStatus(w, session[s].staff, "online")
        /\ Close(s)
  /\ UNCHANGED <<task, account, transactions>>

\* The new lease is another instant than any lease that was read.
CommitNext(s) ==
  LET r == session[s] IN
  /\ r.kind = "claiming"
  /\ task' = [task EXCEPT ![r.job] = [Written(@, r.row, r.new) EXCEPT !.lease = "live"]]
  /\ worker' = [worker EXCEPT ![r.worker].status = "working"]
  /\ Close(s)
  /\ UNCHANGED <<account, transactions>>

-----------------------------------------------------------------------------
(* submit_result *)

ReadSubmit(s, w, t, answer) ==
  /\ Free(s)
  /\ task[t].status = "assigned"
  /\ task[t].worker = w
  /\ Open(s, [kind |-> "submitting", worker |-> w, staff |-> worker[w],
              job |-> t, row |-> task[t], answer |-> answer])
  /\ UNCHANGED vars

CommitSubmit(s) ==
  LET r == session[s] IN
  /\ r.kind = "submitting"
  /\ r.row.lease # "lapsed"
  /\ Unlocked(r.worker)
  /\ WriteTask(r.job, r.row, AsSubmitted(r.row, r.answer))
  /\ WriteStatus(r.worker, r.staff, "idle")
  /\ Close(s)
  /\ UNCHANGED <<account, transactions>>

CommitTooLate(s) ==
  LET r == session[s] IN
  /\ r.kind = "submitting"
  /\ r.row.lease = "lapsed"
  /\ WriteTask(r.job, r.row, AsReturned(r.row))
  /\ Close(s)
  /\ UNCHANGED <<worker, account, transactions>>

-----------------------------------------------------------------------------
(* validate_task *)

ReadValidate(s, w, t, answer) ==
  LET parties == {task[t].worker, w} IN
  /\ Free(s)
  /\ account[w].validated < MaxVerdicts
  /\ task[t].status = "validating"
  /\ task[t].validator = w
  /\ task[t].worker \in Workers
  /\ Open(s, [kind |-> "validating", worker |-> w, job |-> t, row |-> task[t],
              answer |-> answer,
              staff |-> [p \in parties |-> worker[p]],
              books |-> [p \in parties |-> account[p]]])
  /\ UNCHANGED vars

CommitValidate(s) ==
  LET r       == session[s]
      verdict == Verdict(r.row, r.answer)
      books   == Credited(r.books, r.row, verdict)
      idle    == [p \in DOMAIN r.staff |-> [r.staff[p] EXCEPT !.status = "idle"]]
  IN
  /\ r.kind = "validating"
  /\ \A p \in DOMAIN r.books : Unlocked(p)
  /\ WriteTask(r.job, r.row, AsJudged(r.row, verdict))
  /\ worker' = [p \in Workers |-> IF p \in DOMAIN r.staff THEN Written(worker[p], r.staff[p], idle[p])
                                  ELSE worker[p]]
  /\ account' = [p \in Workers |-> IF p \in DOMAIN books THEN Written(account[p], r.books[p], books[p])
                                   ELSE account[p]]
  /\ transactions' = [transactions EXCEPT ![r.job] = @ \o Payments(r.row, verdict)]
  /\ Close(s)

-----------------------------------------------------------------------------
(* expire_stale_leases and ban_worker *)

ReadSweep(s) ==
  /\ Free(s)
  /\ \E t \in TaskIds : AfterExpiry(task[t]) # task[t]
  /\ Open(s, [kind |-> "sweeping", rows |-> task])
  /\ UNCHANGED vars

CommitSweep(s) ==
  LET rows == session[s].rows IN
  /\ session[s].kind = "sweeping"
  /\ task' = [t \in TaskIds |-> Written(task[t], rows[t], AfterExpiry(rows[t]))]
  /\ Close(s)
  /\ UNCHANGED <<worker, account, transactions>>

ReadBan(s, w) ==
  /\ Free(s)
  /\ Admitted(w)
  /\ Unlocked(w)
  /\ Open(s, [kind |-> "banning", worker |-> w, rows |-> task])
  /\ UNCHANGED vars

CommitBan(s) ==
  LET w    == session[s].worker
      rows == session[s].rows
  IN
  /\ session[s].kind = "banning"
  /\ worker' = [worker EXCEPT ![w] = [status |-> "banned", isBanned |-> TRUE]]
  /\ task' = [t \in TaskIds |-> Written(task[t], rows[t], AfterBan(w, rows[t]))]
  /\ Close(s)
  /\ UNCHANGED <<account, transactions>>

-----------------------------------------------------------------------------
(* Requests that write one row, and time *)

Alone ==
  /\ \/ \E w \in Workers : RegisterWorker(w)
     \/ \E w \in Bannable : Unlocked(w) /\ UnbanWorker(w)
     \/ ClientRequest
     \/ \E t \in TaskIds : LeaseLapses(t)
  /\ UNCHANGED session

SessionInit == Init /\ session = [s \in Slots |-> Idle]

Read(s) ==
  \/ \E w \in Workers : ReadNext(s, w)
  \/ \E w \in Bannable : ReadBan(s, w)
  \/ \E w \in Workers, t \in TaskIds, answer \in Answers :
       ReadSubmit(s, w, t, answer) \/ ReadValidate(s, w, t, answer)
  \/ ReadSweep(s)

Commit(s) ==
  \/ CommitNext(s) \/ CommitSubmit(s) \/ CommitTooLate(s)
  \/ CommitValidate(s) \/ CommitSweep(s) \/ CommitBan(s)

SessionNext == Alone \/ \E s \in Slots : Read(s) \/ SelectNext(s) \/ Commit(s)

SessionSpec == SessionInit /\ [][SessionNext]_sessionVars

=============================================================================
