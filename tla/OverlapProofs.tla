---------------------------- MODULE OverlapProofs ----------------------------
(***************************************************************************)
(* Proofs about the two ways in which more happens to the task table than  *)
(* one handler after the other: requests whose database sessions overlap   *)
(* (TaskSessions), and processes that poll the server, lose calls and die  *)
(* (WorkerLoop).  The first part is inductive over what an open request    *)
(* has read and will write; the second over where each polling loop is.    *)
(***************************************************************************)
EXTENDS SessionSafety, WorkerLoop, TaskPipelineProofs

-----------------------------------------------------------------------------
(* The inductive invariant of overlapping requests *)

\* A claim found its task submitted and without validator, or pending.
ToClaim(r) ==
  \/ /\ r.row.status = "submitted_A" /\ r.row.validator = NoWorker
     /\ r.new = AsValidation(r.row, r.worker)
  \/ r.row.status = "pending" /\ r.new = AsExecution(r.row, r.worker)

\* A verdict found its task being validated by its worker, and executed by another one.
ToJudge(r) ==
  /\ r.row.status = "validating"
  /\ r.row.worker \in Workers /\ r.row.validator = r.worker /\ r.row.worker # r.worker
  /\ r.staff \in [{r.row.worker, r.worker} -> WorkerRow]
  /\ r.books \in [{r.row.worker, r.worker} -> AccountRow]

\* What an open request has read and is to write.
SlotOK(r) ==
  /\ r.kind \in Kinds
  /\ r.kind \in Kinds \ {"idle", "sweeping"} => r.worker \in Workers
  /\ r.kind \in {"asking", "submitting"} => r.staff \in WorkerRow
  /\ r.kind \in {"claiming", "submitting", "validating"} => r.row \in TaskRow /\ r.job \in TaskIds
  /\ r.kind = "claiming" => ToClaim(r)
  /\ r.kind = "submitting" => r.row.status = "assigned" /\ r.answer \in Answers
  /\ r.kind = "validating" => ToJudge(r)
  /\ r.kind \in {"sweeping", "banning"} => r.rows \in [TaskIds -> TaskRow]

\* What stays true of the rows an open request has read: a task keeps its type, and nobody can
\* become the executor of a task it is about to validate.
StillTrue(r, table) ==
  /\ r.kind \in {"claiming", "submitting", "validating"} =>
       table[r.job].status # "absent" /\ table[r.job].type = r.row.type
  /\ r.kind = "claiming" /\ r.row.status = "submitted_A" => table[r.job].worker # r.worker

\* A task that is being validated has a validator, and that is not its executor.
Apart(row) ==
  row.status = "validating" => row.validator \in Workers /\ row.validator # row.worker

LocksExclude ==
  \A s, u \in Slots : s # u /\ Locking(s) /\ Locking(u) => session[s].worker # session[u].worker

OverlapInv ==
  /\ TypeOK
  /\ session = [s \in Slots |-> session[s]]
  /\ \A s \in Slots : SlotOK(session[s]) /\ StillTrue(session[s], task)
  /\ LocksExclude
  /\ \A t \in TaskIds : Apart(task[t])

\* What a step makes of one row, if only the members of who may become its executor.
Follows(old, new, who) ==
  /\ old.status # "absent" => new.status # "absent" /\ new.type = old.type
  /\ new.worker \in {old.worker, NoWorker} \cup who
  /\ Apart(old) => Apart(new)

-----------------------------------------------------------------------------
(* Rows that are written column by column *)

LEMMA WrittenTask ==
  ASSUME NEW now \in TaskRow, NEW old \in TaskRow, NEW new \in TaskRow,
         NEW row, row = Written(now, old, new)
  PROVE  /\ row \in TaskRow
         /\ row.status = IF new.status = old.status THEN now.status ELSE new.status
         /\ row.type = IF new.type = old.type THEN now.type ELSE new.type
         /\ row.worker = IF new.worker = old.worker THEN now.worker ELSE new.worker
         /\ row.validator = IF new.validator = old.validator THEN now.validator ELSE new.validator
<1>1. DOMAIN now = {"status", "type", "priority", "golden", "worker", "validator", "result", "lease"}
  BY DEF TaskRow
<1>2. row = [c \in DOMAIN now |-> IF new[c] = old[c] THEN now[c] ELSE new[c]]
  BY DEF Written
<1>3. \A c \in DOMAIN now : row[c] = IF new[c] = old[c] THEN now[c] ELSE new[c]
  BY <1>2
<1>4. /\ row["status"] = IF new["status"] = old["status"] THEN now["status"] ELSE new["status"]
      /\ row["type"] = IF new["type"] = old["type"] THEN now["type"] ELSE new["type"]
      /\ row["priority"] = IF new["priority"] = old["priority"] THEN now["priority"] ELSE new["priority"]
      /\ row["golden"] = IF new["golden"] = old["golden"] THEN now["golden"] ELSE new["golden"]
      /\ row["worker"] = IF new["worker"] = old["worker"] THEN now["worker"] ELSE new["worker"]
      /\ row["validator"] =
           IF new["validator"] = old["validator"] THEN now["validator"] ELSE new["validator"]
      /\ row["result"] = IF new["result"] = old["result"] THEN now["result"] ELSE new["result"]
      /\ row["lease"] = IF new["lease"] = old["lease"] THEN now["lease"] ELSE new["lease"]
  BY <1>1, <1>3
<1>5. row = [status |-> row["status"], type |-> row["type"], priority |-> row["priority"],
             golden |-> row["golden"], worker |-> row["worker"], validator |-> row["validator"],
             result |-> row["result"], lease |-> row["lease"]]
  BY <1>1, <1>2
<1>6. row \in TaskRow
  BY <1>4, <1>5 DEF TaskRow
<1>7. QED BY <1>4, <1>6

LEMMA WrittenWorker ==
  ASSUME NEW now \in WorkerRow, NEW old \in WorkerRow, NEW new \in WorkerRow
  PROVE  Written(now, old, new) \in WorkerRow
<1>1. PICK row : row = Written(now, old, new)
  OBVIOUS
<1>2. DOMAIN now = {"status", "isBanned"}
  BY DEF WorkerRow
<1>3. row = [c \in DOMAIN now |-> IF new[c] = old[c] THEN now[c] ELSE new[c]]
  BY <1>1 DEF Written
<1>4. /\ row["status"] = IF new["status"] = old["status"] THEN now["status"] ELSE new["status"]
      /\ row["isBanned"] = IF new["isBanned"] = old["isBanned"] THEN now["isBanned"] ELSE new["isBanned"]
  BY <1>2, <1>3
<1>5. row = [status |-> row["status"], isBanned |-> row["isBanned"]]
  BY <1>2, <1>3
<1>6. row \in WorkerRow
  BY <1>4, <1>5 DEF WorkerRow
<1>7. QED BY <1>1, <1>6

LEMMA WrittenAccount ==
  ASSUME NEW now \in AccountRow, NEW old \in AccountRow, NEW new \in AccountRow,
         NEW row, row = Written(now, old, new)
  PROVE  /\ row \in AccountRow
         /\ row.balance = IF new.balance = old.balance THEN now.balance ELSE new.balance
<1>1. DOMAIN now = {"balance", "reputation", "completed", "failed", "validated"}
  BY DEF AccountRow
<1>2. row = [c \in DOMAIN now |-> IF new[c] = old[c] THEN now[c] ELSE new[c]]
  BY DEF Written
<1>3. /\ row["balance"] = IF new["balance"] = old["balance"] THEN now["balance"] ELSE new["balance"]
      /\ row["reputation"] =
           IF new["reputation"] = old["reputation"] THEN now["reputation"] ELSE new["reputation"]
      /\ row["completed"] =
           IF new["completed"] = old["completed"] THEN now["completed"] ELSE new["completed"]
      /\ row["failed"] = IF new["failed"] = old["failed"] THEN now["failed"] ELSE new["failed"]
      /\ row["validated"] =
           IF new["validated"] = old["validated"] THEN now["validated"] ELSE new["validated"]
  BY <1>1, <1>2
<1>4. row = [balance |-> row["balance"], reputation |-> row["reputation"],
             completed |-> row["completed"], failed |-> row["failed"], validated |-> row["validated"]]
  BY <1>1, <1>2
<1>5. row \in AccountRow
  BY <1>3, <1>4 DEF AccountRow
<1>6. QED BY <1>3, <1>5

-----------------------------------------------------------------------------
(* What the requests make of the rows of their tasks *)

LEMMA Unchanged == ASSUME NEW row, NEW who PROVE Follows(row, row, who)
  BY DEF Follows

LEMMA WrittenStatus ==
  ASSUME NEW now \in TaskRow, NEW old \in TaskRow, NEW new \in TaskRow, new.type = old.type,
         new.status # "absent" \/ new.status = old.status,
         new.worker \in {old.worker, NoWorker},
         NEW row, row = Written(now, old, new),
         \/ new = old
         \/ new.status \notin {old.status, "validating"}
  PROVE  row \in TaskRow /\ Follows(now, row, {})
<1>1. /\ row \in TaskRow
      /\ row.status = IF new.status = old.status THEN now.status ELSE new.status
      /\ row.type = now.type
      /\ row.worker = IF new.worker = old.worker THEN now.worker ELSE new.worker
      /\ row.validator = IF new.validator = old.validator THEN now.validator ELSE new.validator
  BY WrittenTask
<1>2. QED BY <1>1 DEF Follows, Apart

\* The lease sweep, a ban, a late result, a result and a verdict write a status that is not
\* "validating", or nothing.
LEMMA SweptFollows ==
  ASSUME NEW now \in TaskRow, NEW old \in TaskRow, NEW row, row = Written(now, old, AfterExpiry(old))
  PROVE  row \in TaskRow /\ Follows(now, row, {})
<1>1. PICK new : new = AfterExpiry(old)
  OBVIOUS
<1>2. new \in TaskRow
  BY <1>1, AfterExpiryType
<1>3. /\ new.type = old.type /\ new.worker \in {old.worker, NoWorker}
      /\ new = old \/ new.status \in {"pending", "submitted_A"} \ {old.status}
  BY <1>1 DEF AfterExpiry, TaskRow
<1>4. QED BY <1>1, <1>2, <1>3, WrittenStatus

LEMMA BannedFollows ==
  ASSUME NEW now \in TaskRow, NEW old \in TaskRow, NEW w \in Workers,
         NEW row, row = Written(now, old, AfterBan(w, old))
  PROVE  row \in TaskRow /\ Follows(now, row, {})
<1>1. PICK new : new = AfterBan(w, old)
  OBVIOUS
<1>2. new \in TaskRow
  BY <1>1, AfterBanType
<1>3. /\ new.type = old.type /\ new.worker \in {old.worker, NoWorker}
      /\ new = old \/ (new.status = "pending" /\ old.status # "pending")
  BY <1>1 DEF AfterBan, TaskRow
<1>4. QED BY <1>1, <1>2, <1>3, WrittenStatus

LEMMA SubmittedFollows ==
  ASSUME NEW now \in TaskRow, NEW old \in TaskRow, old.status = "assigned", NEW answer \in Answers,
         NEW row, row = Written(now, old, AsSubmitted(old, answer))
  PROVE  row \in TaskRow /\ Follows(now, row, {})
<1>1. PICK new : new = AsSubmitted(old, answer)
  OBVIOUS
<1>2. new \in TaskRow
  BY <1>1, ChangedRow DEF AsSubmitted
<1>3. new.type = old.type /\ new.worker = old.worker /\ new.status = "submitted_A"
  BY <1>1 DEF AsSubmitted, TaskRow
<1>4. QED BY <1>1, <1>2, <1>3, WrittenStatus

LEMMA ReturnedFollows ==
  ASSUME NEW now \in TaskRow, NEW old \in TaskRow, old.status = "assigned",
         NEW row, row = Written(now, old, AsReturned(old))
  PROVE  row \in TaskRow /\ Follows(now, row, {})
<1>1. PICK new : new = AsReturned(old)
  OBVIOUS
<1>2. new \in TaskRow
  BY <1>1, ChangedRow DEF AsReturned
<1>3. new.type = old.type /\ new.worker = NoWorker /\ new.status = "pending"
  BY <1>1 DEF AsReturned, TaskRow
<1>4. QED BY <1>1, <1>2, <1>3, WrittenStatus

LEMMA JudgedFollows ==
  ASSUME NEW now \in TaskRow, NEW old \in TaskRow, old.status = "validating", NEW verdict,
         NEW row, row = Written(now, old, AsJudged(old, verdict))
  PROVE  /\ row \in TaskRow /\ Follows(now, row, {})
         /\ row.status = (IF verdict = "match" THEN "done" ELSE "rejected") /\ row.type = now.type
<1>1. PICK new : new = AsJudged(old, verdict)
  OBVIOUS
<1>2. PICK final \in Finished : final = IF verdict = "match" THEN "done" ELSE "rejected"
  BY DEF Finished
<1>3. new = [old EXCEPT !.status = final] /\ new \in TaskRow
  BY <1>1, <1>2, ChangedRow DEF AsJudged
<1>4. new.type = old.type /\ new.worker = old.worker /\ new.status = final /\ final \in {"done", "rejected"}
  BY <1>2, <1>3 DEF TaskRow, Finished
<1>5. row \in TaskRow /\ Follows(now, row, {})
  BY <1>1, <1>3, <1>4, WrittenStatus
<1>6. row.status = final /\ row.type = now.type
  <2>1. /\ row.status = IF new.status = old.status THEN now.status ELSE new.status
        /\ row.type = IF new.type = old.type THEN now.type ELSE new.type
    <3>1. row = Written(now, old, new) /\ new \in TaskRow
      BY <1>1, <1>3
    <3>2. QED BY ONLY <3>1, WrittenTask, now \in TaskRow, old \in TaskRow
  <2>2. new.status # old.status
    BY <1>4
  <2>3. QED BY <1>4, <2>1, <2>2
<1>7. QED BY <1>2, <1>5, <1>6

\* A claim: an execution leaves no validation behind, and the validator is not the executor
\* because he has not become that since.
LEMMA ClaimedFollows ==
  ASSUME NEW now \in TaskRow, NEW w \in Workers, NEW r, r.worker = w, r.row \in TaskRow, ToClaim(r),
         r.row.status = "submitted_A" => now.worker # w,
         NEW row, row = [Written(now, r.row, r.new) EXCEPT !.lease = "live"]
  PROVE  row \in TaskRow /\ Follows(now, row, {w})
<1>1. PICK old, new : old = r.row /\ new = r.new /\ old \in TaskRow
  OBVIOUS
<1>2. PICK mid : mid = Written(now, old, new)
  OBVIOUS
<1>3. row = [mid EXCEPT !.lease = "live"]
  BY <1>1, <1>2
<1>4. CASE old.status = "submitted_A" /\ old.validator = NoWorker /\ new = AsValidation(old, w)
  <2>1. new \in TaskRow
    <3>1. \A v \in Workers : [old EXCEPT !.status = "validating", !.validator = v, !.lease = "live"] \in TaskRow
      BY <1>1, ChangedRow
    <3>2. QED BY <1>4, <3>1 DEF AsValidation
  <2>2. new.type = old.type /\ new.worker = old.worker /\ new.status = "validating" /\ new.validator = w
    BY <1>4 DEF AsValidation, TaskRow
  <2>3. w # NoWorker
    BY PipelineAssumption
  <2>4. /\ mid \in TaskRow /\ mid.type = now.type /\ mid.worker = now.worker
        /\ mid.status = "validating" /\ mid.validator = w
    BY <1>1, <1>2, <1>4, <2>1, <2>2, <2>3, WrittenTask
  <2>5. /\ row \in TaskRow /\ row.type = now.type /\ row.worker = now.worker
        /\ row.status = "validating" /\ row.validator = w
    BY <1>3, <2>4 DEF TaskRow
  <2>6. QED BY <1>1, <1>4, <2>5 DEF Follows, Apart
<1>5. CASE old.status = "pending" /\ new = AsExecution(old, w)
  <2>1. new \in TaskRow
    <3>1. \A v \in Workers : [old EXCEPT !.status = "assigned", !.worker = v, !.lease = "live"] \in TaskRow
      BY <1>1, ChangedRow
    <3>2. QED BY <1>5, <3>1 DEF AsExecution
  <2>2. new.type = old.type /\ new.worker = w /\ new.status = "assigned" /\ new.validator = old.validator
    BY <1>5 DEF AsExecution, TaskRow
  <2>3. /\ mid \in TaskRow /\ mid.type = now.type /\ mid.worker \in {now.worker, w}
        /\ mid.status = "assigned"
    BY <1>1, <1>2, <1>5, <2>1, <2>2, WrittenTask
  <2>4. /\ row \in TaskRow /\ row.type = now.type /\ row.worker \in {now.worker, w}
        /\ row.status = "assigned"
    BY <1>3, <2>3 DEF TaskRow
  <2>5. QED BY <2>4 DEF Follows, Apart
<1>6. QED BY <1>1, <1>4, <1>5 DEF ToClaim

-----------------------------------------------------------------------------
(* One step of one request *)

LEMMA IdleSlot == ASSUME NEW table PROVE SlotOK(Idle) /\ StillTrue(Idle, table)
  BY DEF Idle, SlotOK, StillTrue, Kinds

\* What is true of the rows a request has read stays true if no row gets its worker.
LEMMA StaysTrue ==
  ASSUME NEW r, SlotOK(r), StillTrue(r, task), NEW who, r.kind = "claiming" => r.worker \notin who,
         \A t \in TaskIds : Follows(task[t], task'[t], who)
  PROVE  StillTrue(r, task')
<1>1. SUFFICES ASSUME r.kind \in {"claiming", "submitting", "validating"} PROVE StillTrue(r, task')
  BY DEF StillTrue
<1>2. r.job \in TaskIds /\ r.row \in TaskRow /\ (r.kind = "claiming" => r.worker \in Workers)
  BY <1>1 DEF SlotOK, Kinds
<1>3. Follows(task[r.job], task'[r.job], who)
  BY <1>2
<1>4. r.kind = "claiming" => r.worker # NoWorker
  BY <1>2, PipelineAssumption
<1>5. QED BY <1>1, <1>3, <1>4 DEF StillTrue, Follows

\* A request of slot s goes on, and only its worker may become an executor.
LEMMA RequestAdvances ==
  ASSUME OverlapInv, TypeOK', NEW s \in Slots, NEW r, session' = [session EXCEPT ![s] = r],
         SlotOK(r), StillTrue(r, task'), r.kind \in {"claiming", "banning"} => Unlocked(r.worker),
         NEW who, who = {} \/ (Locking(s) /\ who = {session[s].worker}),
         \A t \in TaskIds : Follows(task[t], task'[t], who)
  PROVE  OverlapInv'
<1>1. /\ session' = [u \in Slots |-> session'[u]]
      /\ session'[s] = r /\ \A u \in Slots : u # s => session'[u] = session[u]
  BY DEF OverlapInv
<1>2. ASSUME NEW u \in Slots PROVE SlotOK(session'[u]) /\ StillTrue(session'[u], task')
  <2>1. CASE u = s
    BY <1>1, <2>1
  <2>2. CASE u # s
    <3>1. session'[u] = session[u] /\ SlotOK(session[u]) /\ StillTrue(session[u], task)
      BY <1>1, <2>2 DEF OverlapInv
    <3>2. session[u].kind = "claiming" => session[u].worker \notin who
      BY <2>2 DEF OverlapInv, LocksExclude, Locking
    <3>3. StillTrue(session[u], task')
      BY <3>1, <3>2, StaysTrue
    <3>4. QED BY <3>1, <3>3
  <2>3. QED BY <2>1, <2>2
<1>3. LocksExclude'
  <2>1. \A u, v \in Slots : u # v /\ session[u].kind \in {"claiming", "banning"}
                              /\ session[v].kind \in {"claiming", "banning"}
                            => session[u].worker # session[v].worker
    BY DEF OverlapInv, LocksExclude, Locking
  <2>2. r.kind \in {"claiming", "banning"} =>
          \A u \in Slots : session[u].kind \in {"claiming", "banning"} => session[u].worker # r.worker
    BY DEF Unlocked, Locking
  <2>3. \A u, v \in Slots : u # v /\ session'[u].kind \in {"claiming", "banning"}
                              /\ session'[v].kind \in {"claiming", "banning"}
                            => session'[u].worker # session'[v].worker
    BY <1>1, <2>1, <2>2
  <2>4. QED BY <2>3 DEF LocksExclude, Locking
<1>4. \A t \in TaskIds : Apart(task'[t])
  BY DEF OverlapInv, Follows
<1>5. QED BY <1>1, <1>2, <1>3, <1>4 DEF OverlapInv

\* A request that only reads, and one that ends.
LEMMA RequestReads ==
  ASSUME OverlapInv, NEW s \in Slots, NEW r, Open(s, r), UNCHANGED task, TypeOK',
         SlotOK(r), StillTrue(r, task), r.kind \in {"claiming", "banning"} => Unlocked(r.worker)
  PROVE  OverlapInv'
<1>1. session' = [session EXCEPT ![s] = r]
  BY DEF Open
<1>2. StillTrue(r, task') /\ \A t \in TaskIds : Follows(task[t], task'[t], {})
  BY Unchanged
<1>3. QED BY <1>1, <1>2, RequestAdvances

LEMMA RequestEnds ==
  ASSUME OverlapInv, TypeOK', NEW s \in Slots, Close(s), \A t \in TaskIds : Follows(task[t], task'[t], {})
  PROVE  OverlapInv'
<1>1. session' = [session EXCEPT ![s] = Idle] /\ Idle.kind = "idle"
  BY DEF Close, Idle
<1>2. SlotOK(Idle) /\ StillTrue(Idle, task')
  BY IdleSlot
<1>3. QED BY <1>1, <1>2, RequestAdvances

LEMMA SameTypes == ASSUME TypeOK, UNCHANGED vars PROVE TypeOK'
  BY DEF vars, TypeOK

LEMMA ReadKeeps == ASSUME OverlapInv, NEW s \in Slots, Read(s) PROVE OverlapInv'
<1>1. TypeOK
  BY DEF OverlapInv
<1>2. ASSUME NEW w \in Workers, ReadNext(s, w) PROVE OverlapInv'
  <2>1. PICK r : r = [kind |-> "asking", worker |-> w, staff |-> worker[w]]
    OBVIOUS
  <2>2. SlotOK(r) /\ StillTrue(r, task) /\ r.kind = "asking"
    BY <1>1, <2>1 DEF SlotOK, StillTrue, Kinds, TypeOK
  <2>3. Open(s, r) /\ UNCHANGED vars
    BY <1>2, <2>1 DEF ReadNext
  <2>4. QED BY <1>1, <2>2, <2>3, SameTypes, RequestReads DEF vars
<1>3. ASSUME NEW w \in Bannable, ReadBan(s, w) PROVE OverlapInv'
  <2>1. PICK r : r = [kind |-> "banning", worker |-> w, rows |-> task]
    OBVIOUS
  <2>2. w \in Workers
    BY SessionAssumption
  <2>3. SlotOK(r) /\ StillTrue(r, task) /\ r.kind = "banning" /\ r.worker = w
    BY <1>1, <2>1, <2>2 DEF SlotOK, StillTrue, Kinds, TypeOK
  <2>4. Open(s, r) /\ UNCHANGED vars /\ Unlocked(w)
    BY <1>3, <2>1 DEF ReadBan
  <2>5. QED BY <1>1, <2>3, <2>4, SameTypes, RequestReads DEF vars
<1>4. ASSUME NEW w \in Workers, NEW t \in TaskIds, NEW answer \in Answers, ReadSubmit(s, w, t, answer)
      PROVE  OverlapInv'
  <2>1. PICK r : r = [kind |-> "submitting", worker |-> w, staff |-> worker[w],
                      job |-> t, row |-> task[t], answer |-> answer]
    OBVIOUS
  <2>2. task[t] \in TaskRow /\ worker[w] \in WorkerRow /\ task[t].status = "assigned"
    BY <1>1, <1>4 DEF TypeOK, ReadSubmit
  <2>3. SlotOK(r) /\ StillTrue(r, task) /\ r.kind = "submitting"
    BY <2>1, <2>2 DEF SlotOK, StillTrue, Kinds
  <2>4. Open(s, r) /\ UNCHANGED vars
    BY <1>4, <2>1 DEF ReadSubmit
  <2>5. QED BY <1>1, <2>3, <2>4, SameTypes, RequestReads DEF vars
<1>5. ASSUME NEW w \in Workers, NEW t \in TaskIds, NEW answer \in Answers, ReadValidate(s, w, t, answer)
      PROVE  OverlapInv'
  <2>1. PICK parties : parties = {task[t].worker, w}
    OBVIOUS
  <2>2. PICK staff, books : /\ staff = [p \in parties |-> worker[p]]
                            /\ books = [p \in parties |-> account[p]]
    OBVIOUS
  <2>3. PICK r : r = [kind |-> "validating", worker |-> w, job |-> t, row |-> task[t],
                      answer |-> answer, staff |-> staff, books |-> books]
    OBVIOUS
  <2>4. /\ task[t] \in TaskRow /\ task[t].status = "validating" /\ task[t].validator = w
        /\ task[t].worker \in Workers /\ task[t].worker # w
    BY <1>1, <1>5 DEF TypeOK, ReadValidate, OverlapInv, Apart
  <2>5. parties \subseteq Workers
    BY <2>1, <2>4
  <2>6. staff \in [parties -> WorkerRow] /\ books \in [parties -> AccountRow]
    BY <1>1, <2>2, <2>5 DEF TypeOK
  <2>7. ToJudge(r)
    BY <2>1, <2>3, <2>4, <2>6 DEF ToJudge
  <2>8. SlotOK(r) /\ StillTrue(r, task) /\ r.kind = "validating"
    BY <2>3, <2>4, <2>7 DEF SlotOK, StillTrue, Kinds
  <2>9. Open(s, r) /\ UNCHANGED vars
    BY <1>5, <2>1, <2>2, <2>3 DEF ReadValidate
  <2>10. QED BY <1>1, <2>8, <2>9, SameTypes, RequestReads DEF vars
<1>6. ASSUME ReadSweep(s) PROVE OverlapInv'
  <2>1. PICK r : r = [kind |-> "sweeping", rows |-> task]
    OBVIOUS
  <2>2. SlotOK(r) /\ StillTrue(r, task) /\ r.kind = "sweeping"
    BY <1>1, <2>1 DEF SlotOK, StillTrue, Kinds, TypeOK
  <2>3. Open(s, r) /\ UNCHANGED vars
    BY <1>6, <2>1 DEF ReadSweep
  <2>4. QED BY <1>1, <2>2, <2>3, SameTypes, RequestReads DEF vars
<1>7. QED BY <1>2, <1>3, <1>4, <1>5, <1>6 DEF Read


\* The status column of one worker row.
LEMMA StatusWritten ==
  ASSUME TypeOK, NEW w \in Workers, NEW old \in WorkerRow, NEW status \in WorkerStatus,
         WriteStatus(w, old, status)
  PROVE  worker' \in [Workers -> WorkerRow]
<1>1. [old EXCEPT !.status = status] \in WorkerRow
  BY WorkerRowStatus
<1>2. PICK row : row = Written(worker[w], old, [old EXCEPT !.status = status])
  OBVIOUS
<1>3. row \in WorkerRow
  BY <1>1, <1>2, WrittenWorker DEF TypeOK
<1>4. worker' = [worker EXCEPT ![w] = row]
  BY <1>2 DEF WriteStatus
<1>5. QED BY <1>3, <1>4 DEF TypeOK

LEMMA SelectKeeps == ASSUME OverlapInv, NEW s \in Slots, SelectNext(s) PROVE OverlapInv'
<1>1. PICK w : w = session[s].worker
  OBVIOUS
<1>2. /\ TypeOK /\ session[s].kind = "asking" /\ SlotOK(session[s]) /\ Unlocked(w)
      /\ UNCHANGED <<task, account, transactions>>
  BY <1>1 DEF OverlapInv, SelectNext
<1>3. w \in Workers /\ session[s].staff \in WorkerRow
  BY <1>1, <1>2 DEF SlotOK, Kinds
<1>4. ASSUME NEW t \in TaskIds, NEW new, UNCHANGED worker,
             \/ /\ task[t].status = "submitted_A" /\ task[t].validator = NoWorker /\ task[t].worker # w
                /\ new = AsValidation(task[t], w)
             \/ task[t].status = "pending" /\ new = AsExecution(task[t], w),
             Open(s, [kind |-> "claiming", worker |-> w, job |-> t, row |-> task[t], new |-> new])
      PROVE  OverlapInv'
  <2>1. PICK r : r = [kind |-> "claiming", worker |-> w, job |-> t, row |-> task[t], new |-> new]
    OBVIOUS
  <2>2. task[t] \in TaskRow
    BY <1>2 DEF TypeOK
  <2>3. /\ r.kind = "claiming" /\ r.worker = w /\ r.job = t /\ r.row = task[t] /\ r.new = new
    BY <2>1
  <2>4. ToClaim(r)
    BY <1>4, <2>3 DEF ToClaim
  <2>5. SlotOK(r) /\ StillTrue(r, task)
    BY <1>3, <1>4, <2>2, <2>3, <2>4 DEF SlotOK, StillTrue, Kinds
  <2>6. Open(s, r) /\ TypeOK' /\ UNCHANGED task
    BY <1>2, <1>4, <2>1 DEF TypeOK
  <2>7. QED BY <1>2, <2>3, <2>5, <2>6, RequestReads
<1>5. CASE UNCHANGED worker /\ \E t \in TaskIds :
             /\ IsFirst(t, Validatable(w))
             /\ Open(s, [kind |-> "claiming", worker |-> w, job |-> t, row |-> task[t],
                         new |-> AsValidation(task[t], w)])
  <2>1. \A t \in TaskIds : IsFirst(t, Validatable(w)) =>
          task[t].status = "submitted_A" /\ task[t].validator = NoWorker /\ task[t].worker # w
    BY DEF IsFirst, Validatable
  <2>2. QED BY <1>4, <1>5, <2>1
<1>6. CASE UNCHANGED worker /\ \E t \in TaskIds :
             /\ IsFirst(t, Pending)
             /\ Open(s, [kind |-> "claiming", worker |-> w, job |-> t, row |-> task[t],
                         new |-> AsExecution(task[t], w)])
  <2>1. \A t \in TaskIds : IsFirst(t, Pending) => task[t].status = "pending"
    BY DEF IsFirst, Pending
  <2>2. QED BY <1>4, <1>6, <2>1
<1>7. CASE WriteStatus(w, session[s].staff, "online") /\ Close(s)
  <2>1. "online" \in WorkerStatus
    BY DEF WorkerStatus
  <2>2. worker' \in [Workers -> WorkerRow]
    BY <1>2, <1>3, <1>7, <2>1, StatusWritten
  <2>3. TypeOK' /\ \A t \in TaskIds : Follows(task[t], task'[t], {})
    BY <1>2, <2>2, Unchanged DEF TypeOK
  <2>4. QED BY <1>7, <2>3, RequestEnds
<1>8. QED BY <1>1, <1>5, <1>6, <1>7 DEF SelectNext

\* One row of a task is written.
LEMMA OneTaskWritten ==
  ASSUME TypeOK, NEW t \in TaskIds, NEW row \in TaskRow, task' = [task EXCEPT ![t] = row],
         NEW who, Follows(task[t], row, who)
  PROVE  task' \in [TaskIds -> TaskRow] /\ \A u \in TaskIds : Follows(task[u], task'[u], who)
<1>1. \A u \in TaskIds : task'[u] = IF u = t THEN row ELSE task[u]
  BY DEF TypeOK
<1>2. QED BY <1>1, Unchanged DEF TypeOK

LEMMA CommitNextKeeps == ASSUME OverlapInv, NEW s \in Slots, CommitNext(s) PROVE OverlapInv'
<1>1. PICK r, t : r = session[s] /\ t = r.job
  OBVIOUS
<1>2. PICK row : row = [Written(task[t], r.row, r.new) EXCEPT !.lease = "live"]
  OBVIOUS
<1>3. /\ TypeOK /\ r.kind = "claiming" /\ SlotOK(r) /\ StillTrue(r, task) /\ Close(s)
      /\ task' = [task EXCEPT ![t] = row]
      /\ worker' = [worker EXCEPT ![r.worker].status = "working"]
      /\ UNCHANGED <<account, transactions>>
  BY <1>1, <1>2 DEF CommitNext, OverlapInv
<1>4. t \in TaskIds /\ r.worker \in Workers /\ r.row \in TaskRow /\ ToClaim(r)
  BY <1>1, <1>3 DEF SlotOK, Kinds
<1>5. task[t] \in TaskRow /\ (r.row.status = "submitted_A" => task[t].worker # r.worker)
  BY <1>1, <1>3, <1>4 DEF TypeOK, StillTrue
<1>6. row \in TaskRow /\ Follows(task[t], row, {r.worker})
  BY <1>2, <1>4, <1>5, ClaimedFollows
<1>7. task' \in [TaskIds -> TaskRow] /\ \A u \in TaskIds : Follows(task[u], task'[u], {r.worker})
  BY <1>3, <1>4, <1>6, OneTaskWritten
<1>8. worker' \in [Workers -> WorkerRow]
  BY <1>3, <1>4, WorkerStatusUpdate DEF WorkerStatus, TypeOK
<1>9. TypeOK'
  BY <1>3, <1>7, <1>8 DEF TypeOK
<1>10. session' = [session EXCEPT ![s] = Idle] /\ Idle.kind = "idle" /\ Locking(s)
  BY <1>1, <1>3 DEF Close, Idle, Locking
<1>11. SlotOK(Idle) /\ StillTrue(Idle, task')
  BY IdleSlot
<1>12. QED BY <1>1, <1>7, <1>9, <1>10, <1>11, RequestAdvances

LEMMA CommitSubmitKeeps ==
  ASSUME OverlapInv, NEW s \in Slots, CommitSubmit(s) \/ CommitTooLate(s) PROVE OverlapInv'
<1>1. PICK r, t : r = session[s] /\ t = r.job
  OBVIOUS
<1>2. /\ TypeOK /\ r.kind = "submitting" /\ SlotOK(r) /\ Close(s)
      /\ UNCHANGED <<account, transactions>>
  BY <1>1 DEF CommitSubmit, CommitTooLate, OverlapInv
<1>3. /\ t \in TaskIds /\ r.worker \in Workers /\ r.row \in TaskRow /\ r.row.status = "assigned"
      /\ r.answer \in Answers /\ r.staff \in WorkerRow
  BY <1>1, <1>2 DEF SlotOK, Kinds
<1>4. task[t] \in TaskRow
  BY <1>2, <1>3 DEF TypeOK
<1>5. PICK new : /\ WriteTask(t, r.row, new)
                 /\ new = AsSubmitted(r.row, r.answer) \/ new = AsReturned(r.row)
  BY <1>1 DEF CommitSubmit, CommitTooLate
<1>6. PICK row : row = Written(task[t], r.row, new)
  OBVIOUS
<1>7. row \in TaskRow /\ Follows(task[t], row, {})
  BY <1>3, <1>4, <1>5, <1>6, SubmittedFollows, ReturnedFollows
<1>8. task' = [task EXCEPT ![t] = row]
  BY <1>5, <1>6 DEF WriteTask
<1>9. task' \in [TaskIds -> TaskRow] /\ \A u \in TaskIds : Follows(task[u], task'[u], {})
  BY <1>2, <1>3, <1>7, <1>8, OneTaskWritten
<1>10. worker' \in [Workers -> WorkerRow]
  <2>1. CASE CommitSubmit(s)
    <3>1. WriteStatus(r.worker, r.staff, "idle") /\ "idle" \in WorkerStatus
      BY <1>1, <2>1 DEF CommitSubmit, WorkerStatus
    <3>2. QED BY <1>2, <1>3, <3>1, StatusWritten
  <2>2. CASE CommitTooLate(s)
    BY <1>2, <2>2 DEF CommitTooLate, TypeOK
  <2>3. QED BY <2>1, <2>2
<1>11. TypeOK'
  BY <1>2, <1>9, <1>10 DEF TypeOK
<1>12. QED BY <1>2, <1>9, <1>11, RequestEnds

LEMMA CommitAllKeeps ==
  ASSUME OverlapInv, NEW s \in Slots, CommitSweep(s) \/ CommitBan(s) PROVE OverlapInv'
<1>1. PICK r : r = session[s]
  OBVIOUS
<1>2. /\ TypeOK /\ r.kind \in {"sweeping", "banning"} /\ SlotOK(r) /\ Close(s)
      /\ UNCHANGED <<account, transactions>>
  BY <1>1 DEF CommitSweep, CommitBan, OverlapInv
<1>3. r.rows \in [TaskIds -> TaskRow] /\ (r.kind = "banning" => r.worker \in Workers)
  BY <1>2 DEF SlotOK, Kinds
<1>4. ASSUME NEW t \in TaskIds
      PROVE  task'[t] \in TaskRow /\ Follows(task[t], task'[t], {})
  <2>1. task[t] \in TaskRow /\ r.rows[t] \in TaskRow
    BY <1>2, <1>3 DEF TypeOK
  <2>2. CASE CommitSweep(s)
    <3>1. task'[t] = Written(task[t], r.rows[t], AfterExpiry(r.rows[t]))
      BY <1>1, <2>2 DEF CommitSweep
    <3>2. QED BY <2>1, <3>1, SweptFollows
  <2>3. CASE CommitBan(s)
    <3>1. r.worker \in Workers /\ task'[t] = Written(task[t], r.rows[t], AfterBan(r.worker, r.rows[t]))
      BY <1>1, <1>3, <2>3 DEF CommitBan
    <3>2. QED BY <2>1, <3>1, BannedFollows
  <2>4. QED BY <2>2, <2>3
<1>5. task' \in [TaskIds -> TaskRow]
  <2>1. task' = [t \in TaskIds |-> task'[t]]
    BY DEF CommitSweep, CommitBan
  <2>2. QED BY <1>4, <2>1
<1>6. worker' \in [Workers -> WorkerRow]
  <2>1. [status |-> "banned", isBanned |-> TRUE] \in WorkerRow
    BY DEF WorkerRow, WorkerStatus
  <2>2. QED BY <1>1, <1>2, <1>3, <2>1 DEF CommitSweep, CommitBan, TypeOK
<1>7. TypeOK'
  BY <1>2, <1>5, <1>6 DEF TypeOK
<1>8. QED BY <1>2, <1>4, <1>7, RequestEnds

-----------------------------------------------------------------------------
(* Verdicts *)

LEMMA CreditedType ==
  ASSUME NEW P, NEW accounts \in [P -> AccountRow], NEW row, row.worker \in P, row.validator \in P,
         row.worker # row.validator, NEW verdict \in Verdicts
  PROVE  Credited(accounts, row, verdict) \in [P -> AccountRow]
<1>1. \A acct \in AccountRow : ExecutorAccount(acct, row, verdict) \in AccountRow
  BY ExecutorAccountType
<1>2. \A acct \in AccountRow : ValidatorAccount(acct, row, verdict) \in AccountRow
  BY ValidatorAccountType
<1>3. PICK first, second : /\ first = ExecutorAccount(accounts[row.worker], row, verdict)
                           /\ second = ValidatorAccount(accounts[row.validator], row, verdict)
  OBVIOUS
<1>4. first \in AccountRow /\ second \in AccountRow
  BY <1>1, <1>2, <1>3
<1>5. Credited(accounts, row, verdict) = [accounts EXCEPT ![row.worker] = first, ![row.validator] = second]
  BY <1>3 DEF Credited
<1>6. QED BY <1>4, <1>5

\* What a commit of a verdict writes, spelled out.
VerdictWritten(r, verdict, books, row) ==
  /\ r.kind = "validating" /\ r.job \in TaskIds /\ r.row \in TaskRow /\ ToJudge(r)
  /\ r.worker \in Workers /\ verdict \in Verdicts
  /\ books = Credited(r.books, r.row, verdict)
  /\ books \in [{r.row.worker, r.worker} -> AccountRow]
  /\ row \in TaskRow /\ Follows(task[r.job], row, {})
  /\ row.status = (IF verdict = "match" THEN "done" ELSE "rejected") /\ row.type = r.row.type
  /\ task' = [task EXCEPT ![r.job] = row]
  /\ account' = [p \in Workers |-> IF p \in {r.row.worker, r.worker}
                                   THEN Written(account[p], r.books[p], books[p]) ELSE account[p]]
  /\ transactions' = [transactions EXCEPT ![r.job] = @ \o Payments(r.row, verdict)]
  /\ Payments(r.row, verdict) \in Seq(TransactionRow)

LEMMA VerdictCommitted ==
  ASSUME OverlapInv, NEW s \in Slots, CommitValidate(s)
  PROVE  \E verdict, books, row : VerdictWritten(session[s], verdict, books, row)
<1>1. PICK r : r = session[s]
  OBVIOUS
<1>2. PICK verdict \in Verdicts : verdict = Verdict(r.row, r.answer)
  BY VerdictType
<1>3. PICK books : books = Credited(r.books, r.row, verdict)
  OBVIOUS
<1>4. PICK row : row = Written(task[r.job], r.row, AsJudged(r.row, verdict))
  OBVIOUS
<1>5. r.kind = "validating" /\ TypeOK /\ SlotOK(r) /\ StillTrue(r, task)
  BY <1>1 DEF CommitValidate, OverlapInv
<1>6. /\ r.job \in TaskIds /\ r.row \in TaskRow /\ ToJudge(r) /\ r.worker \in Workers
      /\ task[r.job] \in TaskRow /\ task[r.job].type = r.row.type
  BY <1>5 DEF SlotOK, Kinds, TypeOK, StillTrue
<1>7. PICK parties : parties = {r.row.worker, r.worker}
  OBVIOUS
<1>8. /\ r.row.status = "validating" /\ r.row.worker \in Workers /\ r.row.validator = r.worker
      /\ r.row.worker # r.row.validator
      /\ r.books \in [parties -> AccountRow] /\ r.row.worker \in parties /\ r.row.validator \in parties
  BY <1>6, <1>7 DEF ToJudge
<1>9. books \in [parties -> AccountRow]
  BY <1>2, <1>3, <1>8, CreditedType
<1>10. /\ row \in TaskRow /\ Follows(task[r.job], row, {})
       /\ row.status = (IF verdict = "match" THEN "done" ELSE "rejected") /\ row.type = task[r.job].type
  BY <1>4, <1>6, <1>8, JudgedFollows
<1>11. /\ WriteTask(r.job, r.row, AsJudged(r.row, verdict))
       /\ account' = [p \in Workers |-> IF p \in DOMAIN books THEN Written(account[p], r.books[p], books[p])
                                        ELSE account[p]]
       /\ transactions' = [transactions EXCEPT ![r.job] = @ \o Payments(r.row, verdict)]
  BY <1>1, <1>2, <1>3 DEF CommitValidate
<1>12. task' = [task EXCEPT ![r.job] = row]
  BY <1>4, <1>11 DEF WriteTask
<1>13. DOMAIN books = parties
  BY <1>9
<1>14. Payments(r.row, verdict) \in Seq(TransactionRow)
  BY <1>6, <1>8, PaymentsType
<1>15. VerdictWritten(r, verdict, books, row)
  BY <1>2, <1>3, <1>5, <1>6, <1>7, <1>9, <1>10, <1>11, <1>12, <1>13, <1>14 DEF VerdictWritten
<1>16. QED BY <1>1, <1>15

LEMMA CommitValidateKeeps == ASSUME OverlapInv, NEW s \in Slots, CommitValidate(s) PROVE OverlapInv'
<1>1. PICK r : r = session[s]
  OBVIOUS
<1>2. PICK verdict, books, row : VerdictWritten(r, verdict, books, row)
  BY <1>1, VerdictCommitted
<1>3. TypeOK /\ Close(s)
  BY DEF OverlapInv, CommitValidate
<1>4. task' \in [TaskIds -> TaskRow] /\ \A u \in TaskIds : Follows(task[u], task'[u], {})
  BY <1>2, <1>3, OneTaskWritten DEF VerdictWritten
<1>5. PICK parties : parties = {r.row.worker, r.worker}
  OBVIOUS
<1>6. /\ parties \subseteq Workers /\ r.staff \in [parties -> WorkerRow] /\ r.books \in [parties -> AccountRow]
      /\ books \in [parties -> AccountRow]
  BY <1>2, <1>5 DEF VerdictWritten, ToJudge
<1>7. account' \in [Workers -> AccountRow]
  <2>1. \A p \in parties : Written(account[p], r.books[p], books[p]) \in AccountRow
    BY <1>3, <1>6, WrittenAccount DEF TypeOK
  <2>2. account' = [p \in Workers |-> IF p \in parties THEN Written(account[p], r.books[p], books[p])
                                      ELSE account[p]]
    BY <1>2, <1>5 DEF VerdictWritten
  <2>3. QED BY <1>3, <2>1, <2>2 DEF TypeOK
<1>8. worker' \in [Workers -> WorkerRow]
  <2>1. PICK idle : idle = [p \in DOMAIN r.staff |-> [r.staff[p] EXCEPT !.status = "idle"]]
    OBVIOUS
  <2>2. "idle" \in WorkerStatus /\ DOMAIN r.staff = parties
    BY <1>6 DEF WorkerStatus
  <2>3. \A p \in parties : idle[p] \in WorkerRow
    BY <1>6, <2>1, <2>2, WorkerRowStatus
  <2>4. \A p \in parties : Written(worker[p], r.staff[p], idle[p]) \in WorkerRow
    BY <1>3, <1>6, <2>3, WrittenWorker DEF TypeOK
  <2>5. worker' = [p \in Workers |-> IF p \in parties THEN Written(worker[p], r.staff[p], idle[p])
                                     ELSE worker[p]]
    BY <1>1, <2>1, <2>2 DEF CommitValidate
  <2>6. QED BY <1>3, <2>4, <2>5 DEF TypeOK
<1>9. transactions' \in [TaskIds -> Seq(TransactionRow)]
  <2>1. PICK pay : pay = Payments(r.row, verdict)
    OBVIOUS
  <2>2. /\ pay \in Seq(TransactionRow) /\ r.job \in TaskIds
        /\ transactions' = [transactions EXCEPT ![r.job] = @ \o pay]
    BY <1>2, <2>1 DEF VerdictWritten
  <2>3. transactions[r.job] \o pay \in Seq(TransactionRow)
    BY <1>3, <2>2 DEF TypeOK
  <2>4. QED BY <1>3, <2>2, <2>3 DEF TypeOK
<1>10. TypeOK'
  BY <1>4, <1>7, <1>8, <1>9 DEF TypeOK
<1>11. QED BY <1>3, <1>4, <1>10, RequestEnds

-----------------------------------------------------------------------------
(* Every step keeps the invariant *)

LEMMA AloneKeeps == ASSUME OverlapInv, Alone PROVE OverlapInv'
<1>1. TypeOK /\ UNCHANGED session
  BY DEF OverlapInv, Alone
<1>2. TypeOK'
  <2>1. Next
    BY SessionAssumption DEF Alone, Next, WorkerRequest, AdminRequest
  <2>2. QED BY <1>1, <2>1, NextTypeOK
<1>3. ASSUME NEW t \in TaskIds PROVE Follows(task[t], task'[t], {})
  <2>1. CASE ClientRequest
    <3>1. PICK u \in TaskIds, type \in TaskTypes, priority \in Priorities, golden \in Answers \cup {NoAnswer} :
            CreateTask(u, type, priority, golden)
      BY <2>1 DEF ClientRequest
    <3>2. CASE t = u
      BY <1>1, <3>1, <3>2 DEF CreateTask, NewTask, TypeOK, Follows, Apart
    <3>3. CASE t # u
      BY <1>1, <3>1, <3>3, Unchanged DEF CreateTask, TypeOK
    <3>4. QED BY <3>2, <3>3
  <2>2. ASSUME NEW u \in TaskIds, LeaseLapses(u) PROVE Follows(task[t], task'[t], {})
    <3>1. task' = [task EXCEPT ![u].lease = "lapsed"] /\ task[t] \in TaskRow
      BY <1>1, <2>2 DEF LeaseLapses, TypeOK
    <3>2. /\ task'[t].status = task[t].status /\ task'[t].type = task[t].type
          /\ task'[t].worker = task[t].worker /\ task'[t].validator = task[t].validator
      BY <1>1, <3>1 DEF TypeOK, TaskRow
    <3>3. QED BY <3>2 DEF Follows, Apart
  <2>3. CASE UNCHANGED task
    BY <2>3, Unchanged
  <2>4. QED BY <2>1, <2>2, <2>3 DEF Alone, RegisterWorker, UnbanWorker
<1>4. ASSUME NEW s \in Slots PROVE SlotOK(session[s]) /\ StillTrue(session[s], task')
  <2>1. SlotOK(session[s]) /\ StillTrue(session[s], task)
    BY DEF OverlapInv
  <2>2. QED BY <1>3, <2>1, StaysTrue
<1>5. \A t \in TaskIds : Apart(task'[t])
  BY <1>3 DEF OverlapInv, Follows
<1>6. QED BY <1>1, <1>2, <1>4, <1>5 DEF OverlapInv, LocksExclude, Locking

LEMMA OverlapStarts == ASSUME SessionInit PROVE OverlapInv
<1>1. TypeOK /\ session = [s \in Slots |-> Idle]
  BY InitTypeOK DEF SessionInit
<1>2. \A s \in Slots : session[s] = Idle /\ SlotOK(session[s]) /\ StillTrue(session[s], task)
  BY <1>1, IdleSlot
<1>3. \A t \in TaskIds : Apart(task[t])
  BY DEF SessionInit, Init, AbsentTask, NewTask, Apart
<1>4. Idle.kind = "idle"
  BY DEF Idle
<1>5. QED BY <1>1, <1>2, <1>3, <1>4 DEF OverlapInv, LocksExclude, Locking

LEMMA OverlapNext == ASSUME OverlapInv, [SessionNext]_sessionVars PROVE OverlapInv'
<1>1. CASE Alone
  BY <1>1, AloneKeeps
<1>2. ASSUME NEW s \in Slots, Read(s) \/ SelectNext(s) \/ Commit(s) PROVE OverlapInv'
  BY <1>2, ReadKeeps, SelectKeeps, CommitNextKeeps, CommitSubmitKeeps, CommitValidateKeeps,
     CommitAllKeeps DEF Commit
<1>3. CASE UNCHANGED sessionVars
  <2>1. UNCHANGED <<task, worker, account, transactions, session>>
    BY <1>3 DEF sessionVars, vars
  <2>2. QED BY <2>1 DEF OverlapInv, TypeOK, LocksExclude, Locking
<1>4. QED BY <1>1, <1>2, <1>3 DEF SessionNext

LEMMA OverlapHolds == SessionSpec => []OverlapInv
<1>1. SessionInit => OverlapInv
  BY OverlapStarts
<1>2. OverlapInv /\ [SessionNext]_sessionVars => OverlapInv'
  BY OverlapNext
<1>3. QED BY <1>1, <1>2, PTL DEF SessionSpec

\* Whatever requests overlap, for any numbers of workers, tasks and open requests: the rows keep
\* their types, and no open request judges a result of its own worker (the lock of get_next_task
\* on the worker row, the query for a validator's task, and the columns an UPDATE names).
THEOREM NobodyJudgesHimself == SessionSpec => []SessionInv
<1>1. OverlapInv => SessionInv
  BY DEF OverlapInv, SlotOK, ToJudge, SessionInv, SessionTypeOK, NoSelfVerdict
<1>2. QED BY <1>1, OverlapHolds, PTL

-----------------------------------------------------------------------------
(* Balances and the ledger *)

\* The balances an open verdict has read are in the ledger.
Backed(r, table) ==
  r.kind = "validating" => \A p \in DOMAIN r.books : r.books[p].balance <= EarnedIn(table, p)

MoneyBacked ==
  /\ \A w \in Workers : account[w].balance <= EarnedIn(transactions, w)
  /\ \A s \in Slots : Backed(session[s], transactions)

LEMMA PaidOneMore ==
  ASSUME NEW old \in Seq(TransactionRow), NEW all \in Seq(TransactionRow), Len(all) = Len(old) + 1,
         \A i \in 1 .. Len(old) : all[i] = old[i], NEW w
  PROVE  PaidOut(all, DOMAIN all, w) = PaidOut(old, DOMAIN old, w) + Share(all[Len(all)], w)
<1>1. PICK n : n = Len(old)
  OBVIOUS
<1>2. /\ n \in Nat /\ Len(all) = n + 1 /\ DOMAIN old = 1 .. n /\ DOMAIN all = (1 .. n) \cup {n + 1}
      /\ n + 1 \notin 1 .. n
  BY <1>1, LenProperties
<1>3. IsFiniteSet(1 .. n) /\ IsFiniteSet((1 .. n) \cup {n + 1})
  BY <1>2, FS_Interval, FS_AddElement
<1>4. PICK F, G : F = Paid(all, DOMAIN all, w) /\ G = Paid(old, DOMAIN old, w)
  OBVIOUS
<1>5. \A i \in DOMAIN all : F[i] \in Int
  <2>1. \A i \in DOMAIN all : all[i] \in TransactionRow
    BY <1>2, ElementOfSeq
  <2>2. QED BY <1>4, <2>1 DEF Paid, Share, TransactionRow
<1>6. SumOver(F, (1 .. n) \cup {n + 1}) = F[n + 1] + SumOver(F, 1 .. n)
  BY <1>2, <1>3, <1>5, SumWith
<1>7. SumOver(F, 1 .. n) = SumOver(G, 1 .. n)
  <2>1. \A i \in 1 .. n : F[i] = G[i]
    BY <1>1, <1>2, <1>4 DEF Paid
  <2>2. QED BY <1>3, <2>1, SumSame
<1>8. F[n + 1] = Share(all[n + 1], w)
  BY <1>2, <1>4 DEF Paid
<1>9. SumOver(F, 1 .. n) \in Int
  BY <1>2, <1>3, <1>5, SumType
<1>10. F[n + 1] \in Int
  BY <1>2, <1>5
<1>11. /\ PaidOut(all, DOMAIN all, w) = SumOver(F, DOMAIN all)
       /\ PaidOut(old, DOMAIN old, w) = SumOver(G, DOMAIN old)
  BY <1>2, <1>3, <1>4, PaidOutIsSum
<1>12. QED BY <1>2, <1>6, <1>7, <1>8, <1>9, <1>10, <1>11

\* What the two rewards of a match leave in the table.
EndsWithRewards(old, row, all) ==
  /\ Len(all) = Len(old) + 2
  /\ \A i \in 1 .. Len(old) : all[i] = old[i]
  /\ all[Len(old) + 1] = [worker |-> row.worker, kind |-> "reward", amount |-> TaskReward(row.type)]
  /\ all[Len(old) + 2] =
       [worker |-> row.validator, kind |-> "reward", amount |-> ValidatorReward(row.type)]

LEMMA MatchOnTop ==
  ASSUME NEW old \in Seq(TransactionRow), NEW row \in TaskRow, row.worker \in Workers,
         row.validator \in Workers
  PROVE  EndsWithRewards(old, row, old \o Payments(row, "match"))
<1>1. PICK n, all : n = Len(old) /\ all = old \o Payments(row, "match")
  OBVIOUS
<1>2. n \in Nat
  BY <1>1, LenProperties
<1>3. PICK pay : pay = Payments(row, "match")
  OBVIOUS
<1>4. PICK a, b : /\ a = [worker |-> row.worker, kind |-> "reward", amount |-> TaskReward(row.type)]
                  /\ b = [worker |-> row.validator, kind |-> "reward",
                          amount |-> ValidatorReward(row.type)]
  OBVIOUS
<1>5. pay = <<a, b>>
  BY <1>3, <1>4 DEF Payments
<1>6. Len(pay) = 2 /\ pay[1] = a /\ pay[2] = b
  BY <1>5
<1>7. pay \in Seq(TransactionRow)
  BY <1>3, PaymentsType DEF Verdicts
<1>8. /\ all \in Seq(TransactionRow) /\ Len(all) = n + Len(pay)
      /\ \A i \in 1 .. n + Len(pay) : all[i] = IF i <= n THEN old[i] ELSE pay[i - n]
  BY <1>1, <1>3, <1>7, ConcatProperties
<1>9. /\ Len(all) = n + 2
      /\ \A i \in 1 .. n + 2 : all[i] = IF i <= n THEN old[i] ELSE pay[i - n]
  BY <1>6, <1>8
<1>10. all[n + 1] = a
  <2>1. n + 1 \in 1 .. n + 2 /\ ~(n + 1 <= n) /\ (n + 1) - n = 1
    BY <1>2
  <2>2. all[n + 1] = pay[(n + 1) - n]
    BY <1>9, <2>1
  <2>3. QED BY <1>6, <2>1, <2>2
<1>11. all[n + 2] = b
  <2>1. n + 2 \in 1 .. n + 2 /\ ~(n + 2 <= n) /\ (n + 2) - n = 2
    BY <1>2
  <2>2. all[n + 2] = pay[(n + 2) - n]
    BY <1>9, <2>1
  <2>3. QED BY <1>6, <2>1, <2>2
<1>12. \A i \in 1 .. n : all[i] = old[i]
  BY <1>2, <1>9
<1>13. QED BY <1>1, <1>4, <1>9, <1>10, <1>11, <1>12 DEF EndsWithRewards

\* The rows of a verdict add what is due to each worker, whatever the task has paid before.
LEMMA PaidOnTop ==
  ASSUME NEW old \in Seq(TransactionRow), NEW row \in TaskRow, row.worker \in Workers,
         row.validator \in Workers, row.worker # row.validator, NEW verdict \in Verdicts, NEW w,
         NEW all, all = old \o Payments(row, verdict)
  PROVE  PaidOut(all, DOMAIN all, w) = PaidOut(old, DOMAIN old, w) + Due(row, verdict, w)
<1>1. PICK n : n = Len(old)
  OBVIOUS
<1>2. n \in Nat /\ PaidOut(old, DOMAIN old, w) \in Nat
  BY <1>1, LenProperties, PaidOutType
<1>3. PICK pay : pay = Payments(row, verdict)
  OBVIOUS
<1>4. pay \in Seq(TransactionRow)
  BY <1>3, PaymentsType
<1>5. /\ all \in Seq(TransactionRow) /\ Len(all) = n + Len(pay)
      /\ \A i \in 1 .. n + Len(pay) : all[i] = IF i <= n THEN old[i] ELSE pay[i - n]
  BY <1>1, <1>3, <1>4, ConcatProperties
<1>6. TaskReward(row.type) \in Nat /\ ValidatorReward(row.type) \in Nat
  BY RewardType
<1>7. CASE verdict = "match"
  <2>1. PICK a, b : /\ a = [worker |-> row.worker, kind |-> "reward", amount |-> TaskReward(row.type)]
                    /\ b = [worker |-> row.validator, kind |-> "reward",
                            amount |-> ValidatorReward(row.type)]
    OBVIOUS
  <2>2. /\ Len(all) = n + 2 /\ \A i \in 1 .. n : all[i] = old[i]
        /\ all[n + 1] = a /\ all[n + 2] = b
    <3>1. all = old \o Payments(row, "match")
      BY <1>7
    <3>2. EndsWithRewards(old, row, old \o Payments(row, "match"))
      BY MatchOnTop, Zenon
    <3>3. QED BY <1>1, <2>1, <3>1, <3>2 DEF EndsWithRewards
  <2>3. a \in TransactionRow
    BY <1>6, <2>1 DEF TransactionRow
  <2>4. PICK mid : mid = old \o <<a>>
    OBVIOUS
  <2>5. <<a>> \in Seq(TransactionRow) /\ Len(<<a>>) = 1 /\ <<a>>[1] = a
    BY <2>3
  <2>6. /\ mid \in Seq(TransactionRow) /\ Len(mid) = n + 1
        /\ \A i \in 1 .. n + 1 : mid[i] = IF i <= n THEN old[i] ELSE <<a>>[i - n]
    <3>1. PICK one : one = <<a>>
      OBVIOUS
    <3>2. one \in Seq(TransactionRow) /\ Len(one) = 1 /\ mid = old \o one
      BY <2>4, <2>5, <3>1
    <3>3. /\ mid \in Seq(TransactionRow) /\ Len(mid) = n + Len(one)
          /\ \A i \in 1 .. n + Len(one) : mid[i] = IF i <= n THEN old[i] ELSE one[i - n]
      BY <1>1, <3>2, ConcatProperties
    <3>4. QED BY <3>1, <3>2, <3>3
  <2>7. mid[n + 1] = a /\ \A i \in 1 .. n : mid[i] = old[i]
    BY <1>2, <2>5, <2>6
  <2>8. /\ Len(all) = n + 2 /\ all[n + 2] = b /\ \A i \in 1 .. n + 1 : all[i] = mid[i]
    <3>1. \A i \in 1 .. n + 1 : i \in 1 .. n \/ i = n + 1
      BY <1>2
    <3>2. QED BY <2>2, <2>7, <3>1
  <2>9. PaidOut(mid, DOMAIN mid, w) = PaidOut(old, DOMAIN old, w) + Share(a, w)
    <3>1. PaidOut(mid, DOMAIN mid, w) = PaidOut(old, DOMAIN old, w) + Share(mid[Len(mid)], w)
      BY <1>1, <2>6, <2>7, PaidOneMore
    <3>2. QED BY <2>6, <2>7, <3>1
  <2>10. PaidOut(all, DOMAIN all, w) = PaidOut(mid, DOMAIN mid, w) + Share(b, w)
    <3>1. Len(all) = Len(mid) + 1 /\ \A i \in 1 .. Len(mid) : all[i] = mid[i]
      BY <1>2, <2>6, <2>8
    <3>2. PaidOut(all, DOMAIN all, w) = PaidOut(mid, DOMAIN mid, w) + Share(all[Len(all)], w)
      BY <1>5, <2>6, <3>1, PaidOneMore
    <3>3. QED BY <2>8, <3>2
  <2>11. /\ Share(a, w) = IF w = row.worker THEN TaskReward(row.type) ELSE 0
         /\ Share(b, w) = IF w = row.validator THEN ValidatorReward(row.type) ELSE 0
    BY <2>1 DEF Share
  <2>12. Due(row, verdict, w) = IF w = row.worker THEN TaskReward(row.type)
                                ELSE IF w = row.validator THEN ValidatorReward(row.type) ELSE 0
    BY <1>7 DEF Due
  <2>13. QED BY <1>2, <1>6, <2>9, <2>10, <2>11, <2>12
<1>8. CASE verdict = "mismatch"
  <2>1. PICK a : a = [worker |-> row.validator, kind |-> "bonus", amount |-> 10]
    OBVIOUS
  <2>2. pay = <<a>>
    BY <1>3, <1>8, <2>1 DEF Payments
  <2>3. Len(pay) = 1 /\ pay[1] = a
    BY <2>2
  <2>4. Len(all) = n + 1 /\ all[n + 1] = a /\ \A i \in 1 .. n : all[i] = old[i]
    <3>1. /\ Len(all) = n + 1
          /\ \A i \in 1 .. n + 1 : all[i] = IF i <= n THEN old[i] ELSE pay[i - n]
      BY <1>5, <2>3
    <3>2. n + 1 \in 1 .. n + 1 /\ ~(n + 1 <= n) /\ (n + 1) - n = 1
      BY <1>2
    <3>3. all[n + 1] = pay[(n + 1) - n]
      BY <3>1, <3>2
    <3>4. \A i \in 1 .. n : all[i] = old[i]
      BY <1>2, <3>1
    <3>5. QED BY <2>3, <3>1, <3>2, <3>3, <3>4
  <2>5. PaidOut(all, DOMAIN all, w) = PaidOut(old, DOMAIN old, w) + Share(all[Len(all)], w)
    BY <1>1, <1>5, <2>4, PaidOneMore
  <2>6. Share(a, w) = IF w = row.validator THEN 10 ELSE 0
    BY <2>1 DEF Share
  <2>7. Due(row, verdict, w) = IF w = row.validator THEN 10 ELSE 0
    BY <1>8 DEF Due
  <2>8. QED BY <2>4, <2>5, <2>6, <2>7
<1>9. CASE verdict = "golden_failed"
  <2>1. pay = << >>
    BY <1>3, <1>9 DEF Payments
  <2>2. all = old
    BY <1>3, <2>1
  <2>3. Due(row, verdict, w) = 0
    BY <1>9 DEF Due
  <2>4. QED BY <1>2, <2>2, <2>3
<1>10. QED BY <1>7, <1>8, <1>9 DEF Verdicts

\* After a verdict, each worker has earned what was due to it in addition.
LEMMA VerdictEarns ==
  ASSUME TypeOK, NEW r, NEW verdict, NEW books, NEW row, VerdictWritten(r, verdict, books, row), NEW w
  PROVE  /\ EarnedIn(transactions, w) \in Nat /\ Due(r.row, verdict, w) \in Nat
         /\ EarnedIn(transactions', w) = EarnedIn(transactions, w) + Due(r.row, verdict, w)
<1>1. PICK t, old, all : /\ t = r.job /\ old = transactions[t] /\ all = old \o Payments(r.row, verdict)
  OBVIOUS
<1>2. /\ t \in TaskIds /\ r.row \in TaskRow /\ r.row.worker \in Workers /\ r.row.validator \in Workers
      /\ r.row.worker # r.row.validator /\ verdict \in Verdicts
      /\ Payments(r.row, verdict) \in Seq(TransactionRow)
      /\ transactions' = [transactions EXCEPT ![t] = all]
  BY <1>1 DEF VerdictWritten, ToJudge
<1>3. old \in Seq(TransactionRow) /\ transactions \in [TaskIds -> Seq(TransactionRow)]
  BY <1>1, <1>2 DEF TypeOK
<1>4. all \in Seq(TransactionRow)
  <2>1. PICK pay : pay = Payments(r.row, verdict)
    OBVIOUS
  <2>2. pay \in Seq(TransactionRow) /\ all = old \o pay
    BY <1>1, <1>2, <2>1
  <2>3. QED BY <1>3, <2>2, ConcatProperties
<1>5. PICK before, due, had, has : /\ before = EarnedIn(transactions, w) /\ due = Due(r.row, verdict, w)
                                   /\ had = PaidOut(old, DOMAIN old, w)
                                   /\ has = PaidOut(all, DOMAIN all, w)
  OBVIOUS
<1>6. has = had + due
  <2>1. PICK work : work = r.row
    OBVIOUS
  <2>2. /\ work \in TaskRow /\ work.worker \in Workers /\ work.validator \in Workers
        /\ work.worker # work.validator /\ verdict \in Verdicts /\ all = old \o Payments(work, verdict)
    BY <1>1, <1>2, <2>1
  <2>3. PaidOut(all, DOMAIN all, w) = PaidOut(old, DOMAIN old, w) + Due(work, verdict, w)
    <3>1. old \in Seq(TransactionRow)
      BY <1>3
    <3>2. QED BY ONLY <2>2, <3>1, PaidOnTop, Zenon
  <2>4. QED BY <1>5, <2>1, <2>3
<1>7. had \in Nat
  BY <1>3, <1>5, PaidOutType
<1>8. due \in Nat
  BY <1>5, RewardType DEF Due
<1>9. before \in Nat /\ EarnedIn(transactions', w) = before + (has - had)
  <2>1. /\ EarnedIn(transactions, w) \in Nat
        /\ EarnedIn([transactions EXCEPT ![t] = all], w) =
             EarnedIn(transactions, w)
               + (PaidOut(all, DOMAIN all, w) - PaidOut(transactions[t], DOMAIN transactions[t], w))
    BY ONLY <1>2, <1>3, <1>4, EarnedReplaced
  <2>2. EarnedIn(transactions', w) = EarnedIn([transactions EXCEPT ![t] = all], w)
    BY <1>2
  <2>3. QED BY <1>1, <1>5, <2>1, <2>2
<1>10. QED BY <1>5, <1>6, <1>7, <1>8, <1>9

\* A balance is written from what was read and what is due, and both are in the ledger.
LEMMA VerdictStaysBacked ==
  ASSUME OverlapInv, MoneyBacked, NEW s \in Slots, CommitValidate(s) PROVE MoneyBacked'
<1>1. PICK r : r = session[s]
  OBVIOUS
<1>2. PICK verdict, books, row : VerdictWritten(r, verdict, books, row)
  BY <1>1, VerdictCommitted
<1>3. TypeOK /\ r.kind = "validating"
  BY <1>2 DEF OverlapInv, VerdictWritten
<1>4. PICK parties : parties = {r.row.worker, r.worker}
  OBVIOUS
<1>5. /\ r.row \in TaskRow /\ r.row.worker \in parties /\ r.row.validator \in parties
      /\ r.row.worker # r.row.validator /\ verdict \in Verdicts
      /\ r.books \in [parties -> AccountRow] /\ books = Credited(r.books, r.row, verdict)
      /\ books \in [parties -> AccountRow]
  BY <1>2, <1>4 DEF VerdictWritten, ToJudge
<1>6. ASSUME NEW w \in Workers PROVE account'[w].balance <= EarnedIn(transactions', w)
  <2>1. PICK before, after, due : /\ before = EarnedIn(transactions, w) /\ after = EarnedIn(transactions', w)
                                  /\ due = Due(r.row, verdict, w)
    OBVIOUS
  <2>2. before \in Nat /\ due \in Nat /\ after = before + due
    BY <1>2, <1>3, <2>1, VerdictEarns
  <2>3. account[w] \in AccountRow /\ account[w].balance <= before
    BY <1>3, <2>1 DEF TypeOK, MoneyBacked
  <2>4. account'[w] = IF w \in parties THEN Written(account[w], r.books[w], books[w]) ELSE account[w]
    BY <1>2, <1>4 DEF VerdictWritten
  <2>5. account[w].balance \in Nat
    BY <2>3, AccountFields
  <2>6. CASE w \in parties
    <3>1. books[w].balance = r.books[w].balance + due
      BY <1>5, <2>1, <2>6, VerdictPaysDue
    <3>2. r.books[w].balance <= before
      BY <1>1, <1>3, <1>5, <2>1, <2>6 DEF MoneyBacked, Backed
    <3>3. r.books[w] \in AccountRow /\ books[w] \in AccountRow
      BY <1>5, <2>6
    <3>4. r.books[w].balance \in Nat
      BY <3>3, AccountFields
    <3>5. account'[w].balance \in {account[w].balance, books[w].balance}
      BY <2>3, <2>4, <2>6, <3>3, WrittenAccount
    <3>6. QED BY <2>1, <2>2, <2>3, <2>5, <3>1, <3>2, <3>4, <3>5
  <2>7. CASE w \notin parties
    BY <2>1, <2>2, <2>3, <2>4, <2>5, <2>7
  <2>8. QED BY <2>6, <2>7
<1>7. ASSUME NEW u \in Slots PROVE Backed(session'[u], transactions')
  <2>1. CASE u = s
    <3>1. session'[u] = Idle /\ Idle.kind = "idle"
      BY <2>1 DEF CommitValidate, Close, OverlapInv, Idle
    <3>2. QED BY <3>1 DEF Backed
  <2>2. CASE u # s
    <3>1. PICK q : q = session[u]
      OBVIOUS
    <3>2. session'[u] = q /\ SlotOK(q) /\ Backed(q, transactions)
      BY <2>2, <3>1 DEF CommitValidate, Close, OverlapInv, MoneyBacked
    <3>3. ASSUME q.kind = "validating", NEW p \in DOMAIN q.books
          PROVE  q.books[p].balance <= EarnedIn(transactions', p)
      <4>1. PICK before, due : before = EarnedIn(transactions, p) /\ due = Due(r.row, verdict, p)
        OBVIOUS
      <4>2. before \in Nat /\ due \in Nat /\ EarnedIn(transactions', p) = before + due
        BY <1>2, <1>3, <4>1, VerdictEarns
      <4>3. q.books[p] \in AccountRow /\ q.books[p].balance <= before
        BY <3>2, <3>3, <4>1 DEF SlotOK, ToJudge, Backed
      <4>4. q.books[p].balance \in Nat
        BY <4>3, AccountFields
      <4>5. QED BY <4>2, <4>3, <4>4
    <3>4. QED BY <3>2, <3>3 DEF Backed
  <2>3. QED BY <2>1, <2>2
<1>8. QED BY <1>6, <1>7 DEF MoneyBacked

\* A request reads balances that are in the ledger.
LEMMA ReadIsBacked == ASSUME OverlapInv, MoneyBacked, NEW s \in Slots, Read(s) PROVE MoneyBacked'
<1>1. UNCHANGED vars
  BY DEF Read, ReadNext, ReadBan, ReadSubmit, ReadValidate, ReadSweep
<1>2. PICK r : session' = [session EXCEPT ![s] = r] /\ Backed(r, transactions)
  <2>1. ASSUME NEW w \in Workers, NEW t \in TaskIds, NEW answer \in Answers, ReadValidate(s, w, t, answer)
        PROVE  \E r : session' = [session EXCEPT ![s] = r] /\ Backed(r, transactions)
    <3>1. PICK parties : parties = {task[t].worker, w}
      OBVIOUS
    <3>2. PICK staff, books : /\ staff = [p \in parties |-> worker[p]]
                              /\ books = [p \in parties |-> account[p]]
      OBVIOUS
    <3>3. PICK r : r = [kind |-> "validating", worker |-> w, job |-> t, row |-> task[t],
                        answer |-> answer, staff |-> staff, books |-> books]
      OBVIOUS
    <3>4. Open(s, r) /\ parties \subseteq Workers
      BY <2>1, <3>1, <3>2, <3>3 DEF ReadValidate
    <3>5. \A p \in parties : books[p].balance <= EarnedIn(transactions, p)
      BY <3>2, <3>4 DEF MoneyBacked
    <3>6. Backed(r, transactions)
      BY <3>2, <3>3, <3>5 DEF Backed
    <3>7. QED BY <3>4, <3>6 DEF Open
  <2>2. ASSUME NEW r, Open(s, r), r.kind # "validating"
        PROVE  \E q : session' = [session EXCEPT ![s] = q] /\ Backed(q, transactions)
    BY <2>2 DEF Open, Backed
  <2>3. QED BY <2>1, <2>2 DEF Read, ReadNext, ReadBan, ReadSubmit, ReadSweep
<1>3. ASSUME NEW u \in Slots PROVE Backed(session'[u], transactions)
  BY <1>2 DEF OverlapInv, MoneyBacked
<1>4. QED BY <1>1, <1>3 DEF MoneyBacked, vars

\* Requests that end without a verdict, or claim, change no money.
LEMMA OthersAreBacked ==
  ASSUME OverlapInv, MoneyBacked, NEW s \in Slots,
         SelectNext(s) \/ CommitNext(s) \/ CommitSubmit(s) \/ CommitTooLate(s) \/ CommitSweep(s) \/ CommitBan(s)
  PROVE  MoneyBacked'
<1>1. UNCHANGED <<account, transactions>>
  BY DEF SelectNext, CommitNext, CommitSubmit, CommitTooLate, CommitSweep, CommitBan
<1>2. PICK r : session' = [session EXCEPT ![s] = r] /\ r.kind # "validating"
  BY DEF SelectNext, CommitNext, CommitSubmit, CommitTooLate, CommitSweep, CommitBan, Open, Close, Idle
<1>3. ASSUME NEW u \in Slots PROVE Backed(session'[u], transactions)
  BY <1>2 DEF OverlapInv, MoneyBacked, Backed
<1>4. QED BY <1>1, <1>3 DEF MoneyBacked

LEMMA AloneIsBacked == ASSUME OverlapInv, MoneyBacked, Alone PROVE MoneyBacked'
<1>1. TypeOK /\ UNCHANGED <<transactions, session>>
  BY DEF OverlapInv, Alone, RegisterWorker, UnbanWorker, ClientRequest, CreateTask, LeaseLapses
<1>2. ASSUME NEW w \in Workers PROVE account'[w].balance <= EarnedIn(transactions, w)
  <2>1. CASE \E v \in Workers : RegisterWorker(v)
    <3>1. account'[w] \in {account[w], NewAccount}
      BY <1>1, <2>1 DEF RegisterWorker, TypeOK
    <3>2. NewAccount.balance = 0
      BY DEF NewAccount
    <3>3. EarnedIn(transactions, w) \in Nat
      <4>1. \A t \in TaskIds : PaidOut(transactions[t], DOMAIN transactions[t], w) \in Nat
        BY <1>1, PaidOutType DEF TypeOK
      <4>2. PICK F : F = PaidPerTask(transactions, w)
        OBVIOUS
      <4>3. \A t \in TaskIds : F[t] \in Nat
        BY <4>1, <4>2 DEF PaidPerTask
      <4>4. QED BY <4>2, <4>3, TaskIdsFinite, SumNatural, EarnedIsSum
    <3>4. account[w].balance <= EarnedIn(transactions, w)
      BY DEF MoneyBacked
    <3>5. QED BY <3>1, <3>2, <3>3, <3>4
  <2>2. CASE UNCHANGED account
    BY <2>2 DEF MoneyBacked
  <2>3. QED BY <2>1, <2>2 DEF Alone, UnbanWorker, ClientRequest, CreateTask, LeaseLapses
<1>3. QED BY <1>1, <1>2 DEF MoneyBacked

LEMMA MoneyNext ==
  ASSUME OverlapInv, MoneyBacked, [SessionNext]_sessionVars PROVE MoneyBacked'
<1>1. CASE Alone
  BY <1>1, AloneIsBacked
<1>2. ASSUME NEW s \in Slots, Read(s) \/ SelectNext(s) \/ Commit(s) PROVE MoneyBacked'
  BY <1>2, ReadIsBacked, OthersAreBacked, VerdictStaysBacked DEF Commit
<1>3. CASE UNCHANGED sessionVars
  BY <1>3 DEF sessionVars, vars, MoneyBacked
<1>4. QED BY <1>1, <1>2, <1>3 DEF SessionNext

LEMMA MoneyStarts == ASSUME SessionInit PROVE MoneyBacked
<1>1. ASSUME NEW w \in Workers PROVE account[w].balance <= EarnedIn(transactions, w)
  <2>1. BalanceIsLedger /\ account[w].balance = 0
    BY LedgerInit DEF SessionInit, Init, NewAccount
  <2>2. account[w].balance = EarnedIn(transactions, w)
    BY <2>1, EarnedNow DEF BalanceIsLedger
  <2>3. QED BY <2>1, <2>2
<1>2. \A s \in Slots : session[s].kind = "idle"
  BY DEF SessionInit, Idle
<1>3. QED BY <1>1, <1>2 DEF MoneyBacked, Backed

\* Overlapping verdicts may lose one of two updates of a balance, but for any numbers of
\* requests and workers no balance is ever more than the transaction rows of its worker.
THEOREM BalancesWithinLedger == SessionSpec => []BalanceWithinLedger
<1>1. SessionInit => MoneyBacked
  BY MoneyStarts
<1>2. OverlapInv /\ MoneyBacked /\ [SessionNext]_sessionVars => MoneyBacked'
  BY MoneyNext
<1>3. MoneyBacked => BalanceWithinLedger
  BY EarnedNow DEF MoneyBacked, BalanceWithinLedger
<1>4. QED BY <1>1, <1>2, <1>3, OverlapHolds, PTL DEF SessionSpec

-----------------------------------------------------------------------------
(* Finished tasks are paid for *)

PaidIfDone(row, paid) ==
  row.status = "done" =>
    /\ Len(paid) >= 2
    /\ paid[Len(paid) - 1].amount = TaskReward(row.type)
    /\ paid[Len(paid)].amount = ValidatorReward(row.type)

\* A row that is finished was so before, as the same task.
NotFinishing(old, new) == new.status = "done" => old.status = "done" /\ new.type = old.type

LEMMA WrittenUnfinished ==
  ASSUME NEW now \in TaskRow, NEW old, NEW new, new.type = old.type,
         new.status = old.status \/ new.status # "done"
  PROVE  NotFinishing(now, Written(now, old, new))
<1>1. PICK row : row = Written(now, old, new)
  OBVIOUS
<1>2. row = [c \in DOMAIN now |-> IF new[c] = old[c] THEN now[c] ELSE new[c]]
  BY <1>1 DEF Written
<1>3. {"status", "type"} \subseteq DOMAIN now
  BY DEF TaskRow
<1>4. /\ row.status = IF new.status = old.status THEN now.status ELSE new.status
      /\ row.type = IF new.type = old.type THEN now.type ELSE new.type
  BY <1>2, <1>3
<1>5. QED BY <1>1, <1>4 DEF NotFinishing

\* Nothing but a verdict finishes a task.
LEMMA OthersFinishNothing ==
  ASSUME OverlapInv, NEW s \in Slots, Commit(s), ~CommitValidate(s), NEW u \in TaskIds
  PROVE  NotFinishing(task[u], task'[u])
<1>1. PICK r : r = session[s]
  OBVIOUS
<1>2. SlotOK(r) /\ task \in [TaskIds -> TaskRow] /\ task[u] \in TaskRow
  BY <1>1 DEF OverlapInv, TypeOK
<1>3. CASE CommitNext(s)
  <2>1. PICK mid : mid = Written(task[r.job], r.row, r.new)
    OBVIOUS
  <2>2. /\ r.row \in TaskRow /\ r.job \in TaskIds /\ ToClaim(r)
        /\ task' = [task EXCEPT ![r.job] = [mid EXCEPT !.lease = "live"]]
    BY <1>1, <1>2, <1>3, <2>1 DEF CommitNext, SlotOK
  <2>3. r.new.type = r.row.type /\ r.new.status # "done"
    BY <2>2 DEF ToClaim, AsValidation, AsExecution, TaskRow
  <2>4. NotFinishing(task[r.job], mid)
    BY <1>2, <2>1, <2>2, <2>3, WrittenUnfinished
  <2>5. [mid EXCEPT !.lease = "live"].status = mid.status /\ [mid EXCEPT !.lease = "live"].type = mid.type
    <3>1. task[r.job] \in TaskRow
      BY <1>2, <2>2
    <3>2. {"status", "type"} \subseteq DOMAIN mid
      BY <2>1, <3>1 DEF Written, TaskRow
    <3>3. QED BY <3>2
  <2>6. QED BY <1>2, <2>2, <2>4, <2>5 DEF NotFinishing
<1>4. CASE CommitSubmit(s) \/ CommitTooLate(s)
  <2>1. PICK new : /\ WriteTask(r.job, r.row, new)
                   /\ new = AsSubmitted(r.row, r.answer) \/ new = AsReturned(r.row)
    BY <1>1, <1>4 DEF CommitSubmit, CommitTooLate
  <2>2. r.row \in TaskRow /\ r.job \in TaskIds
    BY <1>1, <1>2, <1>4 DEF CommitSubmit, CommitTooLate, SlotOK
  <2>3. new.type = r.row.type /\ new.status # "done"
    BY <2>1, <2>2 DEF AsSubmitted, AsReturned, TaskRow
  <2>4. NotFinishing(task[r.job], Written(task[r.job], r.row, new))
    BY <1>2, <2>2, <2>3, WrittenUnfinished
  <2>5. QED BY <1>2, <2>1, <2>2, <2>4 DEF WriteTask, NotFinishing
<1>5. CASE CommitSweep(s) \/ CommitBan(s)
  <2>1. PICK old : old = r.rows[u]
    OBVIOUS
  <2>2. old \in TaskRow
    BY <1>1, <1>2, <1>5, <2>1 DEF CommitSweep, CommitBan, SlotOK
  <2>3. PICK new : /\ task'[u] = Written(task[u], old, new)
                   /\ new = AfterExpiry(old) \/ \E w : new = AfterBan(w, old)
    BY <1>1, <1>5, <2>1 DEF CommitSweep, CommitBan
  <2>4. new.type = old.type /\ (new.status = old.status \/ new.status # "done")
    BY <2>2, <2>3 DEF AfterExpiry, AfterBan, TaskRow
  <2>5. QED BY <1>2, <2>3, <2>4, WrittenUnfinished
<1>6. QED BY <1>3, <1>4, <1>5 DEF Commit

LEMMA AloneFinishesNothing ==
  ASSUME TypeOK, Alone, NEW u \in TaskIds PROVE NotFinishing(task[u], task'[u])
<1>1. task[u] \in TaskRow
  BY DEF TypeOK
<1>2. CASE ClientRequest
  <2>1. PICK t \in TaskIds, type \in TaskTypes, priority \in Priorities, golden \in Answers \cup {NoAnswer} :
          CreateTask(t, type, priority, golden)
    BY <1>2 DEF ClientRequest
  <2>2. CASE u = t
    BY <2>1, <2>2 DEF CreateTask, NewTask, TypeOK, NotFinishing
  <2>3. CASE u # t
    BY <2>1, <2>3 DEF CreateTask, TypeOK, NotFinishing
  <2>4. QED BY <2>2, <2>3
<1>3. ASSUME NEW t \in TaskIds, LeaseLapses(t) PROVE NotFinishing(task[u], task'[u])
  <2>1. task' = [task EXCEPT ![t].lease = "lapsed"]
    BY <1>3 DEF LeaseLapses
  <2>2. task'[u].status = task[u].status /\ task'[u].type = task[u].type
    BY <1>1, <2>1 DEF TypeOK, TaskRow
  <2>3. QED BY <2>2 DEF NotFinishing
<1>4. CASE UNCHANGED task
  BY <1>4 DEF NotFinishing
<1>5. QED BY <1>2, <1>3, <1>4 DEF Alone, RegisterWorker, UnbanWorker

LEMMA VerdictPays ==
  ASSUME OverlapInv, NEW s \in Slots, CommitValidate(s), NEW u \in TaskIds,
         PaidIfDone(task[u], transactions[u])
  PROVE  PaidIfDone(task'[u], transactions'[u])
<1>1. PICK r : r = session[s]
  OBVIOUS
<1>2. PICK verdict, books, row : VerdictWritten(r, verdict, books, row)
  BY <1>1, VerdictCommitted
<1>3. PICK t, old, all : t = r.job /\ old = transactions[t] /\ all = old \o Payments(r.row, verdict)
  OBVIOUS
<1>4. /\ t \in TaskIds /\ r.row \in TaskRow /\ r.row.worker \in Workers /\ r.row.validator \in Workers
      /\ row.status = (IF verdict = "match" THEN "done" ELSE "rejected") /\ row.type = r.row.type
      /\ task' = [task EXCEPT ![t] = row] /\ transactions' = [transactions EXCEPT ![t] = all]
  BY <1>2, <1>3 DEF VerdictWritten, ToJudge
<1>5. /\ task \in [TaskIds -> TaskRow] /\ transactions \in [TaskIds -> Seq(TransactionRow)]
      /\ old \in Seq(TransactionRow)
  BY <1>3, <1>4 DEF OverlapInv, TypeOK
<1>6. CASE u # t
  BY <1>4, <1>5, <1>6
<1>7. CASE u = t /\ verdict # "match"
  BY <1>4, <1>5, <1>7 DEF PaidIfDone
<1>8. CASE u = t /\ verdict = "match"
  <2>1. PICK n : n = Len(old)
    OBVIOUS
  <2>2. n \in Nat
    BY <1>5, <2>1, LenProperties
  <2>3. /\ Len(all) = n + 2
        /\ all[n + 1] = [worker |-> r.row.worker, kind |-> "reward", amount |-> TaskReward(r.row.type)]
        /\ all[n + 2] = [worker |-> r.row.validator, kind |-> "reward",
                         amount |-> ValidatorReward(r.row.type)]
    <3>1. all = old \o Payments(r.row, "match")
      BY <1>3, <1>8
    <3>2. EndsWithRewards(old, r.row, old \o Payments(r.row, "match"))
      BY <1>4, <1>5, MatchOnTop, Zenon
    <3>3. QED BY <2>1, <3>1, <3>2 DEF EndsWithRewards
  <2>4. Len(all) >= 2 /\ Len(all) - 1 = n + 1
    BY <2>2, <2>3
  <2>5. task'[u] = row /\ transactions'[u] = all
    BY <1>4, <1>5, <1>8
  <2>6. QED BY <1>4, <2>3, <2>4, <2>5 DEF PaidIfDone
<1>9. QED BY <1>6, <1>7, <1>8

LEMMA DonePaidNext ==
  ASSUME OverlapInv, DoneIsPaid, [SessionNext]_sessionVars PROVE DoneIsPaid'
<1>1. ASSUME NEW u \in TaskIds PROVE PaidIfDone(task'[u], transactions'[u])
  <2>1. PaidIfDone(task[u], transactions[u]) /\ TypeOK
    BY DEF DoneIsPaid, PaidIfDone, OverlapInv
  <2>2. ASSUME NotFinishing(task[u], task'[u]), UNCHANGED transactions
        PROVE  PaidIfDone(task'[u], transactions'[u])
    BY <2>1, <2>2 DEF PaidIfDone, NotFinishing
  <2>3. CASE Alone
    BY <2>1, <2>2, <2>3, AloneFinishesNothing
       DEF Alone, RegisterWorker, UnbanWorker, ClientRequest, CreateTask, LeaseLapses
  <2>4. ASSUME NEW s \in Slots, Read(s) \/ SelectNext(s) PROVE PaidIfDone(task'[u], transactions'[u])
    <3>1. UNCHANGED <<task, transactions>>
      BY <2>4 DEF Read, ReadNext, ReadBan, ReadSubmit, ReadValidate, ReadSweep, SelectNext, vars
    <3>2. QED BY <2>1, <3>1
  <2>5. ASSUME NEW s \in Slots, Commit(s) PROVE PaidIfDone(task'[u], transactions'[u])
    <3>1. CASE CommitValidate(s)
      BY <2>1, <3>1, VerdictPays
    <3>2. CASE ~CommitValidate(s)
      <4>1. UNCHANGED transactions
        BY <2>5, <3>2 DEF Commit, CommitNext, CommitSubmit, CommitTooLate, CommitSweep, CommitBan
      <4>2. NotFinishing(task[u], task'[u])
        BY <2>5, <3>2, OthersFinishNothing
      <4>3. QED BY <2>2, <4>1, <4>2
    <3>3. QED BY <3>1, <3>2
  <2>6. CASE UNCHANGED sessionVars
    BY <2>1, <2>6 DEF sessionVars, vars
  <2>7. QED BY <2>3, <2>4, <2>5, <2>6 DEF SessionNext
<1>2. QED BY <1>1 DEF DoneIsPaid, PaidIfDone

\* Whatever overlaps, a task is done only when its last two transaction rows pay its executor and
\* its validator what tasks of its type earn: the UPDATE that finishes the task and the two
\* INSERTs are one commit, and no request that read the task earlier finishes it again unpaid.
THEOREM DoneTasksArePaid == SessionSpec => []DoneIsPaid
<1>1. SessionInit => DoneIsPaid
  BY DEF SessionInit, Init, AbsentTask, NewTask, DoneIsPaid
<1>2. OverlapInv /\ DoneIsPaid /\ [SessionNext]_sessionVars => DoneIsPaid'
  BY DonePaidNext
<1>3. QED BY <1>1, <1>2, OverlapHolds, PTL DEF SessionSpec

-----------------------------------------------------------------------------
(* Processes that poll *)

\* A loop remembers a task and what to do with it exactly while it works on it.
WellFormed(c) ==
  /\ c \in ClientRow
  /\ c.step = "working" <=> c.job # 0
  /\ c.step = "working" <=> c.mode # "none"

\* A process stops with all its loops.
StopTogether == \A l, m \in Loops : Ident[l] = Ident[m] /\ At(l, "stopped") => At(m, "stopped")

\* The loops of an id that is not registered have not begun.
NotBegun ==
  \A w \in Workers : ~Registered(w) =>
    /\ ~worker[w].isBanned
    /\ \A l \in LoopsOf(w) : At(l, "register") \/ At(l, "stopped")

LoopsWellFormed ==
  /\ client = [l \in Loops |-> client[l]]
  /\ \A l \in Loops : WellFormed(client[l])
  /\ mishaps \in 0..MaxMishaps

LoopIndInv == TypeOK /\ LoopsWellFormed /\ StopTogether /\ NotBegun /\ OrphansNeedFailure

\* A loop that is past its registration moves on.
LoopMoves(l, next) ==
  /\ client[l].step \in {"heartbeat", "asking", "working"}
  /\ next.step \in {"heartbeat", "asking", "working"} /\ WellFormed(next)
  /\ client' = [client EXCEPT ![l] = next]

\* What the loops, and those around them, make the server do.
ServerStep ==
  \/ \E w \in Workers : RegisterWorker(w) \/ Heartbeat(w) \/ GetNextTask(w)
  \/ \E w \in Workers, t \in TaskIds, answer \in Answers : SubmitResult(w, t, answer) \/ ValidateTask(w, t, answer)
  \/ \E w \in Workers, t \in TaskIds : SubmitTooLate(w, t)
  \/ \E w \in Workers : BanWorker(w) \/ AutoBanColluders({w})
  \/ \E t \in TaskIds : LeaseLapses(t)
  \/ ClientRequest
  \/ ExpireStaleLeases
  \/ UNCHANGED vars

LEMMA DoingWellFormed ==
  ASSUME NEW step \in Steps \ {"working"} PROVE WellFormed(Doing(step)) /\ Doing(step).step = step
BY DEF WellFormed, Doing, ClientRow, Modes

LEMMA HoldingWellFormed ==
  ASSUME NEW t \in TaskIds, NEW mode \in {"work", "validate"}, NEW c,
         c = [step |-> "working", job |-> t, mode |-> mode]
  PROVE  WellFormed(c)
<1>1. t # 0
  BY PipelineAssumption DEF TaskIds
<1>2. QED BY <1>1 DEF WellFormed, ClientRow, Modes, Steps

\* A loop at work has a task.
LEMMA AtWork ==
  ASSUME LoopsWellFormed, NEW l \in Loops, At(l, "working")
  PROVE  client[l].job \in TaskIds /\ Ident[l] \in Workers
BY LoopAssumption DEF LoopsWellFormed, WellFormed, ClientRow, At

LEMMA ProcessMoves ==
  ASSUME LoopsWellFormed, NEW l \in Loops, Beat(l) \/ AskForTask(l) \/ SendResult(l) \/ AskInVain(l) \/ LoseResult(l)
  PROVE  \E next : LoopMoves(l, next)
<1>1. ASSUME NEW step \in {"heartbeat", "asking"}, Goto(l, step),
             client[l].step \in {"heartbeat", "asking", "working"}
      PROVE  \E next : LoopMoves(l, next)
  <2>1. WellFormed(Doing(step)) /\ Doing(step).step = step
    BY <1>1, DoingWellFormed DEF Steps
  <2>2. LoopMoves(l, Doing(step))
    BY <1>1, <2>1 DEF Goto, LoopMoves
  <2>3. QED BY <2>2
<1>2. ASSUME NEW t \in TaskIds, NEW mode \in {"work", "validate"}, Hold(l, t, mode), At(l, "asking")
      PROVE  \E next : LoopMoves(l, next)
  <2>1. PICK next : next = [step |-> "working", job |-> t, mode |-> mode]
    OBVIOUS
  <2>2. WellFormed(next) /\ next.step = "working" /\ client' = [client EXCEPT ![l] = next]
    BY <1>2, <2>1, HoldingWellFormed DEF Hold
  <2>3. LoopMoves(l, next)
    BY <1>2, <2>2 DEF LoopMoves, At
  <2>4. QED BY <2>3
<1>3. CASE AskForTask(l)
  BY <1>1, <1>2, <1>3 DEF AskForTask, At
<1>4. QED BY <1>1, <1>3 DEF Beat, SendResult, AskInVain, LoseResult, At

LEMMA ServerSteps == ASSUME LoopIndInv, [LoopNext]_loopVars PROVE ServerStep
<1>1. LoopsWellFormed /\ Ident \in [Loops -> Workers] /\ Suspendable \subseteq Workers
  BY LoopAssumption DEF LoopIndInv
<1>2. ASSUME NEW l \in Loops, Enrol(l) \/ Beat(l) \/ AskForTask(l) \/ AskInVain(l) PROVE ServerStep
  <2>1. Ident[l] \in Workers
    BY <1>1
  <2>2. RegisterWorker(Ident[l]) \/ Heartbeat(Ident[l]) \/ GetNextTask(Ident[l]) \/ UNCHANGED vars
    BY <1>2 DEF Enrol, Beat, AskForTask, AskInVain, GetNextTask
  <2>3. QED BY <2>1, <2>2 DEF ServerStep
<1>3. ASSUME NEW l \in Loops, SendResult(l) PROVE ServerStep
  <2>1. Ident[l] \in Workers /\ client[l].job \in TaskIds
    BY <1>1, <1>3, AtWork DEF SendResult
  <2>2. QED BY <1>3, <2>1 DEF SendResult, ServerStep
<1>4. ASSUME NEW l \in Loops, LoseResult(l) PROVE ServerStep
  BY <1>4 DEF LoseResult, ServerStep
<1>5. ASSUME NEW w \in Workers, Die(w) \/ Ban(w) PROVE ServerStep
  BY <1>5 DEF Die, Ban, ServerStep
<1>6. ASSUME NEW t \in TaskIds, OrphanLapses(t) \/ Overrun(t) PROVE ServerStep
  BY <1>6 DEF OrphanLapses, Overrun, ServerStep
<1>7. ASSUME Submission \/ Sweep \/ UNCHANGED loopVars PROVE ServerStep
  BY <1>7 DEF Submission, Sweep, loopVars, ServerStep
<1>8. QED BY <1>2, <1>3, <1>4, <1>5, <1>6, <1>7 DEF LoopNext, Process

LEMMA ServerStepIsNext == ServerStep => [Next]_vars
<1>1. ASSUME NEW w \in Workers, BanWorker(w) \/ AutoBanColluders({w}) PROVE AdminRequest
  BY <1>1 DEF AdminRequest
<1>2. ASSUME NEW w \in Workers, RegisterWorker(w) \/ Heartbeat(w) \/ GetNextTask(w) PROVE WorkerRequest(w)
  BY <1>2 DEF WorkerRequest
<1>3. ASSUME NEW w \in Workers, NEW t \in TaskIds, NEW answer \in Answers,
             SubmitResult(w, t, answer) \/ ValidateTask(w, t, answer)
      PROVE  WorkerRequest(w)
  BY <1>3 DEF WorkerRequest
<1>4. ASSUME NEW w \in Workers, NEW t \in TaskIds, SubmitTooLate(w, t) PROVE WorkerRequest(w)
  BY <1>4 DEF WorkerRequest
<1>5. ExpireStaleLeases => AdminRequest
  BY DEF AdminRequest
<1>6. QED BY <1>1, <1>2, <1>3, <1>4, <1>5 DEF ServerStep, Next

\* Who is touched is registered, and nobody who is registered stops being banned.
LEMMA StaffMoves ==
  ASSUME TypeOK, ServerStep, NEW w \in Workers
  PROVE  /\ worker'[w].status = "absent" => worker'[w] = worker[w]
         /\ worker[w].isBanned /\ worker[w].status # "absent" => worker'[w].isBanned
<1>1. worker \in [Workers -> WorkerRow] /\ worker[w] \in WorkerRow
  BY DEF TypeOK
<1>2. ASSUME NEW v \in Workers, NEW status \in {"working", "online", "idle"},
             worker' = [worker EXCEPT ![v].status = status]
      PROVE  /\ worker'[w].status = "absent" => worker'[w] = worker[w]
             /\ worker[w].isBanned => worker'[w].isBanned
  BY <1>1, <1>2 DEF WorkerRow
<1>3. CASE \E v \in Workers : RegisterWorker(v)
  BY <1>1, <1>3 DEF RegisterWorker, Registered
<1>4. CASE \E v \in Workers : BanWorker(v) \/ AutoBanColluders({v})
  BY <1>1, <1>4 DEF BanWorker, AutoBanColluders
<1>5. CASE \E v \in Workers : Heartbeat(v) \/ GetNextTask(v)
  BY <1>2, <1>5 DEF Heartbeat, GetNextTask, ClaimValidation, ClaimExecution, FindNothing
<1>6. ASSUME NEW v \in Workers, NEW t \in TaskIds, NEW answer \in Answers,
             SubmitResult(v, t, answer) \/ ValidateTask(v, t, answer)
      PROVE  /\ worker'[w].status = "absent" => worker'[w] = worker[w]
             /\ worker[w].isBanned => worker'[w].isBanned
  <2>1. CASE SubmitResult(v, t, answer)
    BY <1>2, <2>1 DEF SubmitResult
  <2>2. CASE ValidateTask(v, t, answer)
    <3>1. PICK a \in Workers : worker' = [worker EXCEPT ![a].status = "idle", ![v].status = "idle"]
      BY <2>2 DEF ValidateTask
    <3>2. QED BY <1>1, <3>1 DEF WorkerRow
  <2>3. QED BY <1>6, <2>1, <2>2
<1>7. CASE UNCHANGED worker
  BY <1>7
<1>8. QED BY <1>3, <1>4, <1>5, <1>6, <1>7
          DEF ServerStep, SubmitTooLate, LeaseLapses, ClientRequest, CreateTask, ExpireStaleLeases, vars

LEMMA ClientMoves ==
  ASSUME LoopIndInv, [LoopNext]_loopVars
  PROVE  \/ UNCHANGED client
         \/ \E l \in Loops : (\E next : LoopMoves(l, next)) \/ Enrol(l)
         \/ \E w \in Workers : Die(w)
<1>1. ASSUME NEW l \in Loops, Beat(l) \/ AskForTask(l) \/ SendResult(l) \/ AskInVain(l) \/ LoseResult(l)
      PROVE  \E next : LoopMoves(l, next)
  BY <1>1, ProcessMoves DEF LoopIndInv
<1>2. (\E w \in Workers : Ban(w)) \/ (\E t \in TaskIds : OrphanLapses(t) \/ Overrun(t)) \/ Submission \/ Sweep
        => UNCHANGED client
  BY DEF Ban, OrphanLapses, Overrun, Submission, Sweep
<1>3. UNCHANGED loopVars => UNCHANGED client
  BY DEF loopVars
<1>4. QED BY <1>1, <1>2, <1>3 DEF LoopNext, Process

LEMMA MishapsCount ==
  ASSUME LoopIndInv, [LoopNext]_loopVars
  PROVE  mishaps' \in 0..MaxMishaps /\ mishaps' >= mishaps
<1>1. mishaps \in 0..MaxMishaps /\ MaxMishaps \in Nat
  BY LoopAssumption DEF LoopIndInv, LoopsWellFormed
<1>2. Mishap => mishaps' \in 0..MaxMishaps /\ mishaps' >= mishaps
  BY <1>1 DEF Mishap
<1>3. UNCHANGED mishaps \/ Mishap
  BY DEF LoopNext, Process, Enrol, Beat, AskForTask, SendResult, AskInVain, LoseResult, Die, Ban,
         OrphanLapses, Overrun, Submission, Sweep, loopVars
<1>4. QED BY <1>1, <1>2, <1>3

LEMMA LoopsNext ==
  ASSUME LoopIndInv, [LoopNext]_loopVars
  PROVE  LoopsWellFormed' /\ StopTogether' /\ NotBegun'
<1>1. /\ client = [l \in Loops |-> client[l]] /\ \A l \in Loops : WellFormed(client[l])
      /\ TypeOK /\ StopTogether /\ NotBegun
  BY DEF LoopIndInv, LoopsWellFormed
<1>2. mishaps' \in 0..MaxMishaps
  BY MishapsCount
<1>3. ServerStep
  BY ServerSteps
\* A worker without a row was without one before, and so its loops have not begun.
<1>4. ASSUME NEW w \in Workers, ~Registered(w)'
      PROVE  /\ ~worker'[w].isBanned /\ ~Registered(w)
             /\ \A l \in LoopsOf(w) : At(l, "register") \/ At(l, "stopped")
  BY <1>1, <1>3, <1>4, StaffMoves DEF Registered, NotBegun
<1>5. CASE UNCHANGED client
  BY <1>1, <1>2, <1>4, <1>5 DEF LoopsWellFormed, StopTogether, NotBegun, At
<1>6. ASSUME NEW k \in Loops, NEW next, LoopMoves(k, next)
      PROVE  LoopsWellFormed' /\ StopTogether' /\ NotBegun'
  <2>1. \A l \in Loops : client'[l] = IF l = k THEN next ELSE client[l]
    BY <1>1, <1>6 DEF LoopMoves
  <2>2. client' = [l \in Loops |-> client'[l]]
    BY <1>1, <1>6 DEF LoopMoves
  <2>3. LoopsWellFormed'
    BY <1>1, <1>2, <1>6, <2>1, <2>2 DEF LoopsWellFormed, LoopMoves
  <2>4. \A l \in Loops : client'[l].step = "stopped" <=> client[l].step = "stopped"
    BY <1>6, <2>1 DEF LoopMoves
  <2>5. StopTogether'
    BY <1>1, <2>4 DEF StopTogether, At
  <2>6. ASSUME NEW w \in Workers, ~Registered(w)', NEW l \in LoopsOf(w) PROVE client'[l] = client[l]
    BY <1>4, <1>6, <2>1, <2>6 DEF LoopMoves, LoopsOf, At
  <2>7. NotBegun'
    BY <1>4, <2>6 DEF NotBegun, At, LoopsOf
  <2>8. QED BY <2>3, <2>5, <2>7
<1>7. ASSUME NEW v \in Workers, NEW step \in {"heartbeat", "stopped"}, GotoAll(v, step),
             step = "heartbeat" => worker'[v].status # "absent"
      PROVE  LoopsWellFormed' /\ StopTogether' /\ NotBegun'
  <2>1. WellFormed(Doing(step)) /\ Doing(step).step = step
    BY <1>7, DoingWellFormed DEF Steps
  <2>2. /\ client' = [l \in Loops |-> client'[l]]
        /\ \A l \in Loops : client'[l] = IF Ident[l] = v THEN Doing(step) ELSE client[l]
    BY <1>7 DEF GotoAll, LoopsOf
  <2>3. LoopsWellFormed'
    BY <1>1, <1>2, <2>1, <2>2 DEF LoopsWellFormed
  <2>4. StopTogether'
    BY <1>1, <2>1, <2>2 DEF StopTogether, At
  <2>5. ASSUME NEW w \in Workers, ~Registered(w)', NEW l \in LoopsOf(w)
        PROVE  client'[l].step \in {"register", "stopped"}
    <3>1. l \in Loops /\ Ident[l] = w /\ client[l].step \in {"register", "stopped"}
      BY <1>4, <2>5 DEF LoopsOf, At
    <3>2. CASE w = v
      BY <1>7, <2>1, <2>2, <2>5, <3>1, <3>2 DEF Registered
    <3>3. CASE w # v
      BY <2>2, <3>1, <3>3
    <3>4. QED BY <3>2, <3>3
  <2>6. NotBegun'
    BY <1>4, <2>5 DEF NotBegun, At, LoopsOf
  <2>7. QED BY <2>3, <2>4, <2>6
<1>8. ASSUME NEW l \in Loops, Enrol(l) PROVE LoopsWellFormed' /\ StopTogether' /\ NotBegun'
  <2>1. Ident[l] \in Workers /\ RegisterWorker(Ident[l]) /\ GotoAll(Ident[l], "heartbeat")
    BY <1>8, LoopAssumption DEF Enrol
  <2>2. worker'[Ident[l]].status = "idle"
    BY <1>1, <2>1 DEF RegisterWorker, TypeOK
  <2>3. QED BY <1>7, <2>1, <2>2
<1>9. ASSUME NEW w \in Workers, Die(w) PROVE LoopsWellFormed' /\ StopTogether' /\ NotBegun'
  BY <1>7, <1>9 DEF Die
<1>10. QED BY <1>5, <1>6, <1>8, <1>9, ClientMoves

\* What has failed stays on record.
LEMMA FailuresStay ==
  ASSUME LoopIndInv, [LoopNext]_loopVars, NothingFailed' PROVE NothingFailed
<1>1. /\ client = [l \in Loops |-> client[l]] /\ Ident \in [Loops -> Workers]
      /\ TypeOK /\ StopTogether /\ NotBegun
  BY LoopAssumption DEF LoopIndInv, LoopsWellFormed
<1>2. mishaps = 0
  <2>1. mishaps' >= mishaps /\ mishaps \in Nat /\ mishaps' = 0
    BY MishapsCount, LoopAssumption DEF LoopIndInv, LoopsWellFormed, NothingFailed
  <2>2. QED BY <2>1
<1>3. ASSUME NEW l \in Loops PROVE client[l].step # "stopped"
  <2>1. client'[l].step # "stopped"
    BY DEF NothingFailed, At
  <2>2. ASSUME NEW k \in Loops, NEW next, LoopMoves(k, next) PROVE client[l].step # "stopped"
    BY <1>1, <2>1, <2>2 DEF LoopMoves
  <2>3. ASSUME NEW k \in Loops, Enrol(k) PROVE client[l].step # "stopped"
    BY <1>1, <2>1, <2>3 DEF Enrol, GotoAll, LoopsOf, StopTogether, At
  <2>4. ASSUME NEW w \in Workers, Die(w) PROVE client[l].step # "stopped"
    BY <2>1, <2>4 DEF Die, GotoAll, Doing
  <2>5. QED BY <2>1, <2>2, <2>3, <2>4, ClientMoves
<1>4. ASSUME NEW l \in Loops PROVE ~worker[Ident[l]].isBanned
  <2>1. Ident[l] \in Workers /\ ~worker'[Ident[l]].isBanned /\ ServerStep
    BY <1>1, ServerSteps DEF NothingFailed
  <2>2. worker[Ident[l]].isBanned => worker[Ident[l]].status # "absent"
    BY <1>1, <2>1 DEF NotBegun, Registered
  <2>3. QED BY <1>1, <2>1, <2>2, StaffMoves
<1>5. QED BY <1>2, <1>3, <1>4 DEF NothingFailed, At

\* A task is assigned or validated only if it was before, and by the same worker.
SameHands(u) ==
  task'[u].status \in {"assigned", "validating"} =>
    /\ task'[u].status = task[u].status
    /\ task'[u].worker = task[u].worker /\ task'[u].validator = task[u].validator

LEMMA HandsKept ==
  ASSUME NEW l \in Loops, NEW u \in TaskIds, WorksOn(l, u), client'[l] = client[l],
         SameHands(u), task'[u].status \in {"assigned", "validating"}
  PROVE  WorksOn(l, u)'
BY DEF SameHands, WorksOn, Refused, At

LEMMA ResultReleases ==
  ASSUME TypeOK, NEW w \in Workers, NEW t \in TaskIds, NEW answer,
         SubmitResult(w, t, answer) \/ ValidateTask(w, t, answer) \/ SubmitTooLate(w, t)
  PROVE  /\ task'[t].status \notin {"assigned", "validating"}
         /\ \A u \in TaskIds \ {t} : task'[u] = task[u]
<1>1. task \in [TaskIds -> TaskRow] /\ task[t] \in TaskRow
  BY DEF TypeOK
<1>2. PICK row : /\ task' = [task EXCEPT ![t] = row]
                 /\ \/ row = AsSubmitted(task[t], answer) \/ row = AsReturned(task[t])
                    \/ \E verdict : row = AsJudged(task[t], verdict)
  BY DEF SubmitResult, ValidateTask, SubmitTooLate
<1>3. row.status \notin {"assigned", "validating"}
  BY <1>1, <1>2 DEF AsSubmitted, AsReturned, AsJudged, TaskRow
<1>4. QED BY <1>1, <1>2, <1>3

LEMMA OthersSameHands ==
  ASSUME TypeOK, NEW u \in TaskIds,
         \/ \E w \in Workers : BanWorker(w) \/ AutoBanColluders({w})
         \/ \E t \in TaskIds : LeaseLapses(t)
         \/ ClientRequest \/ ExpireStaleLeases \/ UNCHANGED task
  PROVE  SameHands(u)
<1>1. task \in [TaskIds -> TaskRow] /\ task[u] \in TaskRow
  BY DEF TypeOK
<1>2. ASSUME NEW w \in Workers, BanWorker(w) \/ AutoBanColluders({w}) PROVE SameHands(u)
  <2>1. task'[u] = task[u] \/ task'[u] = AfterBan(w, task[u])
    BY <1>2 DEF BanWorker, AutoBanColluders
  <2>2. QED BY <1>1, <2>1 DEF AfterBan, SameHands, TaskRow
<1>3. ASSUME NEW t \in TaskIds, LeaseLapses(t) PROVE SameHands(u)
  <2>1. task' = [task EXCEPT ![t].lease = "lapsed"]
    BY <1>3 DEF LeaseLapses
  <2>2. QED BY <1>1, <2>1 DEF SameHands, TaskRow
<1>4. CASE ClientRequest
  <2>1. PICK t \in TaskIds, type \in TaskTypes, priority \in Priorities, golden \in Answers \cup {NoAnswer} :
          CreateTask(t, type, priority, golden)
    BY <1>4 DEF ClientRequest
  <2>2. QED BY <1>1, <2>1 DEF CreateTask, NewTask, SameHands
<1>5. CASE ExpireStaleLeases
  <2>1. task'[u] = AfterExpiry(task[u])
    BY <1>5 DEF ExpireStaleLeases
  <2>2. QED BY <1>1, <2>1 DEF AfterExpiry, SameHands, TaskRow
<1>6. CASE UNCHANGED task
  BY <1>6 DEF SameHands
<1>7. QED BY <1>2, <1>3, <1>4, <1>5, <1>6

\* A loop that claims a task has it in hand, and other tasks stay where they are.
LEMMA ClaimTakes ==
  ASSUME TypeOK, LoopsWellFormed, NEW l \in Loops, NEW t \in TaskIds,
         \/ ClaimValidation(Ident[l], t) /\ Hold(l, t, "validate")
         \/ ClaimExecution(Ident[l], t) /\ Hold(l, t, "work")
  PROVE  WorksOn(l, t)' /\ \A u \in TaskIds \ {t} : SameHands(u)
<1>1. task \in [TaskIds -> TaskRow] /\ task[t] \in TaskRow /\ client = [k \in Loops |-> client[k]]
  BY DEF TypeOK, LoopsWellFormed
<1>2. CASE ClaimValidation(Ident[l], t) /\ Hold(l, t, "validate")
  <2>1. task' = [task EXCEPT ![t] = AsValidation(task[t], Ident[l])]
    BY <1>2 DEF ClaimValidation
  <2>2. task'[t].status = "validating" /\ task'[t].validator = Ident[l]
    BY <1>1, <2>1 DEF AsValidation, TaskRow
  <2>3. client'[l] = [step |-> "working", job |-> t, mode |-> "validate"]
    BY <1>1, <1>2 DEF Hold
  <2>4. QED BY <1>1, <2>1, <2>2, <2>3 DEF WorksOn, Refused, At, SameHands
<1>3. CASE ClaimExecution(Ident[l], t) /\ Hold(l, t, "work")
  <2>1. task' = [task EXCEPT ![t] = AsExecution(task[t], Ident[l])]
    BY <1>3 DEF ClaimExecution
  <2>2. task'[t].status = "assigned" /\ task'[t].worker = Ident[l]
    BY <1>1, <2>1 DEF AsExecution, TaskRow
  <2>3. client'[l] = [step |-> "working", job |-> t, mode |-> "work"]
    BY <1>1, <1>3 DEF Hold
  <2>4. QED BY <1>1, <2>1, <2>2, <2>3 DEF WorksOn, Refused, At, SameHands
<1>4. QED BY <1>2, <1>3

\* A loop that is asking or beating works on nothing that it could drop.
LEMMA NothingDropped ==
  ASSUME LoopsWellFormed, NEW k \in Loops, ~At(k, "working"), NEW next,
         client' = [client EXCEPT ![k] = next], NEW l \in Loops, NEW u, WorksOn(l, u)
  PROVE  client'[l] = client[l]
<1>1. l # k
  BY DEF WorksOn
<1>2. QED BY <1>1 DEF LoopsWellFormed

LEMMA OrphansNext ==
  ASSUME LoopIndInv, [LoopNext]_loopVars, NothingFailed', NEW u \in TaskIds,
         task'[u].status \in {"assigned", "validating"}
  PROVE  \E l \in Loops : WorksOn(l, u)'
<1>1. /\ TypeOK /\ LoopsWellFormed /\ NotBegun /\ client = [k \in Loops |-> client[k]]
      /\ Ident \in [Loops -> Workers]
  BY LoopAssumption DEF LoopIndInv, LoopsWellFormed
\* Where the hands stay the same, the loop that had the task still has it.
<1>2. SameHands(u) => \E l \in Loops : WorksOn(l, u)
  <2>1. NothingFailed /\ OrphansNeedFailure
    BY FailuresStay DEF LoopIndInv
  <2>2. QED BY <2>1 DEF OrphansNeedFailure, SameHands
<1>3. ASSUME SameHands(u), UNCHANGED client PROVE \E l \in Loops : WorksOn(l, u)'
  <2>1. PICK l \in Loops : WorksOn(l, u)
    BY <1>2, <1>3
  <2>2. WorksOn(l, u)'
    BY <1>3, <2>1, HandsKept
  <2>3. QED BY <2>2
<1>4. ASSUME SameHands(u), NEW k \in Loops, ~At(k, "working"), NEW next, client' = [client EXCEPT ![k] = next]
      PROVE  \E l \in Loops : WorksOn(l, u)'
  <2>1. PICK l \in Loops : WorksOn(l, u)
    BY <1>2, <1>4
  <2>2. client'[l] = client[l]
    BY <1>1, <1>4, <2>1, NothingDropped
  <2>3. WorksOn(l, u)'
    BY <1>4, <2>1, <2>2, HandsKept
  <2>4. QED BY <2>3
<1>5. ~Mishap
  BY LoopAssumption DEF Mishap, NothingFailed, LoopIndInv, LoopsWellFormed
<1>6. ASSUME NEW k \in Loops, Enrol(k) PROVE \E l \in Loops : WorksOn(l, u)'
  <2>1. SameHands(u)
    BY <1>6 DEF Enrol, RegisterWorker, SameHands
  <2>2. PICK l \in Loops : WorksOn(l, u)
    BY <1>2, <2>1
  <2>3. Ident[l] # Ident[k]
    <3>1. Ident[k] \in Workers /\ ~Registered(Ident[k])
      BY <1>1, <1>6 DEF Enrol, RegisterWorker
    <3>2. l \in LoopsOf(Ident[k]) => At(l, "register") \/ At(l, "stopped")
      BY <1>1, <3>1 DEF NotBegun
    <3>3. QED BY <2>2, <3>2 DEF LoopsOf, WorksOn, At
  <2>4. client'[l] = client[l]
    BY <1>6, <2>3 DEF Enrol, GotoAll, LoopsOf
  <2>5. WorksOn(l, u)'
    BY <2>1, <2>2, <2>4, HandsKept
  <2>6. QED BY <2>5
<1>7. ASSUME NEW k \in Loops, Beat(k) PROVE \E l \in Loops : WorksOn(l, u)'
  <2>1. SameHands(u) /\ ~At(k, "working") /\ Goto(k, "asking")
    BY <1>7 DEF Beat, Heartbeat, vars, SameHands, At
  <2>2. QED BY <1>4, <2>1 DEF Goto
<1>8. ASSUME NEW k \in Loops, AskForTask(k) PROVE \E l \in Loops : WorksOn(l, u)'
  <2>1. ~At(k, "working")
    BY <1>8 DEF AskForTask, At
  <2>2. CASE Goto(k, "heartbeat") /\ UNCHANGED task
    BY <1>4, <2>1, <2>2 DEF Goto, SameHands
  <2>3. ASSUME NEW t \in TaskIds, \/ ClaimValidation(Ident[k], t) /\ Hold(k, t, "validate")
                                  \/ ClaimExecution(Ident[k], t) /\ Hold(k, t, "work")
        PROVE  \E l \in Loops : WorksOn(l, u)'
    <3>1. WorksOn(k, t)' /\ \A v \in TaskIds \ {t} : SameHands(v)
      BY <1>1, <2>3, ClaimTakes
    <3>2. CASE u = t
      BY <3>1, <3>2
    <3>3. CASE u # t
      BY <1>4, <2>1, <2>3, <3>1, <3>3 DEF Hold
    <3>4. QED BY <3>2, <3>3
  <2>4. QED BY <1>8, <2>2, <2>3 DEF AskForTask, FindNothing, vars
<1>9. ASSUME NEW k \in Loops, SendResult(k) PROVE \E l \in Loops : WorksOn(l, u)'
  <2>1. PICK t : t = client[k].job
    OBVIOUS
  <2>2. t \in TaskIds /\ Ident[k] \in Workers /\ At(k, "working") /\ Goto(k, "heartbeat")
    BY <1>1, <1>9, <2>1, AtWork DEF SendResult
  <2>3. SameHands(u) /\ (u = t => ~WorksOn(k, u))
    <3>1. CASE Refused(Ident[k], t, client[k].mode) /\ UNCHANGED task
      BY <2>1, <3>1 DEF SameHands, WorksOn
    <3>2. CASE \/ \E answer \in Answers : SubmitResult(Ident[k], t, answer) \/ ValidateTask(Ident[k], t, answer)
               \/ SubmitTooLate(Ident[k], t)
      <4>1. /\ task'[t].status \notin {"assigned", "validating"}
            /\ \A v \in TaskIds \ {t} : task'[v] = task[v]
        BY <1>1, <2>2, <3>2, ResultReleases
      <4>2. QED BY <4>1 DEF SameHands
    <3>3. QED BY <1>9, <2>1, <3>1, <3>2 DEF SendResult, vars
  <2>4. PICK l \in Loops : WorksOn(l, u)
    BY <1>2, <2>3
  <2>5. l # k
    BY <2>1, <2>3, <2>4 DEF WorksOn
  <2>6. client'[l] = client[l]
    BY <1>1, <2>2, <2>5 DEF Goto
  <2>7. WorksOn(l, u)'
    BY <2>3, <2>4, <2>6, HandsKept
  <2>8. QED BY <2>7
<1>10. \A w \in Workers : ~Die(w)
  <2>1. ASSUME NEW w \in Workers, Die(w) PROVE FALSE
    <3>1. PICK l \in LoopsOf(w) : client'[l] = Doing("stopped")
      BY <2>1 DEF Die, GotoAll, LoopsOf
    <3>2. QED BY <3>1 DEF NothingFailed, LoopsOf, At, Doing
  <2>2. QED BY <2>1
<1>11. ASSUME \/ \E w \in Workers : Ban(w)
              \/ \E t \in TaskIds : OrphanLapses(t)
              \/ Submission \/ Sweep
       PROVE  \E l \in Loops : WorksOn(l, u)'
  <2>1. UNCHANGED client
    BY <1>11 DEF Ban, OrphanLapses, Submission, Sweep
  <2>2. SameHands(u)
    BY <1>1, <1>11, OthersSameHands DEF Ban, OrphanLapses, Submission, Sweep
  <2>3. QED BY <1>3, <2>1, <2>2
<1>12. CASE UNCHANGED loopVars
  BY <1>3, <1>12 DEF loopVars, vars, SameHands
<1>13. QED BY <1>5, <1>6, <1>7, <1>8, <1>9, <1>10, <1>11, <1>12
           DEF LoopNext, Process, AskInVain, LoseResult, Overrun

LEMMA LoopIndNext == ASSUME LoopIndInv, [LoopNext]_loopVars PROVE LoopIndInv'
<1>1. LoopsWellFormed' /\ StopTogether' /\ NotBegun'
  BY LoopsNext
<1>2. TypeOK'
  BY ServerSteps, ServerStepIsNext, NextTypeOK DEF LoopIndInv
<1>3. OrphansNeedFailure'
  BY OrphansNext DEF OrphansNeedFailure
<1>4. QED BY <1>1, <1>2, <1>3 DEF LoopIndInv

LEMMA LoopsStart == ASSUME LoopInit PROVE LoopIndInv
<1>1. TypeOK /\ client = [l \in Loops |-> Doing("register")] /\ mishaps = 0
  BY InitTypeOK DEF LoopInit
<1>2. WellFormed(Doing("register")) /\ Doing("register").step = "register"
  BY DoingWellFormed DEF Steps
<1>3. LoopsWellFormed
  BY <1>1, <1>2, LoopAssumption DEF LoopsWellFormed
<1>4. StopTogether /\ NotBegun
  BY <1>1, <1>2 DEF StopTogether, NotBegun, LoopsOf, At, LoopInit, Init, AbsentWorker
<1>5. OrphansNeedFailure
  BY DEF OrphansNeedFailure, LoopInit, Init, AbsentTask, NewTask
<1>6. QED BY <1>1, <1>3, <1>4, <1>5 DEF LoopIndInv

LEMMA LoopsHold == LoopSpec => []LoopIndInv
<1>1. LoopInit => LoopIndInv
  BY LoopsStart
<1>2. LoopIndInv /\ [LoopNext]_loopVars => LoopIndInv'
  BY LoopIndNext
<1>3. QED BY <1>1, <1>2, PTL DEF LoopSpec

\* Any number of processes, each with any number of threads, orphan nothing by themselves: a task
\* that is assigned or being validated is in the hands of a loop of the worker on record, until a
\* call is lost, a lease is overrun, a process dies or an administrator bans its worker.
THEOREM LoopsOrphanNothing == LoopSpec => []LoopInv
<1>1. LoopIndInv => LoopInv
  <2>1. LoopsWellFormed => client \in [Loops -> ClientRow]
    BY DEF LoopsWellFormed, WellFormed
  <2>2. QED BY <2>1 DEF LoopIndInv, LoopInv, LoopTypeOK, LoopsWellFormed, WellFormed, At
<1>2. QED BY <1>1, LoopsHold, PTL

\* Whatever the processes, the pool, the administrators and the clock do, the server sees a
\* behaviour of the task pipeline: every invariant of TaskPipeline holds while processes poll.
THEOREM LoopsUseThePipeline == LoopSpec => Spec
<1>1. LoopInit => Init
  BY DEF LoopInit
<1>2. LoopIndInv /\ [LoopNext]_loopVars => [Next]_vars
  BY ServerSteps, ServerStepIsNext
<1>3. QED BY <1>1, <1>2, LoopsHold, PTL DEF LoopSpec, Spec

=============================================================================
