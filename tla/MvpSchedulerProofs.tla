------------------------- MODULE MvpSchedulerProofs -------------------------
(***************************************************************************)
(* MvpInv and SettledStays hold for any number of workers and tasks, any   *)
(* capabilities and any number of mishaps.  What must be added: a task in  *)
(* the hands of a worker is processing, or the scheduler has forgotten it; *)
(* and a task nobody has submitted yet is in no place at all.              *)
(***************************************************************************)
EXTENDS MvpScheduler, FiniteSetTheorems, SequenceTheorems, TLAPS

-----------------------------------------------------------------------------
(* The inductive invariant *)

\* Task t is number i of queue q.
Slot(q, i, t) == i \in 1 .. Len(queues[q]) /\ queues[q][i] = t

QueuedArePending ==
  \A q \in QueueNames, t \in TaskIds : \A i \in Nat : Slot(q, i, t) => tasks[t].status = "pending"

PendingAreQueued ==
  \A t \in TaskIds : tasks[t].status = "pending" => \E q \in QueueNames : \E i \in Nat : Slot(q, i, t)

SlotsDiffer ==
  \A q, r \in QueueNames, t \in TaskIds :
    \A i, j \in Nat : Slot(q, i, t) /\ Slot(r, j, t) => q = r /\ i = j

QueuesOK == QueuedArePending /\ PendingAreQueued /\ SlotsDiffer

\* A worker's task is being processed, unless the scheduler has restarted since.
HeldAreProcessing ==
  \A w \in Workers : loop[w].job # "none" => tasks[loop[w].job].status \in {"processing", "absent"}

\* Before its request submits it, a task is nowhere.
NewAreUnknown ==
  \A t \in TaskIds : gateway[t] = "new" =>
    tasks[t].status = "absent" /\ \A w \in Workers : loop[w].job # t

IInv ==
  /\ MvpTypeOK /\ QueuesOK /\ OneWorkerPerTask
  /\ HeldAreProcessing /\ NewAreUnknown

-----------------------------------------------------------------------------
(* Queues *)

LEMMA QueueTypes ==
  ASSUME MvpTypeOK, NEW q \in QueueNames
  PROVE  queues[q] \in Seq(TaskIds) /\ Len(queues[q]) \in Nat
  BY DEF MvpTypeOK

\* The queues are as they were, and so are the tasks that are pending.
LEMMA SameQueues ==
  ASSUME QueuesOK, queues' = queues,
         \A t \in TaskIds : tasks'[t].status = "pending" <=> tasks[t].status = "pending"
  PROVE  QueuesOK'
  BY DEF QueuesOK, QueuedArePending, PendingAreQueued, SlotsDiffer, Slot

\* A task that was in no place is put at the end of a queue.
LEMMA Appended ==
  ASSUME MvpTypeOK, QueuesOK, NEW q \in QueueNames, NEW t \in TaskIds,
         tasks[t].status # "pending",
         queues' = [queues EXCEPT ![q] = Append(queues[q], t)],
         \A u \in TaskIds : tasks'[u].status = "pending" <=> u = t \/ tasks[u].status = "pending"
  PROVE  QueuesOK' /\ queues' \in [QueueNames -> Seq(TaskIds)]
<1> DEFINE n == Len(queues[q])
<1>1. queues[q] \in Seq(TaskIds) /\ n \in Nat /\ queues \in [QueueNames -> Seq(TaskIds)]
  BY DEF MvpTypeOK
<1>2. /\ Append(queues[q], t) \in Seq(TaskIds)
      /\ Len(Append(queues[q], t)) = n + 1
      /\ \A i \in 1 .. n : Append(queues[q], t)[i] = queues[q][i]
      /\ Append(queues[q], t)[n + 1] = t
  BY <1>1, AppendProperties
<1>3. queues' \in [QueueNames -> Seq(TaskIds)]
  BY <1>1, <1>2
<1>4. ASSUME NEW r \in QueueNames, NEW i \in Nat, NEW u \in TaskIds
      PROVE  Slot(r, i, u)' <=> Slot(r, i, u) \/ (r = q /\ i = n + 1 /\ u = t)
  <2>1. CASE r = q
    BY <1>1, <1>2, <2>1 DEF Slot
  <2>2. CASE r # q
    BY <1>1, <2>2 DEF Slot
  <2>3. QED BY <2>1, <2>2
<1>5. \A r \in QueueNames, i \in Nat : ~Slot(r, i, t)
  BY DEF QueuesOK, QueuedArePending
<1>6. QueuedArePending'
  BY <1>4 DEF QueuedArePending, QueuesOK
<1>7. PendingAreQueued'
  <2>1. ASSUME NEW u \in TaskIds, tasks'[u].status = "pending"
        PROVE  \E r \in QueueNames : \E i \in Nat : Slot(r, i, u)'
    <3>1. CASE u = t
      BY <1>1, <1>4, <3>1
    <3>2. CASE u # t
      BY <1>4, <2>1, <3>2 DEF QueuesOK, PendingAreQueued
    <3>3. QED BY <3>1, <3>2
  <2>2. QED BY <2>1 DEF PendingAreQueued
<1>8. SlotsDiffer'
  BY <1>4, <1>5 DEF SlotsDiffer, QueuesOK
<1>9. QED BY <1>3, <1>6, <1>7, <1>8 DEF QueuesOK

\* The first task of a queue is taken from it, and is pending no more.
LEMMA Removed ==
  ASSUME MvpTypeOK, QueuesOK, NEW q \in QueueNames, queues[q] # << >>,
         NEW t \in TaskIds, t = Head(queues[q]),
         queues' = [queues EXCEPT ![q] = Tail(queues[q])],
         \A u \in TaskIds : tasks'[u].status = "pending" <=> u # t /\ tasks[u].status = "pending"
  PROVE  /\ QueuesOK' /\ queues' \in [QueueNames -> Seq(TaskIds)]
         /\ tasks[t].status = "pending"
<1> DEFINE n == Len(queues[q])
<1>1. queues[q] \in Seq(TaskIds) /\ n \in Nat /\ queues \in [QueueNames -> Seq(TaskIds)]
  BY DEF MvpTypeOK
<1>2. /\ Tail(queues[q]) \in Seq(TaskIds)
      /\ Len(Tail(queues[q])) = n - 1
      /\ \A i \in 1 .. n - 1 : Tail(queues[q])[i] = queues[q][i + 1]
  BY <1>1, HeadTailProperties
<1>3. queues' \in [QueueNames -> Seq(TaskIds)]
  BY <1>1, <1>2
<1>4. Slot(q, 1, t)
  BY <1>1 DEF Slot
<1>5. tasks[t].status = "pending"
  BY <1>4 DEF QueuesOK, QueuedArePending
<1>6. ASSUME NEW r \in QueueNames, NEW i \in Nat, NEW u \in TaskIds
      PROVE  Slot(r, i, u)' <=> IF r = q THEN i >= 1 /\ Slot(q, i + 1, u) ELSE Slot(r, i, u)
  <2>1. CASE r = q
    <3>1. queues'[q] = Tail(queues[q])
      BY <1>1
    <3>2. i \in 1 .. n - 1 <=> i >= 1 /\ i + 1 \in 1 .. n
      BY <1>1
    <3>3. QED BY <1>2, <2>1, <3>1, <3>2 DEF Slot
  <2>2. CASE r # q
    BY <1>1, <2>2 DEF Slot
  <2>3. QED BY <2>1, <2>2
<1>7. ASSUME NEW r \in QueueNames, NEW i \in Nat, NEW u \in TaskIds, Slot(r, i, u)'
      PROVE  u # t /\ tasks[u].status = "pending"
  <2>1. CASE r = q
    <3>1. i >= 1 /\ Slot(q, i + 1, u)
      BY <1>6, <1>7, <2>1
    <3>2. u # t
      BY <1>4, <3>1 DEF QueuesOK, SlotsDiffer
    <3>3. QED BY <3>1, <3>2 DEF QueuesOK, QueuedArePending
  <2>2. CASE r # q
    <3>1. Slot(r, i, u)
      BY <1>6, <1>7, <2>2
    <3>2. u # t
      BY <1>4, <2>2, <3>1 DEF QueuesOK, SlotsDiffer
    <3>3. QED BY <3>1, <3>2 DEF QueuesOK, QueuedArePending
  <2>3. QED BY <2>1, <2>2
<1>8. QueuedArePending'
  BY <1>7 DEF QueuedArePending
<1>9. PendingAreQueued'
  <2>1. ASSUME NEW u \in TaskIds, u # t, tasks[u].status = "pending"
        PROVE  \E r \in QueueNames : \E i \in Nat : Slot(r, i, u)'
    <3>1. PICK r \in QueueNames, i \in Nat : Slot(r, i, u)
      BY <2>1 DEF QueuesOK, PendingAreQueued
    <3>2. CASE r = q
      <4>1. i # 1 /\ i >= 1
        BY <1>1, <1>4, <2>1, <3>1, <3>2 DEF Slot
      <4>2. i - 1 \in Nat /\ i - 1 >= 1 /\ (i - 1) + 1 = i
        BY <4>1
      <4>3. Slot(q, i - 1, u)'
        BY <1>6, <3>1, <3>2, <4>2
      <4>4. QED BY <4>2, <4>3
    <3>3. CASE r # q
      BY <1>6, <3>1, <3>3
    <3>4. QED BY <3>2, <3>3
  <2>2. QED BY <2>1 DEF PendingAreQueued
<1>10. SlotsDiffer'
  <2>1. ASSUME NEW r \in QueueNames, NEW s \in QueueNames, NEW u \in TaskIds,
               NEW i \in Nat, NEW j \in Nat, Slot(r, i, u)', Slot(s, j, u)'
        PROVE  r = s /\ i = j
    <3> DEFINE Was(p, k) == IF p = q THEN k + 1 ELSE k
    <3>1. Slot(r, Was(r, i), u) /\ Slot(s, Was(s, j), u)
      BY <1>6, <2>1
    <3>2. Was(r, i) \in Nat /\ Was(s, j) \in Nat
      OBVIOUS
    <3>3. r = s /\ Was(r, i) = Was(s, j)
      BY <3>1, <3>2 DEF QueuesOK, SlotsDiffer
    <3>4. QED BY <3>3
  <2>2. QED BY <2>1 DEF SlotsDiffer
<1>11. QED BY <1>3, <1>5, <1>8, <1>9, <1>10 DEF QueuesOK

-----------------------------------------------------------------------------
(* Workers *)

\* A worker goes where it has no task.
LEMMA HandsFree ==
  ASSUME IInv, NEW w \in Workers, NEW step \in {"register", "polling", "exited"},
         Goto(w, step, "none")
  PROVE  /\ loop' \in [Workers -> LoopRow]
         /\ \A v \in Workers : At(v, "working")' <=> loop'[v].job # "none"
         /\ \A v \in Workers : loop'[v].job = IF v = w THEN "none" ELSE loop[v].job
         /\ OneWorkerPerTask'
<1>1. /\ loop \in [Workers -> LoopRow]
      /\ \A v \in Workers : At(v, "working") <=> loop[v].job # "none"
  BY DEF IInv, MvpTypeOK
<1>2. loop' \in [Workers -> LoopRow] /\ loop'[w] = [step |-> step, job |-> "none"]
  BY <1>1 DEF Goto, LoopRow
<1>3. \A v \in Workers \ {w} : loop'[v] = loop[v]
  BY <1>1 DEF Goto
<1>4. /\ \A v \in Workers : At(v, "working")' <=> loop'[v].job # "none"
      /\ \A v \in Workers : loop'[v].job = IF v = w THEN "none" ELSE loop[v].job
  BY <1>1, <1>2, <1>3 DEF At
<1>5. OneWorkerPerTask'
  BY <1>1, <1>4 DEF OneWorkerPerTask, IInv
<1>6. QED BY <1>2, <1>4, <1>5

\* A worker gets a task nobody has.
LEMMA HandsFull ==
  ASSUME IInv, NEW w \in Workers, NEW t \in TaskIds, \A v \in Workers : loop[v].job # t,
         Goto(w, "working", t)
  PROVE  /\ loop' \in [Workers -> LoopRow]
         /\ \A v \in Workers : At(v, "working")' <=> loop'[v].job # "none"
         /\ \A v \in Workers : loop'[v].job = IF v = w THEN t ELSE loop[v].job
         /\ OneWorkerPerTask'
<1>1. /\ loop \in [Workers -> LoopRow] /\ t # "none"
      /\ \A v \in Workers : At(v, "working") <=> loop[v].job # "none"
  BY SchedulerAssumption DEF IInv, MvpTypeOK
<1>2. loop' \in [Workers -> LoopRow] /\ loop'[w] = [step |-> "working", job |-> t]
  BY <1>1 DEF Goto, LoopRow
<1>3. \A v \in Workers \ {w} : loop'[v] = loop[v]
  BY <1>1 DEF Goto
<1>4. /\ \A v \in Workers : At(v, "working")' <=> loop'[v].job # "none"
      /\ \A v \in Workers : loop'[v].job = IF v = w THEN t ELSE loop[v].job
  BY <1>1, <1>2, <1>3 DEF At
<1>5. OneWorkerPerTask'
  BY <1>1, <1>4 DEF OneWorkerPerTask, IInv
<1>6. QED BY <1>2, <1>4, <1>5

\* Only the worker's own step has changed, and maybe what is known of it.
LEMMA LoopOnly ==
  ASSUME IInv, NEW w \in Workers, NEW step \in {"register", "polling", "exited"},
         Goto(w, step, "none"), tasks' = tasks, queues' = queues, gateway' = gateway,
         registry' \in [Workers -> {"absent", "idle", "busy"}], refused' \subseteq TaskIds,
         mishaps' \in 0 .. MaxMishaps
  PROVE  IInv'
<1>1. /\ loop' \in [Workers -> LoopRow]
      /\ \A v \in Workers : At(v, "working")' <=> loop'[v].job # "none"
      /\ \A v \in Workers : loop'[v].job = IF v = w THEN "none" ELSE loop[v].job
      /\ OneWorkerPerTask'
  BY HandsFree
<1>2. MvpTypeOK'
  BY <1>1 DEF IInv, MvpTypeOK
<1>3. QueuesOK'
  BY SameQueues DEF IInv
<1>4. HeldAreProcessing' /\ NewAreUnknown'
  BY <1>1, SchedulerAssumption DEF IInv, HeldAreProcessing, NewAreUnknown
<1>5. QED BY <1>1, <1>2, <1>3, <1>4 DEF IInv

LEMMA MishapType ==
  ASSUME MvpTypeOK, Mishap
  PROVE  mishaps' \in 0 .. MaxMishaps
  BY SchedulerAssumption DEF MvpTypeOK, Mishap

LEMMA ProcessMoves ==
  ASSUME IInv, NEW w \in Workers,
         Enrol(w) \/ EnrolInVain(w) \/ ReportInVain(w) \/ Die(w) \/ Restart(w)
  PROVE  IInv'
<1>1. registry \in [Workers -> {"absent", "idle", "busy"}] /\ MvpTypeOK
      /\ refused \subseteq TaskIds /\ mishaps \in 0 .. MaxMishaps
  BY DEF IInv, MvpTypeOK
<1>2. CASE Enrol(w)
  <2>1. registry' = [registry EXCEPT ![w] = "idle"]
    BY <1>2 DEF Enrol, RegisterWorker
  <2>2. registry' \in [Workers -> {"absent", "idle", "busy"}]
    BY <1>1, <2>1
  <2>3. Goto(w, "polling", "none") /\ tasks' = tasks /\ queues' = queues /\ gateway' = gateway
        /\ refused' = refused /\ mishaps' = mishaps
    BY <1>2 DEF Enrol, RegisterWorker
  <2>4. QED BY <1>1, <2>2, <2>3, LoopOnly
<1>3. CASE EnrolInVain(w) \/ Die(w)
  BY <1>1, <1>3, LoopOnly, MishapType DEF EnrolInVain, Die, scheduler
<1>4. CASE ReportInVain(w)
  BY <1>1, <1>4, LoopOnly, MishapType DEF ReportInVain, scheduler
<1>5. CASE Restart(w)
  BY <1>1, <1>5, LoopOnly DEF Restart, scheduler
<1>6. QED BY <1>2, <1>3, <1>4, <1>5

-----------------------------------------------------------------------------
(* The scheduler's endpoints *)

\* A task is handed out: it was waiting, so nobody had it.
LEMMA HandedOut ==
  ASSUME IInv, NEW w \in Workers, NEW t \in TaskIds, HandOut(w, t)
  PROVE  /\ QueuesOK' /\ queues' \in [QueueNames -> Seq(TaskIds)]
         /\ registry' \in [Workers -> {"absent", "idle", "busy"}]
         /\ tasks' \in [TaskIds -> TaskRow]
         /\ tasks[t].status = "pending" /\ tasks'[t].status = "processing"
         /\ \A u \in TaskIds \ {t} : tasks'[u] = tasks[u]
         /\ gateway[t] # "new" /\ \A v \in Workers : loop[v].job # t
<1>1. PICK q \in QueueNames :
        /\ queues[q] # << >> /\ t = Head(queues[q])
        /\ queues' = [queues EXCEPT ![q] = Tail(queues[q])]
        /\ tasks' = [tasks EXCEPT ![t].status = "processing", ![t].worker = w]
        /\ registry' = [registry EXCEPT ![w] = "busy"]
  BY DEF HandOut, Offers
<1>2. /\ tasks \in [TaskIds -> TaskRow] /\ MvpTypeOK /\ QueuesOK
      /\ registry \in [Workers -> {"absent", "idle", "busy"}]
  BY DEF IInv, MvpTypeOK
<1>3. /\ tasks' \in [TaskIds -> TaskRow] /\ tasks'[t].status = "processing"
      /\ \A u \in TaskIds \ {t} : tasks'[u] = tasks[u]
  BY <1>1, <1>2 DEF TaskRow
<1>4. registry' \in [Workers -> {"absent", "idle", "busy"}]
  BY <1>1, <1>2
<1>5. \A u \in TaskIds : tasks'[u].status = "pending" <=> u # t /\ tasks[u].status = "pending"
  BY <1>3
<1>6. QueuesOK' /\ queues' \in [QueueNames -> Seq(TaskIds)] /\ tasks[t].status = "pending"
  BY <1>1, <1>2, <1>5, Removed
<1>7. gateway[t] # "new" /\ \A v \in Workers : loop[v].job # t
  BY <1>6, SchedulerAssumption DEF IInv, NewAreUnknown, HeldAreProcessing
<1>8. QED BY <1>3, <1>4, <1>6, <1>7

LEMMA PollKeeps ==
  ASSUME IInv, NEW w \in Workers, Poll(w)
  PROVE  IInv'
<1>1. PICK t \in TaskIds : HandOut(w, t) /\ Goto(w, "working", t)
  BY DEF Poll
<1>2. /\ QueuesOK' /\ queues' \in [QueueNames -> Seq(TaskIds)]
      /\ registry' \in [Workers -> {"absent", "idle", "busy"}]
      /\ tasks' \in [TaskIds -> TaskRow]
      /\ tasks[t].status = "pending" /\ tasks'[t].status = "processing"
      /\ \A u \in TaskIds \ {t} : tasks'[u] = tasks[u]
      /\ gateway[t] # "new" /\ \A v \in Workers : loop[v].job # t
  BY <1>1, HandedOut
<1>3. /\ loop' \in [Workers -> LoopRow]
      /\ \A v \in Workers : At(v, "working")' <=> loop'[v].job # "none"
      /\ \A v \in Workers : loop'[v].job = IF v = w THEN t ELSE loop[v].job
      /\ OneWorkerPerTask'
  BY <1>1, <1>2, HandsFull
<1>4. gateway' = gateway /\ refused' = refused /\ mishaps' = mishaps
  BY DEF Poll
<1>5. MvpTypeOK'
  BY <1>2, <1>3, <1>4 DEF IInv, MvpTypeOK
<1>6. \A v \in Workers : loop[v].job \in TaskIds \cup {"none"}
  BY DEF IInv, MvpTypeOK, LoopRow
<1>7. HeldAreProcessing'
  BY <1>2, <1>3, <1>6 DEF IInv, HeldAreProcessing
<1>8. NewAreUnknown'
  <2>1. ASSUME NEW u \in TaskIds, gateway[u] = "new"
        PROVE  tasks'[u].status = "absent" /\ \A v \in Workers : loop'[v].job # u
    <3>1. u # t /\ tasks[u].status = "absent" /\ \A v \in Workers : loop[v].job # u
      BY <1>2, <2>1 DEF IInv, NewAreUnknown
    <3>2. QED BY <1>2, <1>3, <3>1
  <2>2. QED BY <1>4, <2>1 DEF NewAreUnknown
<1>9. QED BY <1>2, <1>3, <1>5, <1>7, <1>8 DEF IInv

LEMMA PollInVainKeeps ==
  ASSUME IInv, NEW w \in Workers, PollInVain(w)
  PROVE  IInv'
<1>1. PICK t \in TaskIds : HandOut(w, t)
  BY DEF PollInVain
<1>2. /\ QueuesOK' /\ queues' \in [QueueNames -> Seq(TaskIds)]
      /\ registry' \in [Workers -> {"absent", "idle", "busy"}]
      /\ tasks' \in [TaskIds -> TaskRow]
      /\ tasks[t].status = "pending" /\ tasks'[t].status = "processing"
      /\ \A u \in TaskIds \ {t} : tasks'[u] = tasks[u]
      /\ gateway[t] # "new" /\ \A v \in Workers : loop[v].job # t
  BY <1>1, HandedOut
<1>3. loop' = loop /\ gateway' = gateway /\ refused' = refused /\ mishaps' \in 0 .. MaxMishaps
  BY MishapType DEF PollInVain, IInv
<1>4. MvpTypeOK' /\ OneWorkerPerTask'
  BY <1>2, <1>3 DEF IInv, MvpTypeOK, OneWorkerPerTask, At
<1>5. \A v \in Workers : loop[v].job \in TaskIds \cup {"none"}
  BY DEF IInv, MvpTypeOK, LoopRow
<1>6. HeldAreProcessing' /\ NewAreUnknown'
  BY <1>2, <1>3, <1>5 DEF IInv, HeldAreProcessing, NewAreUnknown
<1>7. QED BY <1>2, <1>4, <1>6 DEF IInv

LEMMA ReportKeeps ==
  ASSUME IInv, NEW w \in Workers, Report(w)
  PROVE  IInv'
<1> DEFINE t == loop[w].job
<1>1. t \in TaskIds /\ Goto(w, "polling", "none") /\ gateway' = gateway /\ mishaps' = mishaps
  BY DEF IInv, MvpTypeOK, LoopRow, Report, At
<1>2. MvpTypeOK /\ registry \in [Workers -> {"absent", "idle", "busy"}] /\ mishaps \in 0 .. MaxMishaps
      /\ tasks \in [TaskIds -> TaskRow]
  BY DEF IInv, MvpTypeOK
<1>3. CASE UNCHANGED scheduler
  <2>1. refused' \subseteq TaskIds
    BY <1>1, <1>2 DEF Report, Refuse, MvpTypeOK
  <2>2. QED BY <1>1, <1>2, <1>3, <2>1, LoopOnly DEF scheduler
<1>4. ASSUME NEW status \in Settled, TakeResult(w, t, status), refused' = refused
      PROVE  IInv'
  <2>1. /\ tasks[t].status # "absent" /\ queues' = queues
        /\ tasks' = [tasks EXCEPT ![t].status = status]
        /\ registry' \in [Workers -> {"absent", "idle", "busy"}]
    BY <1>2, <1>4 DEF TakeResult
  <2>2. tasks[t].status = "processing" /\ gateway[t] # "new"
    BY <1>1, <2>1, SchedulerAssumption DEF IInv, HeldAreProcessing, NewAreUnknown
  <2>3. /\ tasks' \in [TaskIds -> TaskRow] /\ tasks'[t].status = status
        /\ \A u \in TaskIds \ {t} : tasks'[u] = tasks[u]
    BY <1>1, <1>2, <2>1 DEF TaskRow, Settled
  <2>4. \A u \in TaskIds : tasks'[u].status = "pending" <=> tasks[u].status = "pending"
    BY <2>2, <2>3 DEF Settled
  <2>5. QueuesOK'
    BY <2>1, <2>4, SameQueues DEF IInv
  <2>6. /\ loop' \in [Workers -> LoopRow]
        /\ \A v \in Workers : At(v, "working")' <=> loop'[v].job # "none"
        /\ \A v \in Workers : loop'[v].job = IF v = w THEN "none" ELSE loop[v].job
        /\ OneWorkerPerTask'
    BY <1>1, HandsFree
  <2>7. MvpTypeOK'
    BY <1>1, <1>2, <1>4, <2>1, <2>3, <2>6 DEF MvpTypeOK
  <2>8. \A v \in Workers : loop[v].job \in TaskIds \cup {"none"} /\ (v # w => loop[v].job # t)
    BY <1>1, SchedulerAssumption DEF IInv, MvpTypeOK, LoopRow, OneWorkerPerTask
  <2>9. HeldAreProcessing'
    BY <2>3, <2>6, <2>8 DEF IInv, HeldAreProcessing
  <2>10. NewAreUnknown'
    <3>1. ASSUME NEW u \in TaskIds, gateway[u] = "new"
          PROVE  tasks'[u].status = "absent" /\ \A v \in Workers : loop'[v].job # u
      <4>1. u # t /\ u # "none" /\ tasks[u].status = "absent" /\ \A v \in Workers : loop[v].job # u
        BY <2>2, <3>1, SchedulerAssumption DEF IInv, NewAreUnknown
      <4>2. tasks'[u] = tasks[u]
        BY <2>3, <4>1
      <4>3. \A v \in Workers : loop'[v].job # u
        BY <2>6, <4>1
      <4>4. QED BY <4>1, <4>2, <4>3
    <3>2. QED BY <1>1, <3>1 DEF NewAreUnknown
  <2>11. QED BY <2>5, <2>6, <2>7, <2>9, <2>10 DEF IInv
<1>5. Outcome(tasks[t].type) \in Settled
  BY DEF Outcome, Settled
<1>6. QED BY <1>3, <1>4, <1>5 DEF Report, Refuse

LEMMA SchedulerRestartKeeps ==
  ASSUME IInv, SchedulerRestart
  PROVE  IInv'
<1>1. /\ loop' = loop /\ gateway' = gateway /\ refused' = refused /\ mishaps' \in 0 .. MaxMishaps
      /\ registry' = [w \in Workers |-> "absent"]
      /\ queues' = [q \in QueueNames |-> << >>]
  BY MishapType DEF SchedulerRestart, IInv
<1>2. /\ tasks' \in [TaskIds -> TaskRow]
      /\ \A t \in TaskIds : tasks'[t].status = "absent"
  BY DEF SchedulerRestart, IInv, MvpTypeOK, TaskRow
<1>3. MvpTypeOK' /\ OneWorkerPerTask'
  BY <1>1, <1>2 DEF IInv, MvpTypeOK, OneWorkerPerTask, At
<1>4. QueuesOK'
  <2>1. \A q \in QueueNames, t \in TaskIds : \A i \in Nat : ~Slot(q, i, t)'
    BY <1>1 DEF Slot
  <2>2. QED BY <1>2, <2>1 DEF QueuesOK, QueuedArePending, PendingAreQueued, SlotsDiffer
<1>5. \A v \in Workers : loop[v].job \in TaskIds \cup {"none"}
  BY DEF IInv, MvpTypeOK, LoopRow
<1>6. HeldAreProcessing' /\ NewAreUnknown'
  BY <1>1, <1>2, <1>5 DEF IInv, HeldAreProcessing, NewAreUnknown
<1>7. QED BY <1>3, <1>4, <1>6 DEF IInv

-----------------------------------------------------------------------------
(* The gateway *)

GatewayStates == {"new", "waiting", "answered", "failed", "timeout", "unavailable"}

\* A request goes on, and its task is new no more.
LEMMA GatewayOnly ==
  ASSUME IInv, NEW t \in TaskIds, NEW state \in GatewayStates \ {"new"},
         gateway' = [gateway EXCEPT ![t] = state], registry' = registry, tasks' = tasks,
         queues' = queues, loop' = loop, refused' = refused, mishaps' \in 0 .. MaxMishaps
  PROVE  IInv'
<1>1. gateway' \in [TaskIds -> GatewayStates] /\ \A u \in TaskIds : gateway'[u] = "new" => gateway[u] = "new"
  BY DEF IInv, MvpTypeOK, GatewayStates
<1>2. MvpTypeOK' /\ OneWorkerPerTask' /\ HeldAreProcessing'
  BY <1>1 DEF IInv, MvpTypeOK, OneWorkerPerTask, HeldAreProcessing, At, GatewayStates
<1>3. QueuesOK'
  BY SameQueues DEF IInv
<1>4. NewAreUnknown'
  BY <1>1 DEF IInv, NewAreUnknown
<1>5. QED BY <1>2, <1>3, <1>4 DEF IInv

\* A new task is put into the queue of its type.
LEMMA SubmitKeeps ==
  ASSUME IInv, NEW t \in TaskIds, NEW state \in GatewayStates \ {"new"},
         gateway[t] = "new", Submit(t),
         gateway' = [gateway EXCEPT ![t] = state], loop' = loop, refused' = refused,
         mishaps' \in 0 .. MaxMishaps
  PROVE  IInv'
<1>1. gateway' \in [TaskIds -> GatewayStates] /\ \A u \in TaskIds : gateway'[u] = "new" => gateway[u] = "new" /\ u # t
  BY DEF IInv, MvpTypeOK, GatewayStates
<1>2. /\ tasks' = [tasks EXCEPT ![t].status = "pending", ![t].worker = "nobody"]
      /\ registry' = registry
      /\ tasks \in [TaskIds -> TaskRow] /\ MvpTypeOK /\ QueuesOK
  BY DEF Submit, IInv, MvpTypeOK
<1>3. PICK q \in QueueNames : queues' = [queues EXCEPT ![q] = Append(queues[q], t)]
  BY DEF Submit, QueueOf, QueueNames
<1>4. /\ tasks' \in [TaskIds -> TaskRow] /\ tasks'[t].status = "pending"
      /\ \A u \in TaskIds \ {t} : tasks'[u] = tasks[u]
  BY <1>2 DEF TaskRow
<1>5. tasks[t].status = "absent" /\ \A v \in Workers : loop[v].job # t
  BY DEF IInv, NewAreUnknown
<1>6. \A u \in TaskIds : tasks'[u].status = "pending" <=> u = t \/ tasks[u].status = "pending"
  BY <1>4
<1>7. QueuesOK' /\ queues' \in [QueueNames -> Seq(TaskIds)]
  BY <1>2, <1>3, <1>5, <1>6, Appended
<1>8. MvpTypeOK' /\ OneWorkerPerTask'
  BY <1>1, <1>2, <1>4, <1>7 DEF IInv, MvpTypeOK, OneWorkerPerTask, At, GatewayStates
<1>9. \A v \in Workers : loop[v].job \in TaskIds \cup {"none"}
  BY DEF IInv, MvpTypeOK, LoopRow
<1>10. HeldAreProcessing' /\ NewAreUnknown'
  BY <1>1, <1>4, <1>5, <1>9 DEF IInv, HeldAreProcessing, NewAreUnknown
<1>11. QED BY <1>7, <1>8, <1>10 DEF IInv

LEMMA GatewayKeeps ==
  ASSUME IInv, NEW t \in TaskIds,
         SendTask(t) \/ SendTaskInVain(t) \/ PollResult(t) \/ GiveUp(t)
  PROVE  IInv'
<1>1. mishaps \in 0 .. MaxMishaps /\ MvpTypeOK
  BY DEF IInv, MvpTypeOK
<1>2. CASE SendTask(t)
  BY <1>1, <1>2, SubmitKeeps DEF SendTask, GatewayStates
<1>3. CASE SendTaskInVain(t)
  <2>1. /\ gateway[t] = "new" /\ gateway' = [gateway EXCEPT ![t] = "unavailable"]
        /\ loop' = loop /\ refused' = refused /\ mishaps' \in 0 .. MaxMishaps
    BY <1>1, <1>3, MishapType DEF SendTaskInVain
  <2>2. CASE Submit(t)
    BY <2>1, <2>2, SubmitKeeps DEF GatewayStates
  <2>3. CASE UNCHANGED scheduler
    BY <2>1, <2>3, GatewayOnly DEF GatewayStates, scheduler
  <2>4. QED BY <1>3, <2>2, <2>3 DEF SendTaskInVain
<1>4. CASE PollResult(t)
  <2>1. PICK state \in GatewayStates \ {"new"} : gateway' = [gateway EXCEPT ![t] = state]
    BY <1>4 DEF PollResult, GatewayStates
  <2>2. QED BY <1>1, <1>4, <2>1, GatewayOnly DEF PollResult, scheduler
<1>5. CASE GiveUp(t)
  BY <1>1, <1>5, GatewayOnly DEF GiveUp, GatewayStates, scheduler
<1>6. QED BY <1>2, <1>3, <1>4, <1>5

-----------------------------------------------------------------------------
(* The specification *)

LEMMA InitOK == Init => IInv
<1> SUFFICES ASSUME Init PROVE IInv
  OBVIOUS
<1>1. /\ registry = [w \in Workers |-> "absent"]
      /\ tasks \in [TaskIds -> [status : {"absent"}, type : Types, worker : {"nobody"}]]
      /\ queues = [q \in QueueNames |-> << >>]
      /\ loop = [w \in Workers |-> [step |-> "register", job |-> "none"]]
      /\ gateway = [t \in TaskIds |-> "new"]
      /\ refused = {} /\ mishaps = 0
  BY DEF Init
<1>2. tasks \in [TaskIds -> TaskRow] /\ \A t \in TaskIds : tasks[t].status = "absent"
  BY <1>1 DEF TaskRow
<1>3. MvpTypeOK
  BY <1>1, <1>2, SchedulerAssumption DEF MvpTypeOK, LoopRow, At
<1>4. QueuesOK
  <2>1. \A q \in QueueNames, t \in TaskIds : \A i \in Nat : ~Slot(q, i, t)
    BY <1>1 DEF Slot
  <2>2. QED BY <1>2, <2>1 DEF QueuesOK, QueuedArePending, PendingAreQueued, SlotsDiffer
<1>5. OneWorkerPerTask /\ HeldAreProcessing /\ NewAreUnknown
  BY <1>1, <1>2, SchedulerAssumption DEF OneWorkerPerTask, HeldAreProcessing, NewAreUnknown, At
<1>6. QED BY <1>3, <1>4, <1>5 DEF IInv

LEMMA NextOK == IInv /\ [Next]_mvpVars => IInv'
<1> SUFFICES ASSUME IInv, [Next]_mvpVars PROVE IInv'
  OBVIOUS
<1>1. ASSUME NEW w \in Workers,
             Process(w) \/ EnrolInVain(w) \/ PollInVain(w) \/ ReportInVain(w) \/ Die(w)
      PROVE  IInv'
  BY <1>1, ProcessMoves, PollKeeps, PollInVainKeeps, ReportKeeps DEF Process
<1>2. CASE SchedulerRestart
  BY <1>2, SchedulerRestartKeeps
<1>3. ASSUME NEW t \in TaskIds, SendTask(t) \/ SendTaskInVain(t) \/ PollResult(t) \/ GiveUp(t)
      PROVE  IInv'
  BY <1>3, GatewayKeeps
<1>4. CASE UNCHANGED mvpVars
  BY <1>4 DEF mvpVars, scheduler, IInv, MvpTypeOK, QueuesOK, QueuedArePending, PendingAreQueued,
     SlotsDiffer, Slot, OneWorkerPerTask, HeldAreProcessing, NewAreUnknown, At
<1>5. QED BY <1>1, <1>2, <1>3, <1>4 DEF Next

LEMMA Invariant == Spec => []IInv
  BY InitOK, NextOK, PTL DEF Spec

\* A queue is no longer than there are tasks, so that Places sees all of it.
LEMMA QueuesFit ==
  ASSUME IInv, NEW q \in QueueNames
  PROVE  Len(queues[q]) <= Cardinality(TaskIds)
<1> DEFINE n == Len(queues[q])
<1>1. queues[q] \in Seq(TaskIds) /\ n \in Nat
  BY DEF IInv, MvpTypeOK
<1>2. queues[q] \in [1 .. n -> TaskIds]
  BY <1>1
<1>3. ASSUME NEW i \in 1 .. n, NEW j \in 1 .. n, queues[q][i] = queues[q][j]
      PROVE  i = j
  <2>1. queues[q][i] \in TaskIds /\ i \in Nat /\ j \in Nat
    BY <1>2
  <2>2. Slot(q, i, queues[q][i]) /\ Slot(q, j, queues[q][i])
    BY <1>3 DEF Slot
  <2>3. QED BY <2>1, <2>2 DEF IInv, QueuesOK, SlotsDiffer
<1>4. queues[q] \in Injection(1 .. n, TaskIds)
  BY <1>2, <1>3 DEF Injection, IsInjective
<1>5. Cardinality(1 .. n) <= Cardinality(TaskIds)
  BY <1>4, SchedulerAssumption, FS_Injection
<1>6. Cardinality(1 .. n) = n
  BY <1>1, FS_Interval
<1>7. QED BY <1>5, <1>6

LEMMA QueuedOnceHolds == ASSUME IInv PROVE QueuedOnce
<1> SUFFICES ASSUME NEW t \in TaskIds
             PROVE  Cardinality(Places(t)) = IF tasks[t].status = "pending" THEN 1 ELSE 0
  BY DEF QueuedOnce
<1> DEFINE c == Cardinality(TaskIds)
<1>1. c \in Nat
  BY SchedulerAssumption, FS_CardinalityType
<1>2. \A q \in QueueNames : DOMAIN queues[q] = 1 .. Len(queues[q]) /\ Len(queues[q]) \in Nat /\ Len(queues[q]) <= c
  BY QueuesFit DEF IInv, MvpTypeOK
<1>3. \A p \in Places(t) : p = <<p[1], p[2]>> /\ p[1] \in QueueNames /\ p[2] \in Nat /\ Slot(p[1], p[2], t)
  BY <1>1, <1>2 DEF Places, Slot
<1>4. CASE tasks[t].status # "pending"
  <2>1. Places(t) = {}
    BY <1>3, <1>4 DEF IInv, QueuesOK, QueuedArePending
  <2>2. QED BY <1>4, <2>1, FS_EmptySet
<1>5. CASE tasks[t].status = "pending"
  <2>1. PICK q \in QueueNames, i \in Nat : Slot(q, i, t)
    BY <1>5 DEF IInv, QueuesOK, PendingAreQueued
  <2>2. <<q, i>> \in Places(t)
    BY <1>1, <1>2, <2>1 DEF Places, Slot
  <2>3. \A p \in Places(t) : p = <<q, i>>
    BY <1>3, <2>1 DEF IInv, QueuesOK, SlotsDiffer
  <2>4. Places(t) = {<<q, i>>}
    BY <2>2, <2>3
  <2>5. QED BY <1>5, <2>4, FS_Singleton
<1>6. QED BY <1>4, <1>5

(***************************************************************************)
(* For any number of workers, tasks and mishaps: a pending task is in one  *)
(* place of one queue, no other task is in any, and no two workers have    *)
(* the same task, although a result carries no proof of assignment, the    *)
(* dead come back under their ids, and the scheduler may forget it all.    *)
(***************************************************************************)
THEOREM EveryTaskHasOnePlace == Spec => []MvpInv
<1>1. IInv => MvpInv
  BY QueuedOnceHolds DEF IInv, MvpInv
<1>2. QED BY <1>1, Invariant, PTL

\* What SettledStays says of one step.
LEMMA SettledStep ==
  ASSUME IInv, [Next]_mvpVars, NEW t \in TaskIds, tasks[t].status \in Settled
  PROVE  tasks'[t].status \in {tasks[t].status, "absent"}
<1>1. CASE tasks' = tasks
  BY <1>1
<1>2. ASSUME NEW w \in Workers, NEW u \in TaskIds, HandOut(w, u)
      PROVE  tasks'[t] = tasks[t]
  <2>1. tasks[u].status = "pending" /\ \A v \in TaskIds \ {u} : tasks'[v] = tasks[v]
    BY <1>2, HandedOut
  <2>2. QED BY <2>1 DEF Settled
<1>3. ASSUME NEW w \in Workers, NEW status \in Settled, At(w, "working"),
             TakeResult(w, loop[w].job, status)
      PROVE  tasks'[t] = tasks[t]
  <2>1. loop[w].job \in TaskIds /\ tasks[loop[w].job].status = "processing"
    BY <1>3, SchedulerAssumption DEF IInv, MvpTypeOK, LoopRow, HeldAreProcessing, TakeResult
  <2>2. QED BY <1>3, <2>1 DEF TakeResult, Settled, IInv, MvpTypeOK
<1>4. ASSUME NEW u \in TaskIds, gateway[u] = "new", Submit(u)
      PROVE  tasks'[t] = tasks[t]
  <2>1. tasks[u].status = "absent"
    BY <1>4 DEF IInv, NewAreUnknown
  <2>2. QED BY <1>4, <2>1 DEF Submit, Settled, IInv, MvpTypeOK
<1>5. CASE SchedulerRestart
  BY <1>5 DEF SchedulerRestart, IInv, MvpTypeOK, TaskRow
<1>6. ASSUME NEW w \in Workers,
             Process(w) \/ EnrolInVain(w) \/ PollInVain(w) \/ ReportInVain(w) \/ Die(w)
      PROVE  tasks'[t].status \in {tasks[t].status, "absent"}
  <2>1. CASE Report(w)
    <3>1. Outcome(tasks[loop[w].job].type) \in Settled
      BY DEF Outcome, Settled
    <3>2. QED BY <1>1, <1>3, <2>1, <3>1 DEF Report, Refuse, scheduler
  <2>2. CASE Poll(w) \/ PollInVain(w)
    BY <1>2, <2>2 DEF Poll, PollInVain
  <2>3. QED BY <1>1, <1>6, <2>1, <2>2
        DEF Process, Enrol, RegisterWorker, Restart, EnrolInVain, ReportInVain, Die, scheduler
<1>7. ASSUME NEW u \in TaskIds, SendTask(u) \/ SendTaskInVain(u) \/ PollResult(u) \/ GiveUp(u)
      PROVE  tasks'[t].status \in {tasks[t].status, "absent"}
  BY <1>1, <1>4, <1>7 DEF SendTask, SendTaskInVain, PollResult, GiveUp, scheduler
<1>8. QED BY <1>1, <1>5, <1>6, <1>7 DEF Next, mvpVars, scheduler

(***************************************************************************)
(* A task that has its result keeps it, whatever late or repeated results  *)
(* arrive, until the scheduler restarts and forgets it (submit_result).    *)
(***************************************************************************)
THEOREM ResultsStay == Spec => SettledStays
<1>1. IInv /\ [Next]_mvpVars =>
        [\A t \in TaskIds : tasks[t].status \in Settled =>
            tasks'[t].status \in {tasks[t].status, "absent"}]_mvpVars
  BY SettledStep
<1>2. QED BY <1>1, Invariant, PTL DEF Spec, SettledStays

-----------------------------------------------------------------------------
(* Scheduler and workers agree while nothing goes wrong *)

WorkersAreBusy == \A w \in Workers : At(w, "working") => registry[w] = "busy"

BusyHaveAReason ==
  \A w \in Workers : registry[w] = "busy" =>
    At(w, "working") \/ \E t \in refused : tasks[t].worker = w

ProcessingHasWorker ==
  \A t \in TaskIds : tasks[t].status = "processing" =>
    tasks[t].worker \in Workers /\ (loop[tasks[t].worker].job = t \/ t \in refused)

RefusedStayProcessing == \A t \in refused : tasks[t].status = "processing"

\* What keeps BusyAgrees: a worker's task is one the scheduler knows, and not one it refused.
HandsAgree ==
  \A w \in Workers : loop[w].job # "none" =>
    tasks[loop[w].job].status = "processing" /\ loop[w].job \notin refused

Agreement ==
  mishaps = 0 =>
    /\ WorkersAreBusy /\ BusyHaveAReason /\ ProcessingHasWorker
    /\ RefusedStayProcessing /\ HandsAgree

LEMMA MishapsShow ==
  ASSUME IInv, mishaps' = 0, Mishap
  PROVE  FALSE
<1>1. mishaps \in Nat
  BY SchedulerAssumption DEF IInv, MvpTypeOK
<1>2. mishaps' = mishaps + 1
  BY DEF Mishap
<1>3. QED BY <1>1, <1>2

LEMMA PollAgrees ==
  ASSUME IInv, Agreement, mishaps = 0, NEW w \in Workers, Poll(w)
  PROVE  Agreement'
<1>1. PICK t \in TaskIds : HandOut(w, t) /\ Goto(w, "working", t)
  BY DEF Poll
<1>2. /\ registry \in [Workers -> {"absent", "idle", "busy"}] /\ tasks \in [TaskIds -> TaskRow]
      /\ loop \in [Workers -> LoopRow] /\ \A v \in Workers : At(v, "working") <=> loop[v].job # "none"
      /\ refused \subseteq TaskIds /\ refused' = refused /\ "none" \notin TaskIds
  BY SchedulerAssumption DEF IInv, MvpTypeOK, Poll
<1>3. loop[w].job = "none" /\ ~At(w, "working")
  BY <1>2 DEF Poll, At
<1>4. PICK row : row = [step |-> "working", job |-> t]
  OBVIOUS
<1>5. /\ loop'[w] = row
      /\ \A v \in Workers : v # w => loop'[v] = loop[v]
  BY <1>1, <1>2, <1>4 DEF Goto
<1>6. /\ registry'[w] = "busy"
      /\ \A v \in Workers : v # w => registry'[v] = registry[v]
  BY <1>1, <1>2 DEF HandOut
<1>7. /\ tasks'[t].status = "processing" /\ tasks'[t].worker = w
      /\ \A u \in TaskIds : u # t => tasks'[u] = tasks[u]
  BY <1>1, <1>2 DEF HandOut, TaskRow
<1>8. t \notin refused
  <2>1. tasks[t].status = "pending"
    BY <1>1, HandedOut
  <2>2. QED BY <2>1 DEF Agreement, RefusedStayProcessing
<1>9. WorkersAreBusy'
  BY <1>5, <1>6 DEF Agreement, WorkersAreBusy, At
<1>10. BusyHaveAReason'
  <2>1. At(w, "working")'
    BY <1>4, <1>5 DEF At
  <2>2. ASSUME NEW v \in Workers, v # w, registry'[v] = "busy"
        PROVE  At(v, "working")' \/ \E u \in refused' : tasks'[u].worker = v
    <3>1. At(v, "working") \/ \E u \in refused : tasks[u].worker = v
      BY <1>6, <2>2 DEF Agreement, BusyHaveAReason
    <3>2. \A u \in refused : tasks'[u] = tasks[u]
      BY <1>2, <1>7, <1>8
    <3>3. QED BY <1>2, <1>5, <2>2, <3>1, <3>2 DEF At
  <2>3. QED BY <2>1, <2>2 DEF BusyHaveAReason
<1>11. ProcessingHasWorker'
  <2>1. ASSUME NEW u \in TaskIds, tasks'[u].status = "processing"
        PROVE  tasks'[u].worker \in Workers /\ (loop'[tasks'[u].worker].job = u \/ u \in refused')
    <3>1. CASE u = t
      BY <1>4, <1>5, <1>7, <3>1
    <3>2. CASE u # t
      <4>1. /\ tasks'[u] = tasks[u] /\ tasks[u].worker \in Workers
            /\ loop[tasks[u].worker].job = u \/ u \in refused
        BY <1>7, <2>1, <3>2 DEF Agreement, ProcessingHasWorker
      <4>2. loop[tasks[u].worker].job = u => tasks[u].worker # w
        BY <1>2, <1>3
      <4>3. QED BY <1>2, <1>5, <4>1, <4>2
    <3>3. QED BY <3>1, <3>2
  <2>2. QED BY <2>1 DEF ProcessingHasWorker
<1>12. RefusedStayProcessing'
  BY <1>2, <1>7, <1>8 DEF Agreement, RefusedStayProcessing
<1>13. HandsAgree'
  <2>1. ASSUME NEW v \in Workers, v # w, loop'[v].job # "none"
        PROVE  tasks'[loop'[v].job].status = "processing" /\ loop'[v].job \notin refused'
    <3>1. loop'[v] = loop[v] /\ loop[v].job \in TaskIds
      BY <1>2, <1>5, <2>1 DEF LoopRow
    <3>2. tasks[loop[v].job].status = "processing" /\ loop[v].job \notin refused
      BY <2>1, <3>1 DEF Agreement, HandsAgree
    <3>3. QED BY <1>2, <1>7, <3>1, <3>2
  <2>2. tasks'[loop'[w].job].status = "processing" /\ loop'[w].job \notin refused'
    BY <1>2, <1>4, <1>5, <1>7, <1>8
  <2>3. QED BY <2>1, <2>2 DEF HandsAgree
<1>14. QED BY <1>9, <1>10, <1>11, <1>12, <1>13 DEF Agreement

\* The scheduler takes the report, or answers 422 and the worker goes on all the same.
LEMMA ReportAgrees ==
  ASSUME IInv, Agreement, mishaps = 0, NEW w \in Workers, Report(w)
  PROVE  Agreement'
<1>1. PICK t : t = loop[w].job
  OBVIOUS
<1>2. /\ registry \in [Workers -> {"absent", "idle", "busy"}] /\ tasks \in [TaskIds -> TaskRow]
      /\ loop \in [Workers -> LoopRow] /\ \A v \in Workers : At(v, "working") <=> loop[v].job # "none"
      /\ refused \subseteq TaskIds /\ "none" \notin TaskIds
  BY SchedulerAssumption DEF IInv, MvpTypeOK
<1>3. At(w, "working") /\ t # "none" /\ t \in TaskIds
  BY <1>1, <1>2 DEF Report, LoopRow
<1>4. tasks[t].status = "processing" /\ t \notin refused /\ registry[w] = "busy"
  BY <1>1, <1>3 DEF Agreement, HandsAgree, WorkersAreBusy
<1>5. PICK row : row = [step |-> "polling", job |-> "none"]
  OBVIOUS
<1>6. /\ loop'[w] = row
      /\ \A v \in Workers : v # w => loop'[v] = loop[v]
  BY <1>2, <1>5 DEF Report, Goto
<1>7. \A v \in Workers : v # w => loop[v].job # t
  BY <1>1, <1>2, <1>3 DEF IInv, OneWorkerPerTask
<1>8. /\ refused' = refused \/ refused' = refused \cup {t}
      /\ t \in refused' \/ tasks'[t].status \in Settled
      /\ t \in refused' => tasks'[t] = tasks[t] /\ registry' = registry
      /\ t \notin refused' => registry'[w] # "busy"
      /\ \A v \in Workers : v # w => registry'[v] = registry[v]
      /\ \A u \in TaskIds : u # t => tasks'[u] = tasks[u]
  <2>1. CASE Refuse(t)
    BY <2>1 DEF Refuse, scheduler
  <2>2. CASE TakeResult(w, t, Outcome(tasks[t].type)) /\ refused' = refused
    <3>1. PICK status \in Settled : status = Outcome(tasks[t].type)
      BY DEF Outcome, Settled
    <3>2. /\ registry'[w] = "idle" /\ \A v \in Workers : v # w => registry'[v] = registry[v]
      BY <1>2, <1>4, <2>2 DEF TakeResult
    <3>3. tasks'[t].status = status /\ \A u \in TaskIds : u # t => tasks'[u] = tasks[u]
      BY <1>2, <1>3, <2>2, <3>1 DEF TakeResult, TaskRow
    <3>4. QED BY <1>4, <2>2, <3>2, <3>3
  <2>3. QED BY <1>1, <1>4, <2>1, <2>2 DEF Report
<1>9. WorkersAreBusy'
  BY <1>5, <1>6, <1>8 DEF Agreement, WorkersAreBusy, At
<1>10. \A u \in refused : tasks'[u] = tasks[u] /\ u \in refused'
  BY <1>2, <1>4, <1>8
<1>11. BusyHaveAReason'
  <2>1. ASSUME registry'[w] = "busy" PROVE \E u \in refused' : tasks'[u].worker = w
    <3>1. t \in refused' /\ tasks'[t] = tasks[t]
      BY <1>8, <2>1
    <3>2. tasks[t].worker \in Workers /\ loop[tasks[t].worker].job = t
      BY <1>3, <1>4 DEF Agreement, ProcessingHasWorker
    <3>3. tasks[t].worker = w
      BY <1>7, <3>2
    <3>4. QED BY <3>1, <3>3
  <2>2. ASSUME NEW v \in Workers, v # w, registry'[v] = "busy"
        PROVE  At(v, "working")' \/ \E u \in refused' : tasks'[u].worker = v
    <3>1. At(v, "working") \/ \E u \in refused : tasks[u].worker = v
      BY <1>8, <2>2 DEF Agreement, BusyHaveAReason
    <3>2. QED BY <1>6, <1>10, <2>2, <3>1 DEF At
  <2>3. QED BY <2>1, <2>2 DEF BusyHaveAReason
<1>12. ProcessingHasWorker'
  <2>1. ASSUME NEW u \in TaskIds, tasks'[u].status = "processing", u \notin refused'
        PROVE  tasks'[u].worker \in Workers /\ loop'[tasks'[u].worker].job = u
    <3>1. u # t
      BY <1>8, <2>1 DEF Settled
    <3>2. tasks[u].worker \in Workers /\ loop[tasks[u].worker].job = u /\ tasks'[u] = tasks[u]
      BY <1>8, <1>10, <2>1, <3>1 DEF Agreement, ProcessingHasWorker
    <3>3. tasks[u].worker # w
      BY <1>1, <3>1, <3>2
    <3>4. QED BY <1>6, <3>2, <3>3
  <2>2. ASSUME NEW u \in TaskIds, tasks'[u].status = "processing", u \in refused'
        PROVE  tasks'[u].worker \in Workers
    <3>1. tasks'[u] = tasks[u]
      BY <1>8, <2>2
    <3>2. QED BY <2>2, <3>1 DEF Agreement, ProcessingHasWorker
  <2>3. QED BY <2>1, <2>2 DEF ProcessingHasWorker
<1>13. RefusedStayProcessing'
  BY <1>4, <1>8, <1>10 DEF Agreement, RefusedStayProcessing
<1>14. HandsAgree'
  <2>1. ASSUME NEW v \in Workers, loop'[v].job # "none"
        PROVE  tasks'[loop'[v].job].status = "processing" /\ loop'[v].job \notin refused'
    <3>1. v # w
      BY <1>5, <1>6, <2>1
    <3>2. loop'[v] = loop[v] /\ loop[v].job \in TaskIds /\ loop[v].job # t
      BY <1>2, <1>6, <1>7, <2>1, <3>1 DEF LoopRow
    <3>3. tasks[loop[v].job].status = "processing" /\ loop[v].job \notin refused
      BY <2>1, <3>2 DEF Agreement, HandsAgree
    <3>4. QED BY <1>8, <3>2, <3>3
  <2>2. QED BY <2>1 DEF HandsAgree
<1>15. QED BY <1>9, <1>11, <1>12, <1>13, <1>14 DEF Agreement

\* A worker that enrols or is started again had no task, and gets none.
LEMMA IdleAgrees ==
  ASSUME IInv, Agreement, mishaps = 0, NEW w \in Workers, Enrol(w) \/ Restart(w)
  PROVE  Agreement'
<1>1. /\ registry \in [Workers -> {"absent", "idle", "busy"}] /\ loop \in [Workers -> LoopRow]
      /\ \A v \in Workers : At(v, "working") <=> loop[v].job # "none"
      /\ "none" \notin TaskIds
  BY SchedulerAssumption DEF IInv, MvpTypeOK
<1>2. loop[w].job = "none" /\ ~At(w, "working")
  BY <1>1 DEF Enrol, Restart, At
<1>3. PICK step \in {"polling", "register"} : loop' = [loop EXCEPT ![w] = [step |-> step, job |-> "none"]]
  BY DEF Enrol, Restart, Goto
<1>4. PICK row : row = [step |-> step, job |-> "none"]
  OBVIOUS
<1>5. loop'[w] = row /\ \A v \in Workers : v # w => loop'[v] = loop[v]
  BY <1>1, <1>3, <1>4
<1>6. /\ registry'[w] = "busy" => registry[w] = "busy"
      /\ \A v \in Workers : v # w => registry'[v] = registry[v]
  BY <1>1 DEF Enrol, Restart, RegisterWorker, scheduler
<1>7. tasks' = tasks /\ refused' = refused
  BY DEF Enrol, Restart, RegisterWorker, scheduler
<1>8. \A v \in Workers : loop'[v].job = loop[v].job /\ (At(v, "working")' <=> At(v, "working"))
  BY <1>2, <1>4, <1>5 DEF At
<1>9. WorkersAreBusy'
  BY <1>2, <1>6, <1>8 DEF Agreement, WorkersAreBusy
<1>10. BusyHaveAReason'
  BY <1>6, <1>7, <1>8 DEF Agreement, BusyHaveAReason
<1>11. ProcessingHasWorker' /\ RefusedStayProcessing' /\ HandsAgree'
  BY <1>7, <1>8 DEF Agreement, ProcessingHasWorker, RefusedStayProcessing, HandsAgree
<1>12. QED BY <1>9, <1>10, <1>11 DEF Agreement

LEMMA GatewayAgrees ==
  ASSUME IInv, Agreement, mishaps = 0, NEW t \in TaskIds,
         SendTask(t) \/ PollResult(t) \/ GiveUp(t)
  PROVE  Agreement'
<1>1. loop' = loop /\ registry' = registry /\ refused' = refused
  BY DEF SendTask, PollResult, GiveUp, Submit, scheduler
<1>2. tasks \in [TaskIds -> TaskRow] /\ loop \in [Workers -> LoopRow] /\ refused \subseteq TaskIds
  BY DEF IInv, MvpTypeOK
<1>3. CASE tasks' = tasks
  BY <1>1, <1>3 DEF Agreement, At, WorkersAreBusy, BusyHaveAReason, ProcessingHasWorker,
                    RefusedStayProcessing, HandsAgree
<1>4. CASE SendTask(t)
  <2>1. /\ tasks'[t].status = "pending"
        /\ \A u \in TaskIds : u # t => tasks'[u] = tasks[u]
    BY <1>2, <1>4 DEF SendTask, Submit, TaskRow
  <2>2. t \notin refused /\ \A v \in Workers : loop[v].job # t
    BY <1>4 DEF SendTask, IInv, NewAreUnknown, Agreement, RefusedStayProcessing
  <2>3. \A u \in refused : tasks'[u] = tasks[u]
    BY <1>2, <2>1, <2>2
  <2>4. WorkersAreBusy' /\ BusyHaveAReason'
    BY <1>1, <2>3 DEF Agreement, At, WorkersAreBusy, BusyHaveAReason
  <2>5. ProcessingHasWorker' /\ RefusedStayProcessing'
    BY <1>1, <2>1, <2>3 DEF Agreement, ProcessingHasWorker, RefusedStayProcessing
  <2>6. ASSUME NEW v \in Workers, loop[v].job # "none"
        PROVE  tasks'[loop[v].job].status = "processing" /\ loop[v].job \notin refused
    <3>1. loop[v].job \in TaskIds /\ loop[v].job # t
      BY <1>2, <2>2, <2>6 DEF LoopRow
    <3>2. QED BY <2>1, <2>6, <3>1 DEF Agreement, HandsAgree
  <2>7. HandsAgree'
    BY <1>1, <2>6 DEF HandsAgree
  <2>8. QED BY <2>4, <2>5, <2>7 DEF Agreement
<1>5. QED BY <1>3, <1>4 DEF PollResult, GiveUp, scheduler

LEMMA AgreementKept ==
  ASSUME IInv, Agreement, [Next]_mvpVars
  PROVE  Agreement'
<1> SUFFICES ASSUME mishaps' = 0 PROVE Agreement'
  BY DEF Agreement
<1>1. CASE UNCHANGED mvpVars
  BY <1>1 DEF mvpVars, Agreement, At, WorkersAreBusy, BusyHaveAReason, ProcessingHasWorker,
              RefusedStayProcessing, HandsAgree
<1>2. ASSUME Next, ~Mishap PROVE mishaps = 0
  BY <1>2 DEF Next, Process, Enrol, Poll, Report, Restart, EnrolInVain, PollInVain, ReportInVain, Die,
              SchedulerRestart, SendTask, SendTaskInVain, PollResult, GiveUp
<1>3. ~Mishap
  BY MishapsShow
<1>4. CASE Next
  <2>1. mishaps = 0
    BY <1>2, <1>3, <1>4
  <2>2. ASSUME NEW w \in Workers, Process(w) PROVE Agreement'
    BY <2>1, <2>2, IdleAgrees, PollAgrees, ReportAgrees DEF Process
  <2>3. ASSUME NEW t \in TaskIds, SendTask(t) \/ PollResult(t) \/ GiveUp(t) PROVE Agreement'
    BY <2>1, <2>3, GatewayAgrees
  <2>4. QED BY <1>3, <1>4, <2>2, <2>3
      DEF Next, EnrolInVain, PollInVain, ReportInVain, Die, SchedulerRestart, SendTaskInVain
<1>5. QED BY <1>1, <1>4

LEMMA AgreementAtFirst == ASSUME Init PROVE Agreement
<1>1. \A w \in Workers : registry[w] = "absent" /\ loop[w].step = "register" /\ loop[w].job = "none"
  BY DEF Init
<1>2. refused = {} /\ \A t \in TaskIds : tasks[t].status = "absent"
  BY DEF Init
<1>3. QED BY <1>1, <1>2 DEF Agreement, At, WorkersAreBusy, BusyHaveAReason, ProcessingHasWorker,
                            RefusedStayProcessing, HandsAgree

(***************************************************************************)
(* As long as no call is lost and no process dies, a worker with a task is *)
(* "busy", a worker that is "busy" without one has had a report refused,   *)
(* and a task "processing" is with its worker or its report was refused:   *)
(* the 422 that a failed model's null result gets (mvp/worker/worker.py,   *)
(* submit_result) is the only way to leave task and worker stuck.          *)
(***************************************************************************)
THEOREM SchedulerAndWorkersAgree == Spec => []BusyAgrees
<1>1. Init => Agreement
  BY AgreementAtFirst
<1>2. IInv /\ Agreement /\ [Next]_mvpVars => Agreement'
  BY AgreementKept
<1>3. Agreement => BusyAgrees
  BY DEF Agreement, BusyAgrees, WorkersAreBusy, BusyHaveAReason, ProcessingHasWorker, RefusedStayProcessing
<1>4. QED BY <1>1, <1>2, <1>3, Invariant, PTL DEF Spec
=============================================================================
