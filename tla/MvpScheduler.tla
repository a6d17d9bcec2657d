---------------------------- MODULE MvpScheduler ----------------------------
(***************************************************************************)
(* The MVP stack: an API gateway that submits a task and polls for its     *)
(* result (mvp/api/server.py), a scheduler that keeps workers, tasks and   *)
(* one queue per type in memory (mvp/scheduler/scheduler.py), and the      *)
(* workers that poll it (mvp/worker/worker.py).                            *)
(*                                                                         *)
(* Every scheduler endpoint holds one lock from beginning to end, so it is *)
(* one action.  Timeouts are choices: a gateway may give up at any time.   *)
(***************************************************************************)
EXTENDS Integers, Sequences, FiniteSets

CONSTANTS
  Workers,         \* worker ids: a restarted process keeps its own if WORKER_ID or
                   \* --id is set, and is another member of Workers if not
  TaskIds,         \* bound: tasks submitted
  Types,           \* values of TaskSubmission.type
  Capabilities,    \* the types of each worker, in the order it asks for them
  MaxMishaps       \* bound: lost calls, deaths and restarts

QueueNames == {"text", "image", "audio"}

ASSUME SchedulerAssumption ==
  /\ IsFiniteSet(TaskIds) /\ "none" \notin TaskIds
  /\ Capabilities \in [Workers -> Seq(QueueNames)]
  /\ MaxMishaps \in Nat

VARIABLES
  registry,     \* the scheduler's workers: status
  tasks,        \* the scheduler's tasks
  queues,       \* the scheduler's task_queues
  loop,         \* where each worker process is, and the task it has
  gateway,      \* each request of the API gateway
  refused,      \* history: tasks whose report the scheduler refused
  mishaps

scheduler == <<registry, tasks, queues>>
mvpVars == <<registry, tasks, queues, loop, gateway, refused, mishaps>>

TaskRow == [status : {"absent", "pending", "processing", "completed", "failed"},
            type : Types, worker : Workers \cup {"nobody"}]

LoopRow == [step : {"register", "polling", "working", "exited"},
            job : TaskIds \cup {"none"}]

Settled == {"completed", "failed"}

Mishap == mishaps < MaxMishaps /\ mishaps' = mishaps + 1

At(w, step) == loop[w].step = step

Goto(w, step, job) == loop' = [loop EXCEPT ![w] = [step |-> step, job |-> job]]

-----------------------------------------------------------------------------
(* The endpoints of the scheduler *)

QueueOf(type) == IF type \in QueueNames THEN type ELSE "text"

Submit(t) ==
  /\ tasks' = [tasks EXCEPT ![t].status = "pending", ![t].worker = "nobody"]
  /\ queues' = [queues EXCEPT ![QueueOf(tasks[t].type)] = Append(@, t)]
  /\ UNCHANGED registry

RegisterWorker(w) ==
  /\ registry' = [registry EXCEPT ![w] = "idle"]
  /\ UNCHANGED <<tasks, queues>>

\* Mutant: only the worker's first type is looked at.
OffersFirst(w, type) ==
  Capabilities[w] # << >> /\ Capabilities[w][1] = type /\ queues[type] # << >>

\* The first of the worker's types with a task waiting.
Offers(w, type) ==
  \E i \in DOMAIN Capabilities[w] :
    /\ Capabilities[w][i] = type /\ queues[type] # << >>
    /\ \A k \in 1..i - 1 : queues[Capabilities[w][k]] = << >>

\* Mutant: the task stays in its queue.
HandOutKeepingQueue(w, t) ==
  \E type \in QueueNames :
    /\ registry[w] # "absent" /\ Offers(w, type) /\ t = Head(queues[type])
    /\ tasks' = [tasks EXCEPT ![t].status = "processing", ![t].worker = w]
    /\ registry' = [registry EXCEPT ![w] = "busy"]
    /\ UNCHANGED queues

HandOut(w, t) ==
  \E type \in QueueNames :
    /\ registry[w] # "absent" /\ Offers(w, type) /\ t = Head(queues[type])
    /\ queues' = [queues EXCEPT ![type] = Tail(@)]
    /\ tasks' = [tasks EXCEPT ![t].status = "processing", ![t].worker = w]
    /\ registry' = [registry EXCEPT ![w] = "busy"]

\* Mutant: the worker is not set free.
TakeResultKeepingBusy(w, t, status) ==
  /\ tasks[t].status # "absent"
  /\ tasks' = [tasks EXCEPT ![t].status = status]
  /\ UNCHANGED <<queues, registry>>

\* Nothing is checked but that the task exists.
TakeResult(w, t, status) ==
  /\ tasks[t].status # "absent"
  /\ tasks' = [tasks EXCEPT ![t].status = status]
  /\ registry' = IF registry[w] = "absent" THEN registry ELSE [registry EXCEPT ![w] = "idle"]
  /\ UNCHANGED queues

-----------------------------------------------------------------------------
(* The worker process *)

Enrol(w) ==
  /\ At(w, "register")
  /\ RegisterWorker(w)
  /\ Goto(w, "polling", "none")
  /\ UNCHANGED <<gateway, refused, mishaps>>

\* Two failed attempts end the process; compose starts it again.
EnrolInVain(w) ==
  /\ At(w, "register")
  /\ Goto(w, "exited", "none")
  /\ Mishap
  /\ UNCHANGED <<scheduler, gateway, refused>>

Poll(w) ==
  /\ At(w, "polling")
  /\ \E t \in TaskIds : HandOut(w, t) /\ Goto(w, "working", t)
  /\ UNCHANGED <<gateway, refused, mishaps>>

\* The answer is lost: the task is handed out, and nobody has it.
PollInVain(w) ==
  /\ At(w, "polling")
  /\ \E t \in TaskIds : HandOut(w, t)
  /\ Mishap
  /\ UNCHANGED <<loop, gateway, refused>>

\* A model answers; of an unknown type the failure is reported.
Outcome(type) == IF type \in QueueNames THEN "completed" ELSE "failed"

(***************************************************************************)
(* A model that raised leaves None for a result, but TaskResult.result is  *)
(* a str: the scheduler answers 422 and never sees that the task failed.   *)
(***************************************************************************)
Refuse(t) ==
  /\ tasks[t].type \in QueueNames
  /\ refused' = refused \cup {t}
  /\ UNCHANGED scheduler

\* Whatever the answer, the worker goes on to its next task.
Report(w) ==
  LET t == loop[w].job IN
  /\ At(w, "working")
  /\ \/ TakeResult(w, t, Outcome(tasks[t].type)) /\ UNCHANGED refused
     \/ Refuse(t)
     \/ tasks[t].status = "absent" /\ UNCHANGED <<scheduler, refused>>
  /\ Goto(w, "polling", "none")
  /\ UNCHANGED <<gateway, mishaps>>

\* submit_result prints the error, and the loop goes on without the result.
ReportInVain(w) ==
  /\ At(w, "working")
  /\ Goto(w, "polling", "none")
  /\ Mishap
  /\ UNCHANGED <<scheduler, gateway, refused>>

Die(w) ==
  /\ loop[w].step \in {"polling", "working"}
  /\ Goto(w, "exited", "none")
  /\ Mishap
  /\ UNCHANGED <<scheduler, gateway, refused>>

Restart(w) ==
  /\ At(w, "exited")
  /\ Goto(w, "register", "none")
  /\ UNCHANGED <<scheduler, gateway, refused, mishaps>>

\* All the scheduler knows is in memory.
SchedulerRestart ==
  /\ registry' = [w \in Workers |-> "absent"]
  /\ tasks' = [t \in TaskIds |-> [tasks[t] EXCEPT !.status = "absent", !.worker = "nobody"]]
  /\ queues' = [q \in QueueNames |-> << >>]
  /\ Mishap
  /\ UNCHANGED <<loop, gateway, refused>>

-----------------------------------------------------------------------------
(* The API gateway: send_task_and_wait *)

SendTask(t) ==
  /\ gateway[t] = "new"
  /\ Submit(t)
  /\ gateway' = [gateway EXCEPT ![t] = "waiting"]
  /\ UNCHANGED <<loop, refused, mishaps>>

\* 503: the call failed, before or after the scheduler queued the task.
SendTaskInVain(t) ==
  /\ gateway[t] = "new"
  /\ Submit(t) \/ UNCHANGED scheduler
  /\ gateway' = [gateway EXCEPT ![t] = "unavailable"]
  /\ Mishap
  /\ UNCHANGED <<loop, refused>>

PollResult(t) ==
  /\ gateway[t] = "waiting" /\ tasks[t].status \in Settled
  /\ gateway' = [gateway EXCEPT ![t] = IF tasks[t].status = "completed" THEN "answered" ELSE "failed"]
  /\ UNCHANGED <<scheduler, loop, refused, mishaps>>

GiveUp(t) ==
  /\ gateway[t] = "waiting"
  /\ gateway' = [gateway EXCEPT ![t] = "timeout"]
  /\ UNCHANGED <<scheduler, loop, refused, mishaps>>

-----------------------------------------------------------------------------

Init ==
  /\ registry = [w \in Workers |-> "absent"]
  /\ tasks \in [TaskIds -> [status : {"absent"}, type : Types, worker : {"nobody"}]]
  /\ queues = [q \in QueueNames |-> << >>]
  /\ loop = [w \in Workers |-> [step |-> "register", job |-> "none"]]
  /\ gateway = [t \in TaskIds |-> "new"]
  /\ refused = {}
  /\ mishaps = 0

Process(w) == Enrol(w) \/ Poll(w) \/ Report(w) \/ Restart(w)

Next ==
  \/ \E w \in Workers :
       Process(w) \/ EnrolInVain(w) \/ PollInVain(w) \/ ReportInVain(w) \/ Die(w)
  \/ SchedulerRestart
  \/ \E t \in TaskIds : SendTask(t) \/ SendTaskInVain(t) \/ PollResult(t) \/ GiveUp(t)

Spec == Init /\ [][Next]_mvpVars

\* "while self.running" and compose's restart; the gateway polls until its timeout.
FairSpec ==
  /\ Spec
  /\ \A w \in Workers : WF_mvpVars(Process(w))
  /\ \A t \in TaskIds : WF_mvpVars(PollResult(t))

-----------------------------------------------------------------------------
(* Properties *)

MvpTypeOK ==
  /\ registry \in [Workers -> {"absent", "idle", "busy"}]
  /\ tasks \in [TaskIds -> TaskRow]
  /\ queues \in [QueueNames -> Seq(TaskIds)]
  /\ loop \in [Workers -> LoopRow]
  /\ \A w \in Workers : At(w, "working") <=> loop[w].job # "none"
  /\ gateway \in [TaskIds -> {"new", "waiting", "answered", "failed", "timeout", "unavailable"}]
  /\ refused \subseteq TaskIds
  /\ mishaps \in 0..MaxMishaps

\* Where a task is queued: which queue, and the how many-th.
Places(t) == {p \in QueueNames \X (1..Cardinality(TaskIds)) :
                p[2] \in DOMAIN queues[p[1]] /\ queues[p[1]][p[2]] = t}

(***************************************************************************)
(* The queues hold the pending tasks, each of them once, and no others.    *)
(***************************************************************************)
QueuedOnce ==
  \A t \in TaskIds :
    Cardinality(Places(t)) = IF tasks[t].status = "pending" THEN 1 ELSE 0

(***************************************************************************)
(* No task is ever in the hands of two workers, although results carry no  *)
(* proof of assignment and dead workers come back under the same id.       *)
(***************************************************************************)
OneWorkerPerTask ==
  \A w, v \in Workers : At(w, "working") /\ loop[w].job = loop[v].job => w = v

\* Every task has one place: its queue while it is pending, then at most one worker.
MvpInv == MvpTypeOK /\ QueuedOnce /\ OneWorkerPerTask

(***************************************************************************)
(* As long as no call is lost and no process dies, scheduler and workers   *)
(* agree on who works on what, but for the reports it refused: their tasks *)
(* are processing for ever, and a worker that went on from one of them may *)
(* be busy with nothing.                                                   *)
(***************************************************************************)
BusyAgrees ==
  mishaps = 0 =>
    /\ \A w \in Workers : At(w, "working") => registry[w] = "busy"
    /\ \A w \in Workers : registry[w] = "busy" =>
         At(w, "working") \/ \E t \in refused : tasks[t].worker = w
    /\ \A t \in TaskIds : tasks[t].status = "processing" =>
         tasks[t].worker \in Workers /\ (loop[tasks[t].worker].job = t \/ t \in refused)
    /\ \A t \in refused : tasks[t].status = "processing"

\* A settled task changes no more, unless the scheduler forgets it.
SettledStays ==
  [][\A t \in TaskIds : tasks[t].status \in Settled => tasks'[t].status \in {tasks[t].status, "absent"}]_mvpVars

Served(type) == \E w \in Workers : \E i \in DOMAIN Capabilities[w] : Capabilities[w][i] = QueueOf(type)

(***************************************************************************)
(* Without mishaps every task of a served type is settled or its report    *)
(* refused: strict order of the types a worker asks for starves none of    *)
(* finitely many tasks.                                                    *)
(***************************************************************************)
SettledIfNothingFails ==
  [](mishaps = 0) =>
    \A t \in TaskIds :
      tasks[t].status = "pending" /\ Served(tasks[t].type)
        ~> tasks[t].status \in Settled \/ t \in refused
=============================================================================
