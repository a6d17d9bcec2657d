----------------------------- MODULE WorkerLoop -----------------------------
(***************************************************************************)
(* Workers polling the task pipeline of the main server: register, then    *)
(* for ever heartbeat, ask for a task, execute it, send the result.  A     *)
(* process of worker.py has one such loop; one of worker_pool.py registers *)
(* once and runs several in threads, all under the same worker id.  No     *)
(* call is ever repeated: one that times out is printed and forgotten, so  *)
(* the server may have claimed a task for a worker that does not know of   *)
(* it, and a process that dies takes its claims with it.  Leases and       *)
(* POST /tasks/expire-leases are what brings such tasks back.              *)
(***************************************************************************)
EXTENDS TaskPipeline

CONSTANTS
  Loops,          \* polling loops
  Ident,          \* the worker id a loop works under
  Mortal,         \* workers whose process may die
  Suspendable,    \* workers an administrator may ban
  MaxMishaps      \* bound: lost calls and overrun leases in one behaviour

ASSUME LoopAssumption ==
  /\ Ident \in [Loops -> Workers]
  /\ Mortal \subseteq Workers /\ Suspendable \subseteq Workers /\ MaxMishaps \in Nat

VARIABLES
  client,         \* where each loop is, and its job
  mishaps         \* lost calls and overrun leases so far

loopVars == <<vars, client, mishaps>>

Steps == {"register", "heartbeat", "asking", "working", "stopped"}

Modes == {"work", "validate", "none"}

ClientRow == [step : Steps, job : TaskIds \cup {0}, mode : Modes]

At(l, step) == client[l].step = step

LoopsOf(w) == {l \in Loops : Ident[l] = w}

Doing(step) == [step |-> step, job |-> 0, mode |-> "none"]

Goto(l, step) == client' = [client EXCEPT ![l] = Doing(step)]

GotoAll(w, step) ==
  client' = [l \in Loops |-> IF l \in LoopsOf(w) THEN Doing(step) ELSE client[l]]

Hold(l, t, mode) ==
  client' = [client EXCEPT ![l] = [step |-> "working", job |-> t, mode |-> mode]]

Mishap == mishaps < MaxMishaps /\ mishaps' = mishaps + 1

-----------------------------------------------------------------------------
(* The loops *)

\* main registers the process and starts its loops.
Enrol(l) ==
  /\ At(l, "register")
  /\ RegisterWorker(Ident[l])
  /\ GotoAll(Ident[l], "heartbeat")
  /\ UNCHANGED mishaps

\* Errors of the heartbeat, the 403 of a banned worker included, are ignored.
Beat(l) ==
  /\ At(l, "heartbeat")
  /\ \/ Heartbeat(Ident[l])
     \/ ~(Admitted(Ident[l]) /\ worker[Ident[l]].status = "idle") /\ UNCHANGED vars
  /\ Goto(l, "asking")
  /\ UNCHANGED mishaps

\* Mutant: the worker takes every task for one to execute.
AskForTaskToWork(l) ==
  /\ At(l, "asking")
  /\ \/ \E t \in TaskIds : ClaimValidation(Ident[l], t) /\ Hold(l, t, "work")
     \/ \E t \in TaskIds : ClaimExecution(Ident[l], t) /\ Hold(l, t, "work")
     \/ FindNothing(Ident[l]) /\ Goto(l, "heartbeat")
     \/ ~Admitted(Ident[l]) /\ UNCHANGED vars /\ Goto(l, "heartbeat")
  /\ UNCHANGED mishaps

AskForTask(l) ==
  /\ At(l, "asking")
  /\ \/ \E t \in TaskIds : ClaimValidation(Ident[l], t) /\ Hold(l, t, "validate")
     \/ \E t \in TaskIds : ClaimExecution(Ident[l], t) /\ Hold(l, t, "work")
     \/ FindNothing(Ident[l]) /\ Goto(l, "heartbeat")
     \/ ~Admitted(Ident[l]) /\ UNCHANGED vars /\ Goto(l, "heartbeat")
  /\ UNCHANGED mishaps

\* The call times out before or after the server handled it.
AskInVain(l) ==
  /\ At(l, "asking")
  /\ GetNextTask(Ident[l]) \/ UNCHANGED vars
  /\ Goto(l, "heartbeat")
  /\ Mishap

\* The server's 400 and 403 answers.
Refused(w, t, mode) ==
  \/ mode = "work" /\ ~(task[t].status = "assigned" /\ task[t].worker = w)
  \/ mode = "validate" /\ ~(task[t].status = "validating" /\ task[t].validator = w)

SendResult(l) ==
  LET t == client[l].job
      mode == client[l].mode
  IN
  /\ At(l, "working")
  /\ \/ mode = "work" /\ \E answer \in Answers : SubmitResult(Ident[l], t, answer)
     \/ mode = "work" /\ SubmitTooLate(Ident[l], t)
     \/ mode = "validate" /\ \E answer \in Answers : ValidateTask(Ident[l], t, answer)
     \/ Refused(Ident[l], t, mode) /\ UNCHANGED vars
  /\ Goto(l, "heartbeat")
  /\ UNCHANGED mishaps

\* The call never reaches the server, and the result is dropped.
LoseResult(l) ==
  /\ At(l, "working")
  /\ Goto(l, "heartbeat")
  /\ Mishap
  /\ UNCHANGED vars

\* A restarted process registers as a new worker, so this one is gone, with all its threads.
Die(w) ==
  /\ w \in Mortal
  /\ \E l \in LoopsOf(w) : ~At(l, "stopped")
  /\ GotoAll(w, "stopped")
  /\ UNCHANGED <<vars, mishaps>>

-----------------------------------------------------------------------------
(* Time, administration and clients *)

\* Loop l is executing task t, and the server has that on record for its worker.
WorksOn(l, t) ==
  /\ At(l, "working") /\ client[l].job = t
  /\ ~Refused(Ident[l], t, client[l].mode)

OrphanLapses(t) ==
  /\ ~\E l \in Loops : WorksOn(l, t)
  /\ LeaseLapses(t)
  /\ UNCHANGED <<client, mishaps>>

\* An execution that outlasts the 300 seconds of its lease.
Overrun(t) ==
  /\ \E l \in Loops : WorksOn(l, t)
  /\ LeaseLapses(t)
  /\ Mishap
  /\ UNCHANGED client

Submission == ClientRequest /\ UNCHANGED <<client, mishaps>>

Sweep == ExpireStaleLeases /\ UNCHANGED <<client, mishaps>>

Ban(w) ==
  /\ w \in Suspendable
  /\ BanWorker(w) \/ AutoBanColluders({w})
  /\ UNCHANGED <<client, mishaps>>

-----------------------------------------------------------------------------

LoopInit ==
  /\ Init
  /\ client = [l \in Loops |-> Doing("register")]
  /\ mishaps = 0

Process(l) == Enrol(l) \/ Beat(l) \/ AskForTask(l) \/ SendResult(l)

LoopNext ==
  \/ \E l \in Loops : Process(l) \/ AskInVain(l) \/ LoseResult(l)
  \/ \E w \in Workers : Die(w) \/ Ban(w)
  \/ \E t \in TaskIds : OrphanLapses(t) \/ Overrun(t)
  \/ Submission
  \/ Sweep

LoopSpec == LoopInit /\ [][LoopNext]_loopVars

\* "while True": a loop that lives takes its next step.
ProcessFairness == \A l \in Loops : WF_loopVars(Process(l) /\ ~At(l, "stopped"))

LoopSpecWithFairness == LoopSpec /\ ProcessFairness

-----------------------------------------------------------------------------
(* Properties *)

(***************************************************************************)
(* Every loop is at one of its steps, and remembers a task and what to do  *)
(* with it exactly while it works on it.                                   *)
(***************************************************************************)
LoopTypeOK ==
  /\ client \in [Loops -> ClientRow]
  /\ \A l \in Loops :
       /\ At(l, "working") <=> client[l].job # 0
       /\ At(l, "working") <=> client[l].mode # "none"
  /\ mishaps \in 0..MaxMishaps

NothingFailed ==
  mishaps = 0 /\ \A l \in Loops : ~At(l, "stopped") /\ ~worker[Ident[l]].isBanned

(***************************************************************************)
(* A task the server believes to be executed or validated is in the hands  *)
(* of a loop of the worker on record, unless a call was lost or overrun, a *)
(* process died or a worker was banned: claiming and polling alone orphan  *)
(* nothing, and loops under one id do not mistake each other's tasks.      *)
(***************************************************************************)
OrphansNeedFailure ==
  NothingFailed =>
    \A t \in TaskIds :
      task[t].status \in {"assigned", "validating"} => \E l \in Loops : WorksOn(l, t)

\* The loops are well formed and orphan nothing by themselves.
LoopInv == LoopTypeOK /\ OrphansNeedFailure

EveryTaskDecided ==
  \A t \in TaskIds : task[t].status = "pending" ~> task[t].status \in Finished

\* Time passes, and somebody keeps calling POST /tasks/expire-leases.
SweepFairness ==
  /\ \A t \in TaskIds : WF_loopVars(OrphanLapses(t))
  /\ WF_loopVars(Sweep)

(***************************************************************************)
(* Every task created is eventually done or rejected, although calls are   *)
(* lost, leases overrun, processes die and workers are banned, as long as  *)
(* two workers survive and expired leases are swept.  The sweep is a       *)
(* premise because nothing in the repository performs it.                  *)
(***************************************************************************)
DecidedIfSwept == SweepFairness => EveryTaskDecided

(***************************************************************************)
(* Without any sweep, every task is decided if no call is ever lost or     *)
(* overrun, nobody dies and nobody is banned.                              *)
(***************************************************************************)
DecidedIfNothingFails == []NothingFailed => EveryTaskDecided
=============================================================================
