# AI Network: a TLA+ verification project

Models, checks and proofs for the *AI Network* repository: a FastAPI server that hands tasks to
volunteer workers and has every result re-executed by a second worker, a Kafka pipeline that cuts
jobs into chunks, and a small stand-alone "MVP" stack.  Every definition is translated from the
code; `PROJECT.json` names the lines each definition stands for, the bug a mutant of it plants for
every property, and the hazards the properties were written against.

```
tlc -workers 2 -config MCTaskPipeline.cfg MCTaskPipeline      # a run (table below)
for m in TaskPipeline Overlap JobPipeline MvpScheduler Wallet Trust Serving ; do tlapm ${m}Proofs.tla ; done   # the proofs
tlapm FiniteSums.tla                                          # and the sums they use
```

## 1. Inventory

### Components, state, operations

| Component | Source | State | Operations | Model |
|---|---|---|---|---|
| Two-tier task pipeline | `server/routers/tasks.py`, `workers.py`, `admin_panel.py`, `collusion.py`, `server/models.py` | rows of `tasks`, `workers`, `transactions` | create, next, submit, validate, expire-leases; register, heartbeat, status; ban, unban, reset, auto-ban, cleanup | `TaskPipeline`, `TaskSafety`, `TwoTierSettlement`, `TaskRefinement` |
| Database sessions | `server/db.py` and the handlers above | what an open request has read | reads, flush, commit | `TaskSessions`, `SessionSafety` |
| Worker process, worker pool | `worker.py`, `worker_pool.py` | loop position, job in hand | register, heartbeat, poll, submit/validate | `WorkerLoop` |
| Job API | `services/api/main.py` | `ai_jobs`, `ai_job_events`, websocket position | create (list, CSV), cancel, progress websocket | `JobPipeline` |
| Router, CPU and GPU worker | `services/router`, `cpu_worker`, `gpu_worker` | Kafka offsets; cached models, results of a chunk | route; load, execute item by item or batch by batch, skip, dead letter | `JobPipeline`, `ModelExecution` |
| Reducer | `services/reducer` | `ai_results`, counter and status of `ai_jobs` | store, count, finish, summarise, announce | `JobPipeline` |
| Dead letter monitor | `services/dlq_monitor` | in-memory retry list | classify, schedule, resend | `JobPipeline` (alerts left out) |
| MVP stack | `mvp/` | workers, tasks, queues in memory | register, poll, result; submit, poll result | `MvpScheduler` |
| OpenAI-compatible API, simple worker | `server/routers/openai_compat.py`, `services/simple_worker` | `tasks` rows, waiting requests, a list of rows | insert and wait, or answer at once; fetch, overwrite status | `ApiTasks` |
| Wallet | `server/routers/wallet.py` (and the bans of `admin_panel.py`, `collusion.py`) | `withdrawal_requests`, balances, ledger | withdraw, approve, reject, paid, cancel; ban and refund | `Wallet` |
| Reputation decay | `server/reputation_decay.py` | reputation, level, days of inactivity | run, dry run; against verdicts and resets | `ReputationDecay` |
| Collusion scoring | `server/collusion.py` | none of its own | scan, automatic ban, ring search | `Collusion` (its effect on tasks: `TaskPipeline`) |
| WebSocket manager | `server/ws.py` | connections by client id, subscriptions, rooms, a lock | connect, subscribe, disconnect, broadcast, send to a worker | `Connections` |
| Auth, metrics, monitoring, schemas, migrations | `server/auth.py`, `server/metrics.py`, ... | none the properties need | checks, reads, formatting | not modelled |
| Legacy services, frontend, landing | `reducer.py`, `services/gateway`, `services/task`, ... | - | not started by `docker-compose.yml` | not modelled |

### Interactions

The server's handlers meet only in the database: each request runs in a thread with a session of
its own, reads rows without locking and writes them back by id.  Workers drive everything by
polling; the server never calls a worker.  In the job pipeline the processes meet in Kafka topics
(`ai.tasks.v2` -> `ai.tasks.cpu` / `ai.tasks.gpu` -> `ai.results.v2`, dead letters in `ai.dlq`
and `ai.dlq.gpu` back to the tasks) and in the tables the API and the reducer share.  In the MVP
stack all state is in the scheduler's memory under one lock.

### What is hard

*Concurrency*: two requests on one row, two reducers on one job, cancel against finish, a withdrawal
against a reward or a ban, a broadcast that waits for one client while others leave and come back
under their id.
*Failure*: lost calls the client never repeats, a worker that dies with a claim, a process that
dies between two autocommitted statements or between sending and committing, a scheduler that
restarts empty, a record Kafka refuses unseen, a report refused with 422, a model loaded by half, one
item of a batch that fails.  *Time*: leases that lapse while the answer is on its way, commits
refused after a long chunk, a send without a timeout under a lock.  *Ordering*: twelve partitions
without keys, groups that start at the end of a topic,
strict order of capabilities.  Each point is a hazard in `PROJECT.json` with its line and the
properties that would catch it.  Where the code does go wrong at a hazard, the property names the
exact condition and leaves only that out; the hazard's note then says what is left out.

### What correctness means

* Task pipeline: status and columns agree; nobody validates himself; a task pays exactly once,
  what its verdict owes; verdicts are final; leases protect executors; bans take effect; balances
  and counters are sums over tasks; every task is decided.
* Overlapping requests: what of the above is left.
* Job pipeline: done means complete; announced at most once and only if done; the counter follows
  the results; a chunk disappears silently in three named ways only; every other chunk is settled;
  finished jobs stay finished.
* Wallet: no money is made or lost, no balance is negative, no withdrawal is both refunded and paid.
* Decay: level and reputation agree; one run charges at most the daily rate after the grace period.
* API rows: a client gets only answers a simple worker computed, unless two of them took up its row;
  while nothing fails, a row in processing has a worker that will write its end.
* Connections: table, rooms and subscriptions agree; a client that is there is registered and gets
  the broadcasts of its rooms, unless it came back under an id that was still in use; nothing but a
  send that never ends stops anybody.
* Collusion: rings are complete and maximal groups; reports have grounds.
* Chunk execution: one answer per item in order; no model without its tokenizer.
* MVP stack: a pending task is queued once and handed out once; settled tasks stay; scheduler and
  workers agree but for refused reports; every served task is settled or its report refused.

## 2. The modules

### TaskPipeline: one action per request handler

`task`, `worker`, `account`, `transactions` are the table rows (the `workers` table is split into
the columns claims look at and the columns verdicts write).  `RegisterWorker`, `Heartbeat`,
`UpdateWorkerStatus`, `CreateTask`, `GetNextTask` (= `ClaimValidation`, `ClaimExecution` or
`FindNothing`, in the order of the code), `SubmitResult`, `SubmitTooLate`, `ValidateTask`,
`ExpireStaleLeases`, `BanWorker`, `UnbanWorker`, `AutoBanColluders`, `ResetReputation` and
`CleanupStaleWorkers` are the endpoints; `LeaseLapses` is time.  Results are members of `Answers`,
a lease is `none`, `live` or `lapsed`, money and reputation are thousandths and so exact.

`TaskSafety` holds the properties.  `TwoTierSettlement` is the abstract promise: a task is open
until one step settles it between two different workers with the payments of its verdict.
`TaskRefinement` maps the rows to it.

### TaskSessions: the same handlers, overlapping

A request is a slot: it reads, then commits.  The commit writes by id the columns that differ from
what was read (`Written`, SQLAlchemy's unit of work) and uses the same pure operators as
`TaskPipeline` (`AsValidation`, `AsJudged`, `AfterExpiry`, ...), so the two modules cannot drift
apart.  `get_next_task` and `ban_worker` change the worker row before they query the tasks; the
session flushes it, and its row lock is held until the commit (`Locking`, `Unlocked`).

### WorkerLoop: TaskPipeline driven by real clients

The loops of `worker.py` and of the threads of `worker_pool.py` composed with the handlers of
`TaskPipeline`: `Ident` says under which worker id a loop works, so a pool is several loops of one
id, registered once and dying together; `Suspendable` are the workers an administrator may ban.
Calls may be lost before or after the server acts, leases
may be overrun, a process may die and register anew, workers may be banned.  Liveness is stated
here.

### JobPipeline: Kafka and autocommit

One action is one effect on a topic or one autocommitted statement, so a process may die
between any two.  A topic is the set of its uncommitted records; a record is with one consumer of
its group at a time.  The API's handler is `CreateJob`, `RecordCreated`, `SendChunk`, `Answer`
(`RequestFails` anywhere in between), the reducer `Store`, `Count`, `Look`, `Finish`, `Summarise`,
`Announce`, `Commit`.

`Send` is what every sender does: `producer.send` buffers the record and `flush` returns also when
Kafka refused it, because the error is in a future nobody looks at.  So the record is in its topic,
or it is gone, and the sender cannot tell: it commits its own offset in both cases.  Retries inside
the producer, which may append a record twice, are not modelled; that a chunk is executed and its
result sent twice comes from deaths and refused commits (`Die`, `CommitRefused`).  `CreateJob` may
make a job of no chunks: `chunk_size` is not checked, and a negative one cuts any list into none.

Three history variables tell what became of chunks: `retried` counts resends, `givenUp` are those a
process dropped and said so, `lost` those that vanished unnoticed, by a refused record, by a group
that began at the end of its topic, or with the retry list of a monitor that died.  `JobSafety`
holds the properties.

### MvpScheduler

The scheduler's endpoints are atomic because each holds the lock from end to end; workers and
gateway are separate actions around them, with every answer that may get lost.  A worker whose model
raised reports `None`, which `TaskResult` refuses (`Refuse`): the scheduler answers 422, the worker
goes on, the task stays in processing and the registry has the worker as busy until its next report.
The history variable `refused` keeps those tasks.

### Wallet

A request is a slot (`desk`) as in `TaskSessions`: `ReadWithdraw`, `CheckFunds`, `CommitHold` for
`POST /wallet/withdraw`; `ReadPayout`, `CommitDecision` (approve, paid), `ReadOwner`, `CommitRefund`
(reject, cancel); `ReadBanned`, `ListPending`, `CommitBanned` for a ban; `AutoBan`; `ReadReward`,
`CommitReward` for the part of a verdict that pays.  A commit sets the balance to what was computed
from the reading, so updates may be lost; `clashed` remembers for which workers two requests met on
a row.  `NeverOverdrawn` holds even for them, the conservation of money and the finality of
decisions only for the others: that is how far the code's unlocked reads carry.  In particular,
overlapping cancellations refund twice, and what is refunded twice can be withdrawn; `NeverOverdrawn`
says that no balance is negative, not that a worker gets no more than it earned.

### ReputationDecay

The runs (`ReadRun`, `CommitRun`, `FinishDryRun`), verdicts and resets (`ReadRevision`,
`CommitRevision`), new tasks, bans and days that pass.  Level and reputation are columns of their
own, written only where they differ from what was read (`Merged`); but the database has a trigger
that sets the level whenever an UPDATE writes the reputation (`Stored`), and so a commit from a stale
row leaves them in agreement, too.  `mixed` remembers the workers with such a commit: the charge of
a run on them may be too high, and `OneRunChargesDailyRate` leaves them out.

### ApiTasks

`ChatCompletions`, `GenerateImages`, `TranscribeAudio`, `TranslateAudio`, `CreateEmbeddings` insert a
row; `Reply` and `TimeOut` end the wait.  A simple worker fetches a list (`Fetch`), and for each row
sets its status by id (`MarkProcessing`), whatever has become of it.  That commit expires the row, so
`process_task` reads it again (`Reload`), and `MarkEnded` then writes the columns that differ from
what was read (`Updated`), and no others: a result equal to the one read is not written.  The
handlers of `TaskPipeline` take the same rows in requests that read (`TierRead`) and commit
(`TierCommit`) separately; `TierRows` is what they make of a row, the ban's release of assigned and
submitted tasks included.  `starts` remembers how many simple workers took up a row.

### Connections

One action is what the event loop runs between two awaits.  An endpoint is `Accept` (any client id
with any worker id: the query relates them in no way) or `AcceptWorker`, `Connect`, `Join`,
`ClientSubscribes`, `ClientUnsubscribes`; it ends by `NoticeGone`, when the client left, or
`BadMessage`, when JSON that is no object raised in the handler of a client that is there, and then
`CloseSocket`.  A broadcast is `StartBroadcast`, for each of the ids it copied `BeginSend` (the
lookup) and `FinishSend` (the outcome of the await), `CleanNext` for each id that failed,
`EndBroadcast`; `send_to_worker` is `HoldLock`, `ReleaseLock`.  Between `BeginSend` and `FinishSend`
anything may happen to the client and its id.  An id is `shared` once it was connected while another
endpoint had it, or while a broadcast was waiting for it or about to disconnect it (`Condemned`):
disconnecting goes by id and may then remove the newer client.

### Collusion

The scores (`AnalyzeWorker` and its three kinds of evidence), `RunFullScan`, `AutoBanColluders`,
`DryRun`, and the ring search vertex by vertex (`StartClique`, `Consider`, `EndClique`) in any order,
as it goes over sets.

### ModelExecution

What the CPU and the GPU worker do with one chunk between taking and sending: `Receive`,
`UseCached` or `LoadTokenizer` and `LoadModel`, `RunBatch` (GPU) or `RunPipeline` (CPU), the
exceptions (`LoadFails`, `RunFails`, `PipelineFails`, `ImageFails`) and `PrimeCount`.

### MCServers and MCServices: one at a time

`MvpScheduler` and `Connections` are checked by the run `servers`, `Wallet`, `ReputationDecay`,
`ApiTasks`, `Collusion` and `ModelExecution` by the run `services`.  In each a variable `office`
chooses, at the start, which component moves.  No action of one reads or writes a variable of
another, so every behaviour of their product projects to the behaviours of this sum, and an invariant
of one component holds in the product if it holds here.  `ApiTasks` has two offices: `api`, two rows
without two-tier requests, and `twins`, one row with them.

## 3. The runs

| Run | Checks | Shows |
|---|---|---|
| `pipeline` | `TypeOK` `StagesConsistent` `IndependentValidation` `PaidExactlyOnce` `GoldenGate` `VerdictIsFinal` `ResultIsKept` `LeaseProtectsExecutor` `BannedGetNoTask` | with atomic handlers, every order of requests keeps stages, money, leases and bans right |
| `pipeline_two_tasks` | `BalanceIsLedger` `CountersMatchTasks` `ImplementsSettlement` | what several tasks share adds up; the pipeline implements the abstract settlement |
| `worker_loop` | `LoopInv` (`LoopTypeOK` `OrphansNeedFailure`) `DecidedIfSwept` `DecidedIfNothingFails` | with a pool of two threads and two single workers every task is decided if leases are swept, and without a sweep if nothing fails |
| `sessions` | `SessionInv` (`SessionTypeOK` `NoSelfVerdict`) `BalanceWithinLedger` `DoneIsPaid` | what survives overlapping requests |
| `sessions_one_verdict` | `OneVerdict` **violated** | two overlapping validations are both paid |
| `sessions_submitted` | `SubmittedCanBeValidated` **violated** | a release that overlaps a submission strands the task |
| `jobs` | `JobInv` (`JobTypeOK` `CountFollowsResults`) `DoneIsComplete` `AnnouncedOnce` `ChunkAccountedFor` `FinishedStays` | two reducers, redelivery and death anywhere: completion, counting and announcement agree |
| `jobs_settle` | `EveryChunkSettled` `FinishedIfNothingFails` | every chunk ends stored, dropped or lost in a named way, and a job that loses none is finished |
| `jobs_announced` | `DoneIsAnnounced` **violated** | without `ai_job_summary` the end of a job is never announced |
| `jobs_retries` | `RetriesAreBounded` **violated** | the retry limit is never reached |
| `servers` | `MvpInv` (`MvpTypeOK` `QueuedOnce` `OneWorkerPerTask`) `BusyAgrees` `SettledStays` `SettledIfNothingFails` | the lock is enough: no task is queued or handed out twice; only refused reports leave tasks in processing |
| | `ConnInv` `BroadcastReachesRoom` `NotifiersFinish` | two sockets that share, reuse or change ids while a notifier waits for its sends |
| `services` | `WalletInv` `NeverOverdrawn` `DecisionsAreFinal` | overlapping withdrawals, decisions, rewards and bans conserve money until two of them meet on a row, and never overdraw |
| | `DecayInv` | levels follow reputations, and one run charges what is documented if no other request changed the row since it was read |
| | `ApiInv` | API rows under two simple workers and two-tier requests |
| | `CollusionInv` | rings and reports |
| | `ExecutionInv` `ResultsFollowItems` | chunks of every type in a GPU and a CPU worker whose library fails |

### Bounds, and why they are enough

* `pipeline`: three workers (executor, validator, and one more to claim, be banned or wait), one
  task, a right and a wrong answer.  No handler but `expire_stale_leases` and `ban_worker` touches
  two tasks, and those treat each row alone.  Three interchangeable workers are a symmetry set.
* `pipeline_two_tasks`: two tasks of different priority share two workers' balances and counters.
* `worker_loop`: a pool of two threads (the least that share an id) that may die or be banned, and
  two single workers that remain; two lost calls or overrun leases in one behaviour.
* `sessions*`: two open requests, the least that can race, and one or two verdicts per worker.
  Slots are interchangeable; workers are where none is singled out as bannable.
* `jobs`: none, one or two chunks (two, so that the first result does not finish the job), two
  reducers, one mishap at any point of the behaviour, and any number of refused records, which are
  no mishap.  The two reducers are interchangeable (`ReducersAlike`); the worker and the reducers may
  die, the router and the monitor die in `jobs_settle`.
* `jobs_settle`: one chunk, but every kind of outcome (sentiment to
  CPU and GPU, `prime_count` which lacks its fields, `embeddings` which the CPU worker skips,
  `translation` which cannot be summarised), with router and monitor starting late and every
  process mortal.  `jobs_retries`: two mishaps, one more than `MaxRetries`.
* `services`, wallet: one worker with two withdrawals of one or two, two overlapping requests and two
  rewards of one, so that a withdrawal may take all or half, or what was refunded twice; workers meet
  in no row, so a second worker adds nothing.
* `services`, decay: one member and two overlapping requests, three revisions; a verdict of -100, a
  reset to 1500 next to the silver threshold, steps of 12 days (past the grace period) up to 36.
* `services`, API: two simple workers and one death or failed commit, with two calls and a list that
  has room for both, or with one call whose row two-tier requests take as well, one open at a time.
* `services`, collusion: every graph on four workers for the rings (with `min_size` 3), and for the
  scores three workers with 0, 4 or 10 tasks each way: below and above every count that is compared.
* `services`, execution: chunks with no item, one broken one, three mixed ones and five plain ones
  against a batch size of two (so the last batch is not full); two chunks, so that the second finds
  what the first left in the caches; one exception anywhere.  `prime_count` has a range from 0, one
  of one number and an empty one.
* `servers`, scheduler: two workers whose second choice is the same type, three tasks, one mishap and
  any number of refused reports; a type the scheduler does not know goes to the text queue.
* `servers`, connections: two sockets and two ids, so that an id can be shared, reused (also during a
  send) and exchanged, one of them the id of a worker; one room besides `all`, the one clients ask
  for (`Asked`); one notifier, which is enough to hold the lock.

`CHECK_DEADLOCK FALSE` is set in the job, servers and services runs only: once all records are consumed,
all requests answered or all sockets closed, those processes really wait for ever.

### Fairness, and what justifies it

* Workers and consumers are `while True` loops, and `docker-compose.yml` restarts their containers
  (`restart: unless-stopped`): weak fairness per process and of its restart.  The dead letter
  monitor is not in `docker-compose.yml`; where `EveryChunkSettled` says so, it is assumed to be
  run like the others.
* Handlers run to their end: weak fairness of their next statement.
* Nothing in the repository calls `POST /tasks/expire-leases`.  The sweep is therefore a *premise*
  of `DecidedIfSwept`, not part of the specification.
* `NotifiersFinish` needs the event loop: every task that can run is run, which is weak fairness of
  an endpoint's own steps and of a notifier's.  No fairness is given to the end of a send, which
  depends on the other end and has no timeout; that the sends under the lock end, and those of the
  broadcast, are premises of the property.  With them, one notifier holds the lock once, so the lock
  is free for good some day and weak fairness is enough for whoever waits for it.  The other runs of
  services have no fairness.
* No fairness is given to clients, administrators, failures or deaths.

`HasSummaryTable` is a constant because the reducer writes to a table that neither
`init-db/001_schema.sql` nor the migration creates.  The passing runs assume it was added by hand;
`jobs_announced` takes the schema as it is.

### The disagreements found

1. `OneVerdict`: `validate_task` checks the status on an unlocked read and commits by id.
2. `SubmittedCanBeValidated`: a release overlapping a submission leaves `submitted_A` without an
   executor, and `worker_id != X` never matches NULL.
3. `DoneIsAnnounced`: `done` is committed before the summary fails; redelivery skips the branch.
4. `RetriesAreBounded`: the monitor reads a count nobody writes.

Others were met and have no run of their own:

* *Pipeline.* `image_generation` and `transcription` are documented with rewards of their own
  (`docs/README.md:270`) but `get_task_reward` pays them as `text`; the documented reputation changes
  (`docs/README.md:288`) are not those of the code; `ban_worker` says it cancels assigned tasks but
  leaves those being validated to their lease; "not seen for 2 minutes are marked offline" happens
  only when an administrator calls the cleanup.
* *Job pipeline.* No sender looks at the future of `producer.send`, so a chunk whose record Kafka
  refuses is lost and its offset committed.  A negative `chunk_size` makes a job of no chunks that
  runs until it is cancelled.  A reducer that dies between its INSERT and the counter's UPDATE leaves
  a job that is never finished.
* *MVP stack.* The report of a worker whose model raised is answered 422: its task stays in processing
  and the gateway waits until its timeout.
* *Wallet.* `request_withdrawal` reads `settings.min_withdrawal`, which does not exist.  `available`
  subtracts pending amounts from a balance they have already been taken from.  Two overlapping
  rejections or cancellations refund twice.  A ban refunds without a transaction row, and the
  automatic ban leaves withdrawals pending.
* *Decay.* Every run charges the whole inactive period again, although the rate is documented per
  day.  `last_task_at` is set by executions only, so a worker that only validates decays.
* *API tasks.* `wait_for_task` waits for `completed` or `failed`, which the two-tier pipeline never
  sets; the simple worker overwrites statuses from a list read earlier.  Two simple workers that took
  up the same row may leave a submission, or the text of an exception, for an answer: the second
  reads the first one's result, does not write it again, and a two-tier request overwrites it.
  `tasks.payload` is a column
  of the model but of no schema or migration.
* *Connections.* The end of an old handler, or the cleanup of a broadcast, removes a client that has
  reconnected under the same id, also during the await of the send that fails.  A client that stops
  reading may hold the manager's lock, as `send_json` has no timeout.  Nothing calls the notify
  functions.
* *Collusion.* The greedy ring search may miss a group of three that has edges to others; evidence of
  high approval has a score of at least 0.98, which is always above the automatic ban; a ring of
  eight or more scores above 1.
* *Execution.* `sentiment_analysis` in the CPU worker given one string counts its characters as texts.

## 4. The proofs

Every invariant and every action property that a passing run checks is also a theorem, for every
value of the constants.  Eight modules hold the proofs:

| Module | About | Theorems |
|---|---|---|
| `FiniteSums` | sums over finite sets, induction | lemmas only |
| `TaskPipelineProofs` | `TaskPipeline`, `TaskSafety`, `TaskRefinement` | 12 |
| `OverlapProofs` | `TaskSessions`, `SessionSafety`, `WorkerLoop` | 5 |
| `JobPipelineProofs` | `JobPipeline`, `JobSafety` | 5 |
| `MvpSchedulerProofs` | `MvpScheduler` | 3 |
| `WalletProofs` | `Wallet` | 3 |
| `TrustProofs` | `ReputationDecay`, `Collusion` | 2 |
| `ServingProofs` | `ApiTasks`, `Connections`, `ModelExecution` | 5 |

### The task pipeline

`TaskPipelineProofs` proves about `Spec` of `TaskPipeline`, for every set of workers, answers,
types and priorities and every number of tasks, from `PipelineAssumption` only (the NULLs are no
workers or answers; the client's inputs have the types the schemas enforce).

1. **Types.**  `TypeCorrect` from `NextTypeOK`: one lemma per pure operator of the handlers, then
   one case per request.  It includes that balances stay natural numbers and that `Clamped` keeps
   reputation in 0..10 at each of the many small changes.
2. **Steps by row.**  `StepByRow` reduces [Next]_vars to what it does to one task: a quiet change
   (a claim, a submission, an expiry, a release, a ban: a list of nine) that pays nothing, or a
   judgement that appends the payments of its verdict.  All later proofs argue by row.
3. **The inductive invariant.**  `IInv` = `TypeOK`, `StagesConsistent`, `IndependentValidation`,
   `GoldenGate`, `PaidExactlyOnce`.  None of the last four is inductive alone: that a judgement
   finds two different workers needs the columns implied by `validating`; that its payments are
   appended to an empty history needs that nothing unfinished has been paid; that a release may
   clear the executor needs that no validator is on the row.  All of them are checked by `pipeline`.
4. **Theorems.**  The five invariants, and from `IInv` and `StepByRow` the four action properties
   `VerdictIsFinal`, `ResultIsKept`, `LeaseProtectsExecutor`, `BannedGetNoTask`.

5. **Refinement.**  `PipelineImplementsSettlement`, `Spec => ImplementsSettlement`: initial states are
   initial, `ValidateTask` is a `Settle` of the row it judges (`SettleStep`), and every other request
   is a stutter, argued by rows.  One request needs more than `IInv`: `register_worker` writes a
   balance of 0.  `NewcomersUnknown` adds that a worker who has not registered has no credits and is
   on no task, so that nothing is wiped out and nobody is paid before registering.
6. **Money and counters.**  `BalancesAreLedger`: a balance is the sum of the transaction rows of all
   tasks that name the worker.  A verdict adds to it what is `Due`, and the same to the sum
   (`EarnedGrows`, `PaymentsAreDue`, `VerdictPaysDue`); nothing else changes either (`FundsKept`).
   `CountersAlwaysMatch`: the statistics are the cardinalities of the sets of tasks done, rejected
   and validated; a verdict adds its task to two of them, in which it was not.

The sums are recursive functions over sets, of which nothing can be proved without induction, and no
prover here can instantiate an induction theorem that takes a predicate.  `FiniteSums` states the
principles for sets instead of predicates: what is to hold for every subset of a finite set, or for
every number, is that the set of those it holds for contains them all.  From these it proves that
`MapThenSumSet` is defined, and returns the same whichever element it takes first (`SumWith`,
`SumWithout`), and then what the other modules cite: a sum of equal terms is equal (`SumSame`), one
changed term changes it by the difference (`SumChanged`), natural terms have a natural sum
(`SumNatural`).

### Overlapping requests and polling processes

`OverlapProofs` proves about `SessionSpec`, for any number of open requests, and about `LoopSpec`,
for any number of processes and threads.

1. **`NobodyJudgesHimself`**: `SessionInv` always holds.  `OverlapInv` describes what every open
   request has read and is about to write (`SlotOK`), and the one thing that must still be true of
   rows others have written since (`StillTrue`): the task has kept its type, and the worker about to
   validate it has not become its executor.  That last fact rests on the row lock that
   `get_next_task` takes (`LocksExclude`): without it one request of a worker could take a task to
   validate while another, after a ban has released that task, takes it to execute.
   `Apart` says that a task being validated has a validator
   other than its executor.  Every commit is written column by column; `Follows` collects what such
   a write may do to a row, and one lemma per handler shows that it does no more.
2. **`BalancesWithinLedger`**: `BalanceWithinLedger` always holds.  It is not inductive, since a verdict
   writes a balance it computed from an earlier reading; `MoneyBacked` adds that the balances every
   open verdict has read are covered by the ledger.  A verdict adds to the ledger all it adds to
   what it read (`VerdictEarns`), and the ledger never shrinks, so what is lost is lost from the
   balance only.
3. **`DoneTasksArePaid`**: `DoneIsPaid` always holds.  Only a verdict finishes a task
   (`OthersFinishNothing`: a late write of any other request may undo `done`, but never writes it),
   and it appends both rewards in the same commit, for the type the task still has.
4. **`LoopsOrphanNothing`**: `LoopInv` always holds.  `OrphansNeedFailure` speaks of behaviours without
   failures so far, and needs that failures stay on record (`FailuresStay`): a process that stopped
   does not register again, because all its loops stop together (`StopTogether`); and a worker that
   is not registered is not banned, and its loops have not begun (`NotBegun`), so registering lifts
   no ban and interrupts no loop.
5. **`LoopsUseThePipeline`**: `LoopSpec => Spec`.  Whatever the processes, the administrators and the
   clock do is a behaviour of `TaskPipeline`, so all its theorems hold while processes poll.

### The job pipeline

`JobPipelineProofs` proves about `Spec` of `JobPipeline`, for any number of jobs, chunks, processes and
mishaps, every task type and set of errors, and with or without the summary table, from
`JobAssumption` (finitely many reducers; `NoRecord` is no record).  Five theorems state the five
properties that the run `jobs` checks.  The invariant has three parts.

1. **Delivery** (`NoChunkIsLost`).  "Some record of the chunk is in a queue" is not inductive: a commit
   may remove that record.  `AllTraced` asks for a record that *no consumer has in hand*, which needs
   that a record in hand is still in its topic or its chunk is stored, dropped or lost
   (`HeldAreKnown`: a late consumer that resets to the end of the topic may skip what another one is
   working on), and
   that no two consumers hold one record (`HoldersDiffer`).  Every action is one of four effects on
   records, `Drops`, `Adds`, `Hands` or `Commit`, and the invariant is proved for those.
2. **Counting** (`CounterFollowsResults`, `DoneJobsAreComplete`).  `CountsInv` adds to the counter's
   bound that a reducer past its look at the row, or a job that is done, has a full counter; with the
   bound, a full counter means every result is stored and no reducer is about to count
   (`FullIsComplete`).  That stored results are chunks of the job needs `KnownInv`: whatever is in a
   queue or in hand belongs to a chunk its job has.
3. **Announcing** (`EndIsAnnouncedOnce`, `FinishedJobsStay`).  `AnnouncingInv`: at most one reducer is
   between the update that set a job to done and its event, and until then there is none.

### The MVP stack

`MvpSchedulerProofs` proves about `Spec` of `MvpScheduler`, for any workers, capabilities, finite set
of tasks and number of mishaps, from `SchedulerAssumption`.

1. **`EveryTaskHasOnePlace`**: `MvpInv` always holds.  `QueuedOnce` counts places, which no step
   changes in an obvious way; `QueuesOK` says the same by slots: what is queued is pending, what is
   pending is queued, no two slots hold one task.  `HeldAreProcessing` adds that a worker's task is
   processing, or forgotten by a restart of the scheduler; `NewAreUnknown` that a task not submitted
   yet is nowhere.  Without them a task could be queued while a worker has it.  That `QueuedOnce`
   sees whole queues (`QueuesFit`) is the pigeonhole principle: a queue without repetitions is no
   longer than the set of tasks.
2. **`ResultsStay`**: from the same invariant, the action property `SettledStays`.
3. **`SchedulerAndWorkersAgree`**: `BusyAgrees` always holds.  `Agreement` adds that a task in a
   worker's hands is in processing and was not refused, without which a result could free a worker
   that has gone on to another task; that a refused task stays in processing follows because nobody
   has it in hand any more.

### The services

`WalletProofs` proves about `WalletSpec`, for any workers, any finite numbers of withdrawals and of
overlapping requests, from `WalletAssumption`: amounts and rewards are positive (the schema's
`gt=0`, and `get_task_reward`), there are finitely many rows and requests, and NULL is no row.

* **`MoneyIsConserved`**: `WalletInv` always holds.  `WInv` adds what each open request knows: a hold is
  within the balance it read, the rows it lists belong to its worker, the refund it will pay is
  their sum (`Sound`); and, for a worker no two requests met on, that its readings are still what the
  rows say and each listed withdrawal is still in a status the decision may leave (`Fresh`).  The
  conservation law is a sum over the withdrawals that were not refunded, so each action is shown to
  change that sum by what it changes the balance.  `RoomLeft` keeps the bounds on behaviours out of
  the way.
* **`BalancesStayPositive`** follows from the types of `WInv`, where `Sound` carries the check of the
  funds from `CheckFunds` to `CommitHold`; it needs no assumption about overlaps.
* **`NoDecisionIsTakenBack`**: the action property `DecisionsAreFinal`, from `Fresh`.

`ServingProofs` proves about `ConnSpec`, for any number of sockets, client ids, rooms and notifiers,
from `ConnectionAssumption` only.

1. **`ConnectionsAgree`**: `ConnInv` always holds.  It is not inductive: whether unregistering an id
   may remove a client that is there depends on who else has the id.  `SocketsInv` adds
   that live handlers have an id (`HandlersHaveIds`), that the table has live handlers only
   (`RegisteredAreLive`), that sockets not connected yet are in no room (`NewHaveNoRooms`), that two
   live handlers with one id make it `shared` (`SharingIsKnown`), that an id a broadcast is about to
   disconnect belongs, unless shared, to clients that are gone (`DeadAreGone`), and, because a send
   has a beginning and an end, that whoever has the id a broadcast waits for is the client it sends
   to, unless the id is shared (`AwaitedAreTheirs`): so a send that fails condemns nobody else.
   `ClosingAreGone` is the same for a client found gone before the send.  One lemma per action.
2. **`BroadcastsReachTheirRoom`**: `BInv` adds to `SocketsInv` that the clients a broadcast asked for had
   connected, that each of them is on the list, sent to, being waited for, or gone, and that the list
   is empty when the broadcast is over.

`TrustProofs` proves about `DecaySpec`, for any number of workers and of requests open at
once, any ratings, changes and numbers of days, from `DecayAssumption`.

* **`DecayFollowsRules`**: `DecayInv` always holds.  `IInv` adds `ClerksOK` (what an open request has
  read are rows, what a run saw of the days of inactivity is within the bound) and, for a worker no
  two requests met on, `Sound`: its level is among the levels of its spell of inactivity, and a spell
  without a run has lost nothing.  Without the first, the rate of a run could not be related to the
  worker's level; without the second, the first run could start from points already lost.  That the
  level follows the reputation is in `IInv` for every worker, mixed or not: whatever row a commit had
  read, the trigger sets the level from the reputation written, and a level is never written
  without one.

It also proves about `CollusionSpec`, for any finite set of workers and any logs of their
validations, from `CollusionAssumption` (the set of workers is the rows of a table, and so finite;
the logs are counts).

* **`RingsAndReportsHold`**: `CollusionInv` always holds.  For the search, `SearchOK` adds that the clique
  in hand is complete and that whoever could join it is still a candidate (`Extends`), and that every
  clique left behind was reported if large enough.  Then a group without an edge to anyone else is
  found whichever of its members the search starts from (`ClosedGroupsAreFound`).  For the reports,
  the arithmetic of the scores: `MutualMeansBoth` shows that a mutual score above its threshold takes
  validations in both directions, `SuspicionHasGround` that a suspicious score takes some.

`ServingProofs` proves about `ApiSpec`, for any number of calls and simple workers, lists of any
size and any number of mishaps, from `ApiAssumption`.

* **`AnswersOnly`**: `ApiInv` always holds.  A reply copies the result column of a completed row, and
  simple workers and two-tier requests write that column, each only where it differs from what it
  read.  `AnswersInv` adds, for a row that at most one simple worker took up, that nobody else is at
  it, that it bears no end and no result of a simple worker until this one writes them, and that
  neither did the row it read (`Alone`): so what it writes differs from what it read, and is written.
  `RequestsOK` says that an open two-tier request writes no status of the simple workers and no
  result of theirs that it has not read, and so cannot end a row in processing or bring back its
  status.  That a row in processing has a worker that will end it then follows worker by worker: one
  that marks the row becomes its owner, and one that writes an end takes it out of processing.

And about `ExecutionSpec`, for any items, ranges, batch size and number of exceptions, from
`ExecutionAssumption`.

* **`ModelsAreReady`**, **`EveryItemIsAnswered`**: `ExecutionInv` and `ResultsFollowItems` always hold.
  `ChunkInv` adds that at every step there is one reply for each item passed, in their order, and no
  more (`Followed`), and that a tokenizer is cached before its model is (`CachesOK`).  `is_prime` tries
  divisors up to the square root only; `TrialDivision` proves, for every natural number, that it
  finds the primes, because of a divisor and its cofactor the smaller is within the root.

### What is only model-checked

* Liveness: `DecidedIfSwept`, `DecidedIfNothingFails`, `EveryChunkSettled`, `FinishedIfNothingFails`,
  `SettledIfNothingFails`, `NotifiersFinish`.  No prover here handles fairness.
* The four properties the code violates, which are no theorems.

## 5. The plan

The order was: the pipeline with atomic handlers and its abstract settlement; its proofs; the same
handlers overlapping; the clients; the job pipeline and the MVP stack; the services around them; the
refinement, the job pipeline, the MVP stack and three of the services proved; then sums, the wallet,
collusion and chunk execution, the overlapping requests and the polling processes.  What is left:

* an abstract settlement for the overlapping requests: which of the promises of `TwoTierSettlement`
  the code keeps when verdicts race, as a refinement instead of three invariants;
* the counters of `CountersMatchTasks` as bounds when verdicts race, as `BalanceWithinLedger` is one
  for balances.

## 6. Not modelled

* Who may call an endpoint (`auth.py`, `routers/auth.py`, rate limits): stateless checks in front of
  handlers that the models let anybody call.
* Reports, statistics, metrics and monitoring: they read and format.
* Wording, formatting, heartbeats to a topic nobody reads, the models' computations, alerts of the
  dead letter monitor, audit and history rows.
* `apply_reactivation_bonus`, which nothing calls, and the administration of golden templates, whose
  only effect on a task is whether a golden answer comes with it (`CreateTask` takes either).
* Legacy services and scripts, which `docker-compose.yml` does not start, and the user interfaces,
  on whose state the server does not rely.
