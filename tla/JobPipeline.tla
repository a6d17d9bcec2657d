----------------------------- MODULE JobPipeline -----------------------------
(***************************************************************************)
(* The job pipeline over Kafka and PostgreSQL: the API cuts a job into     *)
(* chunks (services/api/main.py), the router forwards each chunk to a CPU  *)
(* or GPU worker (services/router, services/cpu_worker,                    *)
(* services/gpu_worker), the reducer stores and counts the results         *)
(* (services/reducer) and the monitor sends failed chunks again            *)
(* (services/dlq_monitor).                                                 *)
(*                                                                         *)
(* One action is one effect on a topic or one autocommitted statement, and *)
(* a process may die between any two of them.  A topic is the set of its   *)
(* records whose offset is not committed: the topics have twelve           *)
(* partitions and no keys, so records are read in any order; a record is   *)
(* in one partition and so with one consumer of its group at a time.       *)
(* The payload of a chunk is a function of the job (its type and whether   *)
(* the router calls the chunk large) and is never changed on its way.      *)
(***************************************************************************)
EXTENDS Integers, FiniteSets, Sequences

CONSTANTS
  Jobs,               \* jobs that clients may submit
  MaxChunks,          \* bound: chunks of one job
  MaxLarge,           \* bound: large chunks of one job
  TaskTypes,          \* values of task_type clients ask for
  CpuWorkers, GpuWorkers, Reducers,  \* processes of each kind
  Late,               \* bound: the consumers that start after the first job
  Mortal,             \* bound: the consumers that may die
  Errors,             \* categories of the errors a worker may meet
  HasSummaryTable,    \* does the table ai_job_summary exist?
  MaxRetries,         \* DLQ_MAX_RETRIES of the monitor
  MaxMishaps,         \* bound: deaths, errors and failed calls
  NoRecord            \* no record in hand

Consumers == {"router", "monitor"} \cup CpuWorkers \cup GpuWorkers \cup Reducers

(***************************************************************************)
(* Topics by the end of their name, and the monitor's list in memory,      *)
(* split by the topic its letters came from.                               *)
(***************************************************************************)
Topics == {"tasks", "cpu", "gpu", "results", "dlq", "dlq_gpu"}
RetryLists == {"retry", "retry_gpu"}
Queues == Topics \cup RetryLists

Categories == {"transient", "permanent", "validation", "timeout", "resource", "unknown"}

Chunks == 0..MaxChunks - 1

Record == [job : Jobs, chunk : Chunks, error : Categories \cup {"none"}, copy : Nat]

ASSUME JobAssumption ==
  /\ MaxChunks \in Nat \ {0}
  /\ MaxMishaps \in Nat
  /\ MaxLarge \in 0..MaxChunks
  /\ MaxRetries \in Nat
  /\ Errors \subseteq Categories
  /\ HasSummaryTable \in BOOLEAN
  /\ Mortal \subseteq Consumers /\ Late \subseteq Consumers
  /\ IsFiniteSet(Reducers)
  /\ NoRecord \notin Record

VARIABLES
  request,     \* the API's handler of POST /jobs, and what the job consists of
  job,         \* the rows of ai_jobs
  results,     \* the chunk ids in ai_results, by job
  events,      \* the rows of ai_job_events, by job in order of id
  watcher,     \* id of the last event sent on a websocket that follows the job
  queue,       \* the uncommitted records of each topic, and the retry lists
  begun,       \* topics whose consumer group has committed an offset
  consumer,    \* where each process is in its loop
  retried,     \* history: resends of each chunk by the monitor
  givenUp,     \* history: chunks that some process knowingly dropped
  lost,        \* history: chunks of records that vanished and nobody noticed
  mishaps      \* deaths, errors and failed calls so far

apiVars == <<request, watcher>>
tables == <<job, results, events>>
kafka == <<queue, begun>>
history == <<retried, givenUp, lost>>
jobVars == <<request, job, results, events, watcher, queue, begun, consumer,
             retried, givenUp, lost, mishaps>>

JobRow == [status : {"absent", "running", "done", "cancelled"},
           total : 0..MaxChunks, completed : 0..MaxChunks]

Request == [step : {"none", "created", "sending", "answered", "cancelling", "failed"},
            unsent : SUBSET Chunks, type : TaskTypes, large : 0..MaxChunks]

EventTypes == {"job_created", "job_done", "job_cancelled"}

ConsumerSteps ==
  {"down", "idle", "count", "look", "finish", "summary", "announce", "commit"}

Resting(step) == [step |-> step, from |-> "none", record |-> NoRecord]

Mishap == mishaps < MaxMishaps /\ mishaps' = mishaps + 1

-----------------------------------------------------------------------------
(* Sending and receiving *)

(***************************************************************************)
(* Records with the same content are told apart by a number.               *)
(***************************************************************************)
Numbered(j, c, e, n) == [job |-> j, chunk |-> c, error |-> e, copy |-> n]

NewRecord(q, j, c, e) ==
  Numbered(j, c, e,
           CHOOSE n \in 0..Cardinality(q) : Numbered(j, c, e, n) \notin q)

Sent(queues, q, j, c, e) ==
  [queues EXCEPT ![q] = @ \cup {NewRecord(@, j, c, e)}]

(***************************************************************************)
(* producer.send only buffers the record and flush() returns also when     *)
(* Kafka refused it: the error is in a future that no sender looks at, so  *)
(* a sender goes on as if the record were in its topic.                    *)
(***************************************************************************)
Send(queues, q, j, c, e) ==
  \/ queue' = Sent(queues, q, j, c, e) /\ UNCHANGED lost
  \/ queue' = queues /\ lost' = [lost EXCEPT ![j] = @ \cup {c}]

InHand(k, q, r, step) ==
  consumer' = [consumer EXCEPT ![k] = [step |-> step, from |-> q, record |-> r]]

Inputs(k) ==
  CASE k = "router"      -> {"tasks"}
    [] k = "monitor"     -> {"dlq", "dlq_gpu"}
    [] k \in CpuWorkers  -> {"cpu"}
    [] k \in GpuWorkers  -> {"gpu"}
    [] k \in Reducers    -> {"results"}

\* Consumer k, waiting for a record, is handed r of topic q.
Receives(k, q, r) ==
  /\ consumer[k].step = "idle"
  /\ q \in Inputs(k)
  /\ r \in queue[q]
  /\ \A other \in Consumers : <<consumer[other].from, consumer[other].record>> # <<q, r>>

Continue(k, step) == consumer' = [consumer EXCEPT ![k].step = step]

Commit(k) ==
  /\ consumer[k].step = "commit"
  /\ queue' = [queue EXCEPT ![consumer[k].from] = @ \ {consumer[k].record}]
  /\ begun' = begun \cup Inputs(k)
  /\ consumer' = [consumer EXCEPT ![k] = Resting("idle")]
  /\ UNCHANGED <<apiVars, tables, history, mishaps>>

(***************************************************************************)
(* The CPU workers and the reducer read a topic they never committed from  *)
(* its beginning; the router, the GPU workers and the monitor from its     *)
(* end (auto_offset_reset), so what waits there is never read.             *)
(***************************************************************************)
ReadsFromEnd(k) == k \notin CpuWorkers \cup Reducers

Skipped(k) ==
  IF ReadsFromEnd(k) /\ Inputs(k) \cap begun = {}
  THEN UNION {queue[q] : q \in Inputs(k)}
  ELSE {}

With(record, records) ==
  [j \in Jobs |-> record[j] \cup {r.chunk : r \in {s \in records : s.job = j}}]

GiveUp(records) == givenUp' = With(givenUp, records) /\ UNCHANGED lost

Lose(records) == lost' = With(lost, records) /\ UNCHANGED givenUp

Start(k) ==
  /\ consumer[k].step = "down"
  /\ consumer' = [consumer EXCEPT ![k] = Resting("idle")]
  /\ queue' = [q \in Queues |-> IF q \in Inputs(k) THEN queue[q] \ Skipped(k) ELSE queue[q]]
  /\ Lose(Skipped(k))
  /\ UNCHANGED <<apiVars, tables, begun, retried, mishaps>>

\* The record in hand stays uncommitted; the monitor loses its retry lists.
Die(k) ==
  /\ k \in Mortal
  /\ consumer[k].step # "down"
  /\ consumer' = [consumer EXCEPT ![k] = Resting("down")]
  /\ IF k = "monitor"
     THEN /\ queue' = [q \in Queues |-> IF q \in RetryLists THEN {} ELSE queue[q]]
          /\ Lose(UNION {queue[q] : q \in RetryLists})
     ELSE UNCHANGED <<queue, givenUp, lost>>
  /\ Mishap
  /\ UNCHANGED <<apiVars, tables, begun, retried>>

-----------------------------------------------------------------------------
(* The API *)

(***************************************************************************)
(* Chunks below large hold twenty texts or more under the key "texts".     *)
(* Only the CSV endpoint writes that key; all its chunks but the last have *)
(* the same size.                                                          *)
(***************************************************************************)
LargeCounts(type, total) ==
  IF type = "sentiment_analysis" THEN {0, total - 1, total} \cap 0..MaxLarge ELSE {0}

(***************************************************************************)
(* chunk_size is not checked: a negative one cuts any list into no chunk   *)
(* at all, and the row is inserted all the same.                           *)
(***************************************************************************)
CreateJob(j, type, total, large) ==
  /\ request[j].step = "none"
  /\ total \in 0..MaxChunks /\ large \in LargeCounts(type, total)
  /\ job' = [job EXCEPT ![j] = [status |-> "running", total |-> total, completed |-> 0]]
  /\ request' = [request EXCEPT ![j] = [step |-> "created", unsent |-> 0..total - 1,
                                        type |-> type, large |-> large]]
  /\ UNCHANGED <<results, events, watcher, kafka, consumer, history, mishaps>>

RecordCreated(j) ==
  /\ request[j].step = "created"
  /\ events' = [events EXCEPT ![j] = Append(@, "job_created")]
  /\ request' = [request EXCEPT ![j].step = "sending"]
  /\ UNCHANGED <<job, results, watcher, kafka, consumer, history, mishaps>>

SendChunk(j, c) ==
  /\ request[j].step = "sending" /\ c \in request[j].unsent
  /\ Send(queue, "tasks", j, c, "none")
  /\ request' = [request EXCEPT ![j].unsent = @ \ {c}]
  /\ UNCHANGED <<tables, watcher, begun, consumer, retried, givenUp, mishaps>>

Answer(j) ==
  /\ request[j].step = "sending" /\ request[j].unsent = {}
  /\ request' = [request EXCEPT ![j].step = "answered"]
  /\ UNCHANGED <<tables, watcher, kafka, consumer, history, mishaps>>

\* Kafka stays away or the API dies: the job row is there, its chunks are not.
RequestFails(j) ==
  /\ request[j].step \in {"created", "sending", "cancelling"}
  /\ request' = [request EXCEPT ![j].step = "failed", ![j].unsent = {}]
  /\ givenUp' = [givenUp EXCEPT ![j] = @ \cup request[j].unsent]
  /\ Mishap
  /\ UNCHANGED <<tables, watcher, kafka, consumer, retried, lost>>

CancelJob(j) ==
  /\ request[j].step = "answered"
  /\ job[j].status \notin {"done", "cancelled"}
  /\ job' = [job EXCEPT ![j].status = "cancelled"]
  /\ request' = [request EXCEPT ![j].step = "cancelling"]
  /\ UNCHANGED <<results, events, watcher, kafka, consumer, history, mishaps>>

RecordCancelled(j) ==
  /\ request[j].step = "cancelling"
  /\ events' = [events EXCEPT ![j] = Append(@, "job_cancelled")]
  /\ request' = [request EXCEPT ![j].step = "answered"]
  /\ UNCHANGED <<job, results, watcher, kafka, consumer, history, mishaps>>

\* One round of job_progress_ws: the events after the last one sent, and the
\* socket is closed after "job_done".
Closed(j) == watcher[j] \in DOMAIN events[j] /\ events[j][watcher[j]] = "job_done"

Poll(j) ==
  LET done == {i \in DOMAIN events[j] : events[j][i] = "job_done"} IN
  /\ request[j].step = "answered"
  /\ watcher[j] < Len(events[j]) /\ ~Closed(j)
  /\ \/ done = {} /\ watcher' = [watcher EXCEPT ![j] = Len(events[j])]
     \/ \E i \in done :
          /\ \A other \in done : i <= other
          /\ watcher' = [watcher EXCEPT ![j] = i]
  /\ UNCHANGED <<request, tables, kafka, consumer, history, mishaps>>

-----------------------------------------------------------------------------
(* The router *)

Target(r) ==
  IF /\ request[r.job].type = "sentiment_analysis"
     /\ r.chunk < request[r.job].large
  THEN "gpu" ELSE "cpu"

Route(k, r) ==
  /\ Receives(k, "tasks", r)
  /\ Send(queue, Target(r), r.job, r.chunk, "none")
  /\ InHand(k, "tasks", r, "commit")
  /\ UNCHANGED <<apiVars, tables, begun, retried, givenUp, mishaps>>

-----------------------------------------------------------------------------
(* The workers *)

\* LIMITS["task_types"] of the CPU worker.
CpuTypes ==
  {"prime_count", "sentiment_analysis", "translation", "summarization",
   "image_classification", "text_generation", "question_answering"}

\* POST /jobs sends type and items only; prime_count needs "start" and "end".
LacksItsFields(j) == request[j].type = "prime_count"

WorkQueue(k) == IF k \in CpuWorkers THEN "cpu" ELSE "gpu"
LetterQueue(k) == IF k \in CpuWorkers THEN "dlq" ELSE "dlq_gpu"

SkipUnsupported(k, r) ==
  /\ k \in CpuWorkers
  /\ Receives(k, "cpu", r)
  /\ request[r.job].type \notin CpuTypes
  /\ InHand(k, "cpu", r, "commit")
  /\ GiveUp({r})
  /\ UNCHANGED <<apiVars, tables, kafka, retried, mishaps>>

Succeed(k, r) ==
  /\ Receives(k, WorkQueue(k), r)
  /\ request[r.job].type \in CpuTypes /\ ~LacksItsFields(r.job)
  /\ Send(queue, "results", r.job, r.chunk, "none")
  /\ InHand(k, WorkQueue(k), r, "commit")
  /\ UNCHANGED <<apiVars, tables, begun, retried, givenUp, mishaps>>

\* Mutant: the exception handler commits without writing a letter.
FailWithoutLetter(k, r) ==
  /\ Receives(k, WorkQueue(k), r)
  /\ request[r.job].type \in CpuTypes
  /\ \/ LacksItsFields(r.job) /\ UNCHANGED mishaps
     \/ ~LacksItsFields(r.job) /\ Errors # {} /\ Mishap
  /\ InHand(k, WorkQueue(k), r, "commit")
  /\ UNCHANGED <<apiVars, tables, kafka, history>>

\* The exception handler of the main loop: a dead letter, then the commit.
Fail(k, r) ==
  /\ Receives(k, WorkQueue(k), r)
  /\ request[r.job].type \in CpuTypes
  /\ \E error \in Categories :
       /\ \/ LacksItsFields(r.job) /\ error = "unknown" /\ UNCHANGED mishaps
          \/ ~LacksItsFields(r.job) /\ error \in Errors /\ Mishap
       /\ Send(queue, LetterQueue(k), r.job, r.chunk, error)
  /\ InHand(k, WorkQueue(k), r, "commit")
  /\ UNCHANGED <<apiVars, tables, begun, retried, givenUp>>

\* The GPU worker prints a failed letter and commits all the same.
FailUnreported(k, r) ==
  /\ k \in GpuWorkers
  /\ Receives(k, "gpu", r)
  /\ InHand(k, "gpu", r, "commit")
  /\ GiveUp({r})
  /\ Mishap
  /\ UNCHANGED <<apiVars, tables, kafka, retried>>

(***************************************************************************)
(* A worker slower than max_poll_interval_ms has lost its partition: the   *)
(* commit raises after the result is sent, the exception handler writes a  *)
(* dead letter, and its own commit raises again and ends the process.      *)
(***************************************************************************)
CommitRefused(k) ==
  /\ k \in Mortal \cap (CpuWorkers \cup GpuWorkers)
  /\ consumer[k].step = "commit"
  /\ \E error \in Errors :
       Send(queue, LetterQueue(k), consumer[k].record.job, consumer[k].record.chunk, error)
  /\ consumer' = [consumer EXCEPT ![k] = Resting("down")]
  /\ Mishap
  /\ UNCHANGED <<apiVars, tables, begun, retried, givenUp>>

-----------------------------------------------------------------------------
(* The reducer, statement by statement *)

\* Mutant: the conflict with a stored result is not looked at.
StoreAndCount(k, r) ==
  /\ Receives(k, "results", r)
  /\ results' = [results EXCEPT ![r.job] = @ \cup {r.chunk}]
  /\ InHand(k, "results", r, "count")
  /\ UNCHANGED <<apiVars, job, events, kafka, history, mishaps>>

Store(k, r) ==
  /\ Receives(k, "results", r)
  /\ results' = [results EXCEPT ![r.job] = @ \cup {r.chunk}]
  /\ InHand(k, "results", r, IF r.chunk \in results[r.job] THEN "look" ELSE "count")
  /\ UNCHANGED <<apiVars, job, events, kafka, history, mishaps>>

\* Mutant: the counter is written back from an earlier read of the row.
CountToOne(k) ==
  LET j == consumer[k].record.job IN
  /\ consumer[k].step = "count"
  /\ job' = IF job[j].status = "running" THEN [job EXCEPT ![j].completed = 1] ELSE job
  /\ Continue(k, "look")
  /\ UNCHANGED <<apiVars, results, events, kafka, history, mishaps>>

Count(k) ==
  LET j == consumer[k].record.job IN
  /\ consumer[k].step = "count"
  /\ job' = IF job[j].status = "running" THEN [job EXCEPT ![j].completed = @ + 1] ELSE job
  /\ Continue(k, "look")
  /\ UNCHANGED <<apiVars, results, events, kafka, history, mishaps>>

\* Mutant: the status looked for is the default of the column.
LookForPending(k) ==
  LET row == job[consumer[k].record.job] IN
  /\ consumer[k].step = "look"
  /\ Continue(k, IF row.status = "pending" /\ row.total = row.completed
                 THEN "finish" ELSE "commit")
  /\ UNCHANGED <<apiVars, tables, kafka, history, mishaps>>

Look(k) ==
  LET row == job[consumer[k].record.job] IN
  /\ consumer[k].step = "look"
  /\ Continue(k, IF row.status = "running" /\ row.total = row.completed
                 THEN "finish" ELSE "commit")
  /\ UNCHANGED <<apiVars, tables, kafka, history, mishaps>>

\* Mutant: the status is not in the WHERE clause.
FinishAlways(k) ==
  LET j == consumer[k].record.job IN
  /\ consumer[k].step = "finish"
  /\ job' = [job EXCEPT ![j].status = "done"] /\ Continue(k, "summary")
  /\ UNCHANGED <<apiVars, results, events, kafka, history, mishaps>>

Finish(k) ==
  LET j == consumer[k].record.job IN
  /\ consumer[k].step = "finish"
  /\ \/ /\ job[j].status = "running"
        /\ job' = [job EXCEPT ![j].status = "done"] /\ Continue(k, "summary")
     \/ job[j].status # "running" /\ Continue(k, "commit") /\ UNCHANGED job
  /\ UNCHANGED <<apiVars, results, events, kafka, history, mishaps>>

(***************************************************************************)
(* build_summary reads keys that only results of sentiment_analysis have,  *)
(* and its rows go to ai_job_summary; an exception ends the process.       *)
(***************************************************************************)
Summarised(j) == request[j].type = "sentiment_analysis" /\ HasSummaryTable

Summarise(k) ==
  /\ consumer[k].step = "summary"
  /\ IF Summarised(consumer[k].record.job)
     THEN Continue(k, "announce")
     ELSE consumer' = [consumer EXCEPT ![k] = Resting("down")]
  /\ UNCHANGED <<apiVars, tables, kafka, history, mishaps>>

Announce(k) ==
  LET j == consumer[k].record.job IN
  /\ consumer[k].step = "announce"
  /\ events' = [events EXCEPT ![j] = Append(@, "job_done")]
  /\ Continue(k, "commit")
  /\ UNCHANGED <<apiVars, job, results, kafka, history, mishaps>>

-----------------------------------------------------------------------------
(* The dead letter monitor *)

(***************************************************************************)
(* from_kafka_message reads retry_count from the letter, where no worker   *)
(* writes it: the count the monitor added is inside the raw task.          *)
(***************************************************************************)
RetryCount(letter) == 0

ShouldRetry(letter) ==
  /\ RetryCount(letter) < MaxRetries
  /\ letter.error \in {"transient", "timeout", "resource"}

RetryList(q) == IF q = "dlq" THEN "retry" ELSE "retry_gpu"
RetryTopic(list) == IF list = "retry" THEN "tasks" ELSE "gpu"

ProcessLetter(k, q, r) ==
  /\ q \in {"dlq", "dlq_gpu"}
  /\ Receives(k, q, r)
  /\ IF ShouldRetry(r)
     THEN /\ queue' = Sent(queue, RetryList(q), r.job, r.chunk, r.error)
          /\ UNCHANGED <<givenUp, lost>>
     ELSE GiveUp({r}) /\ UNCHANGED queue
  /\ InHand(k, q, r, "commit")
  /\ UNCHANGED <<apiVars, tables, begun, retried, mishaps>>

\* The delay has passed; the entry leaves the list before it is sent.
Retry(list, r) ==
  /\ consumer["monitor"].step # "down"
  /\ r \in queue[list]
  /\ Send([queue EXCEPT ![list] = @ \ {r}], RetryTopic(list), r.job, r.chunk, "none")
  /\ retried' = [retried EXCEPT ![r.job][r.chunk] = @ + 1]
  /\ UNCHANGED <<apiVars, tables, begun, consumer, givenUp, mishaps>>

\* Kafka is away: the entry is gone.  The error it follows is counted already.
RetryFails(list, r) ==
  /\ consumer["monitor"].step # "down"
  /\ r \in queue[list]
  /\ queue' = [queue EXCEPT ![list] = @ \ {r}]
  /\ GiveUp({r})
  /\ UNCHANGED <<apiVars, tables, begun, consumer, retried, mishaps>>

-----------------------------------------------------------------------------

Init ==
  /\ request \in [Jobs -> [step : {"none"}, unsent : {{}}, type : TaskTypes, large : {0}]]
  /\ job = [j \in Jobs |-> [status |-> "absent", total |-> 0, completed |-> 0]]
  /\ results = [j \in Jobs |-> {}]
  /\ events = [j \in Jobs |-> << >>]
  /\ watcher = [j \in Jobs |-> 0]
  /\ queue = [q \in Queues |-> {}]
  /\ begun = {}
  /\ consumer = [k \in Consumers |-> Resting(IF k \in Late THEN "down" ELSE "idle")]
  /\ retried = [j \in Jobs |-> [c \in Chunks |-> 0]]
  /\ givenUp = [j \in Jobs |-> {}]
  /\ lost = [j \in Jobs |-> {}]
  /\ mishaps = 0

Submit(j) ==
  \E total \in 0..MaxChunks, large \in 0..MaxChunks :
    CreateJob(j, request[j].type, total, large)

Serve(j) ==
  RecordCreated(j) \/ Answer(j) \/ RecordCancelled(j) \/ \E c \in Chunks : SendChunk(j, c)

Work(k, r) ==
  /\ k \in CpuWorkers \cup GpuWorkers
  /\ SkipUnsupported(k, r) \/ Succeed(k, r) \/ Fail(k, r) \/ FailUnreported(k, r)

Consume(k) ==
  \/ \E q \in Topics : \E r \in queue[q] :
       \/ k = "router" /\ Route(k, r)
       \/ Work(k, r)
       \/ k \in Reducers /\ Store(k, r)
       \/ k = "monitor" /\ ProcessLetter(k, q, r)
  \/ Count(k) \/ Look(k) \/ Finish(k) \/ Summarise(k) \/ Announce(k)
  \/ Commit(k)

RetryLoop(list) == \E r \in queue[list] : Retry(list, r)

Next ==
  \/ \E j \in Jobs : Submit(j) \/ Serve(j) \/ RequestFails(j) \/ CancelJob(j)
  \/ \E j \in Jobs : Poll(j)
  \/ \E k \in Consumers : Start(k) \/ Consume(k) \/ Die(k) \/ CommitRefused(k)
  \/ \E list \in RetryLists : RetryLoop(list) \/ \E r \in queue[list] : RetryFails(list, r)

Spec == Init /\ [][Next]_jobVars

(***************************************************************************)
(* Every process is a loop that compose restarts, and a handler that is    *)
(* not interrupted runs to its end.                                        *)
(***************************************************************************)
Fairness ==
  /\ \A j \in Jobs : WF_jobVars(Serve(j)) /\ WF_jobVars(Poll(j))
  /\ \A k \in Consumers : WF_jobVars(Start(k)) /\ WF_jobVars(Consume(k))
  /\ \A list \in RetryLists : WF_jobVars(RetryLoop(list))

FairSpec == Spec /\ Fairness
=============================================================================
