------------------------------ MODULE JobSafety ------------------------------
(* Properties of JobPipeline. *)
EXTENDS JobPipeline

JobTypeOK ==
  /\ request \in [Jobs -> Request]
  /\ job \in [Jobs -> JobRow]
  /\ results \in [Jobs -> SUBSET Chunks]
  /\ events \in [Jobs -> Seq(EventTypes)]
  /\ watcher \in [Jobs -> Nat]
  /\ queue \in [Queues -> SUBSET Record]
  /\ begun \subseteq Topics
  /\ consumer \in [Consumers -> [step : ConsumerSteps, from : Topics \cup {"none"},
                                 record : Record \cup {NoRecord}]]
  /\ \A k \in Consumers : consumer[k].record = NoRecord <=> consumer[k].step \in {"down", "idle"}
  /\ retried \in [Jobs -> [Chunks -> Nat]]
  /\ givenUp \in [Jobs -> SUBSET Chunks]
  /\ lost \in [Jobs -> SUBSET Chunks]
  /\ mishaps \in 0..MaxMishaps

ChunksOf(j) == 0..job[j].total - 1

Finished == {"done", "cancelled"}

(***************************************************************************)
(* A job is done only when the result of each of its chunks is stored,     *)
(* although results arrive twice, out of order and at two reducers         *)
(* (services/reducer/reducer.py); so a job without chunks is never done.   *)
(***************************************************************************)
DoneIsComplete ==
  \A j \in Jobs : job[j].status = "done" => results[j] = ChunksOf(j) /\ ChunksOf(j) # {}

Announcements(j) == {i \in DOMAIN events[j] : events[j][i] = "job_done"}

(***************************************************************************)
(* The end of a job is announced at most once, and a watcher whose socket  *)
(* the server closed finds every result stored.                            *)
(***************************************************************************)
AnnouncedOnce ==
  \A j \in Jobs :
    /\ Cardinality(Announcements(j)) <= 1
    /\ Announcements(j) # {} => job[j].status = "done"
    /\ Closed(j) => results[j] = ChunksOf(j)

(***************************************************************************)
(* Chunks vanish in three ways only: Kafka refused a record whose future   *)
(* nobody reads, a consumer group began at the end of its topic, or the    *)
(* monitor died with the chunk on a retry list.  Any other chunk waits in  *)
(* the API, is in a topic or retry list, is stored, or was dropped by a    *)
(* process that said so, however often processes die between a send and    *)
(* its commit.                                                             *)
(***************************************************************************)
ChunkAccountedFor ==
  \A j \in Jobs : \A c \in ChunksOf(j) :
    \/ c \in request[j].unsent \cup results[j] \cup givenUp[j] \cup lost[j]
    \/ \E q \in Queues : \E r \in queue[q] : r.job = j /\ r.chunk = c

Counting(j) == {k \in Reducers : consumer[k].step = "count" /\ consumer[k].record.job = j}

(***************************************************************************)
(* The counter follows the stored results of a running job, except for     *)
(* the results a reducer died with between its INSERT and its UPDATE.      *)
(***************************************************************************)
CountFollowsResults ==
  \A j \in Jobs :
    /\ job[j].completed + Cardinality(Counting(j)) <= Cardinality(results[j])
    /\ mishaps = 0 /\ job[j].status \in {"running", "done"} =>
         job[j].completed + Cardinality(Counting(j)) = Cardinality(results[j])

\* The tables keep their types and the counter counts.
JobInv == JobTypeOK /\ CountFollowsResults

\* A done job stays done and a cancelled one cancelled, whatever arrives late.
FinishedStays ==
  [][\A j \in Jobs : job[j].status \in Finished => job'[j].status = job[j].status]_jobVars

(***************************************************************************)
(* No chunk is stuck: every chunk of an accepted job is at last stored,    *)
(* knowingly dropped, or lost in one of the three ways above, although     *)
(* routers, workers and reducers die and workers fail with errors that are *)
(* worth a retry.                                                          *)
(***************************************************************************)
EveryChunkSettled ==
  \A j \in Jobs : \A c \in Chunks :
    request[j].step = "answered" /\ c \in ChunksOf(j)
      ~> c \in results[j] \cup givenUp[j] \cup lost[j]

NothingFailed == mishaps = 0 /\ \A j \in Jobs : givenUp[j] \cup lost[j] = {}

(***************************************************************************)
(* When no record is lost or dropped, every job that has a chunk is done   *)
(* or cancelled at last; one without chunks has no result to finish it and *)
(* runs until it is cancelled.                                             *)
(***************************************************************************)
FinishedIfNothingFails ==
  []NothingFailed =>
    \A j \in Jobs : job[j].status = "running" /\ ChunksOf(j) # {} ~> job[j].status \in Finished

-----------------------------------------------------------------------------
(* What the code does not keep *)

(***************************************************************************)
(* The monitor sends a chunk again at most DLQ_MAX_RETRIES times           *)
(* (should_retry in services/dlq_monitor/monitor.py).                      *)
(***************************************************************************)
RetriesAreBounded == \A j \in Jobs : \A c \in Chunks : retried[j][c] <= MaxRetries

(***************************************************************************)
(* A job that is done is announced, and only then does the websocket of    *)
(* its watchers close (job_progress_ws in services/api/main.py).           *)
(***************************************************************************)
DoneIsAnnounced == \A j \in Jobs : job[j].status = "done" ~> Announcements(j) # {}
=============================================================================
