------------------------------ MODULE ApiTasks ------------------------------
(***************************************************************************)
(* The OpenAI-compatible endpoints (server/routers/openai_compat.py), the  *)
(* simple worker that serves them (services/simple_worker/worker.py), and  *)
(* the two-tier workers of TaskPipeline, which take the same rows of the   *)
(* tasks table but use other statuses.  Chat and image requests insert a   *)
(* row and poll it until it is completed or failed, or a timeout passes;   *)
(* the other endpoints insert a row and answer at once.  The simple worker *)
(* reads some pending rows and then writes them by id, whatever has become *)
(* of them.  A commit expires the rows its session holds: a status that is *)
(* assigned to an expired row is written in any case, a column of a row    *)
(* read since only if it changes what was read.                            *)
(*                                                                         *)
(* Abstractions.  Prompts, payloads and results are left out: a result is  *)
(* named by who wrote it, and two answers to the same chat or image row    *)
(* are equal (the demonstration answers depend on the row alone).  The     *)
(* handlers of the two-tier pipeline are what they do to status and result *)
(* between their read and their commit (TaskSessions has the rest).        *)
(***************************************************************************)
EXTENDS Naturals, Sequences, FiniteSets, SequencesExt

CONSTANTS
  Calls,          \* bound: requests to the endpoints; each inserts the row of its number
  Simple,         \* simple workers
  FetchLimit,     \* rows read at once (5 in the code)
  Twins,          \* bound: rows a two-tier worker may take
  Visits,         \* bound: two-tier requests open at the same time
  MaxMishaps      \* bound: deaths of simple workers and failed commits

ASSUME ApiAssumption ==
  /\ Calls \subseteq Nat
  /\ Twins \subseteq Calls
  /\ FetchLimit \in Nat \ {0}
  /\ MaxMishaps \in Nat

VARIABLES
  row,            \* tasks table: status and who wrote the result
  call,           \* the request of that row: none, waiting, or its reply
  hand,           \* simple worker: the list it works through, what it does, the row it read
  tier,           \* open two-tier requests: the row read, and what it is to become
  mishaps,        \* deaths and failed commits so far (bound)
  starts          \* history: times a simple worker took up the row, 2 for more than one

apiVars == <<row, call, hand, tier, mishaps, starts>>

NoTask == [status |-> "none", result |-> "none"]

Rows(status) == {t \in Calls : row[t].status = status}

-----------------------------------------------------------------------------
(* The endpoints *)

\* The table counts its rows.
Insert(t, state) ==
  /\ call[t] = "none"
  /\ \A u \in Calls : u < t => call[u] # "none"
  /\ row' = [row EXCEPT ![t] = [status |-> "pending", result |-> "none"]]
  /\ call' = [call EXCEPT ![t] = state]
  /\ UNCHANGED <<hand, tier, mishaps, starts>>

ChatCompletions(t) == Insert(t, "waiting")

GenerateImages(t) == Insert(t, "waiting")

\* These three insert a task whose result no request will read.
TranscribeAudio(t) == Insert(t, "placeholder")

TranslateAudio(t) == Insert(t, "placeholder")

CreateEmbeddings(t) == Insert(t, "placeholder")

\* The condition on which wait_for_task returns the task.
Ends(t) == row[t].status \in {"completed", "failed"}

\* What the two endpoints make of a task that ended.
ReplyText(t) ==
  IF row[t].status = "completed" /\ row[t].result # "none" THEN row[t].result ELSE "placeholder"

\* wait_for_task found the task ended.
Reply(t) ==
  /\ call[t] = "waiting"
  /\ Ends(t)
  /\ call' = [call EXCEPT ![t] = ReplyText(t)]
  /\ UNCHANGED <<row, hand, tier, mishaps, starts>>

\* The deadline passes (30 s for chat, 60 s for images) before a poll finds the task ended.
TimeOut(t) ==
  /\ call[t] = "waiting"
  /\ call' = [call EXCEPT ![t] = "placeholder"]
  /\ UNCHANGED <<row, hand, tier, mishaps, starts>>

-----------------------------------------------------------------------------
(* The simple worker *)

\* The row after an UPDATE that sets the columns in which new differs from what was read.
Updated(now, seen, new) == [c \in DOMAIN now |-> IF new[c] = seen[c] THEN now[c] ELSE new[c]]

Resting == [list |-> <<>>, doing |-> "nothing", seen |-> NoTask]

\* Pending rows in the order of priority and id.
Pending == SetToSortSeq(Rows("pending"), <)

Fetch(x) ==
  LET size == IF Len(Pending) < FetchLimit THEN Len(Pending) ELSE FetchLimit IN
  /\ hand[x].doing = "nothing"
  /\ Pending # <<>>
  /\ hand' = [hand EXCEPT ![x] = [list |-> SubSeq(Pending, 1, size), doing |-> "list", seen |-> NoTask]]
  /\ UNCHANGED <<row, call, tier, mishaps, starts>>

\* status = "processing", by id.
MarkProcessing(x) ==
  LET t == Head(hand[x].list) IN
  /\ hand[x].doing = "list"
  /\ row' = [row EXCEPT ![t].status = "processing"]
  /\ hand' = [hand EXCEPT ![x].doing = "marked"]
  /\ starts' = [starts EXCEPT ![t] = IF @ = 2 THEN 2 ELSE @ + 1]
  /\ UNCHANGED <<call, tier, mishaps>>

\* process_task: the first attribute it looks at reads the expired row again.
Reload(x) ==
  /\ hand[x].doing = "marked"
  /\ hand' = [hand EXCEPT ![x] = [list |-> @.list, doing |-> "task", seen |-> row[Head(@.list)]]]
  /\ UNCHANGED <<row, call, tier, mishaps, starts>>

\* The hand after the first task of its list.
AfterTask(x) ==
  LET rest == Tail(hand[x].list) IN
  IF rest = <<>> THEN Resting
  ELSE [list |-> rest, doing |-> "list", seen |-> NoTask]

\* What a task becomes: completed with the result, or failed with the text of the exception.
Ended(status) ==
  [status |-> status, result |-> IF status = "completed" THEN "answer" ELSE "error"]

\* Mutant: an exception of process_task leaves the row as it is.
MarkEndedIfFine(x, status) ==
  LET t == Head(hand[x].list) IN
  /\ hand[x].doing = "task"
  /\ row' = IF status = "completed"
            THEN [row EXCEPT ![t] = Updated(@, hand[x].seen, Ended(status))] ELSE row
  /\ hand' = [hand EXCEPT ![x] = AfterTask(x)]
  /\ UNCHANGED <<call, tier, mishaps, starts>>

\* Only what differs from the row process_task read is written.
MarkEnded(x, status) ==
  LET t == Head(hand[x].list) IN
  /\ hand[x].doing = "task"
  /\ row' = [row EXCEPT ![t] = Updated(@, hand[x].seen, Ended(status))]
  /\ hand' = [hand EXCEPT ![x] = AfterTask(x)]
  /\ UNCHANGED <<call, tier, mishaps, starts>>

\* The worker dies, or a commit fails and the session refuses the one in the handler too, so
\* that the outer handler drops the list: a row being processed stays in processing.
Mishap(x) ==
  /\ mishaps < MaxMishaps
  /\ hand[x] # Resting
  /\ hand' = [hand EXCEPT ![x] = Resting]
  /\ mishaps' = mishaps + 1
  /\ UNCHANGED <<row, call, tier, starts>>

-----------------------------------------------------------------------------
(* The two-tier pipeline on the same rows *)

\* What get_next_task, submit_result, validate_task, expire_stale_leases and the ban of the
\* executor make of a row they read.
TierRows(seen) ==
  LET To(status)   == [seen EXCEPT !.status = status]
      Released     == [status |-> "pending", result |-> "none"]
  IN
  CASE seen.status = "pending"     -> {To("assigned")}
    [] seen.status = "assigned"    ->
         {[status |-> "submitted_A", result |-> "submission"], To("pending"), Released}
    [] seen.status = "submitted_A" -> {To("validating"), Released}
    [] seen.status = "validating"  -> {To("done"), To("rejected"), To("submitted_A")}
    [] OTHER                       -> {}

NoVisit == [task |-> 0, seen |-> NoTask, new |-> NoTask]

TierRead(v, t) ==
  /\ tier[v] = NoVisit
  /\ \E new \in TierRows(row[t]) : tier' = [tier EXCEPT ![v] = [task |-> t, seen |-> row[t], new |-> new]]
  /\ UNCHANGED <<row, call, hand, mishaps, starts>>

\* The text a worker submits may be another than the one in the row it read.
TierCommit(v) ==
  LET r       == tier[v]
      written == Updated(row[r.task], r.seen, r.new)
  IN
  /\ r # NoVisit
  /\ \/ row' = [row EXCEPT ![r.task] = written]
     \/ r.seen.status = "assigned" /\ r.new.status = "submitted_A"
        /\ row' = [row EXCEPT ![r.task] = [written EXCEPT !.result = "submission"]]
  /\ tier' = [tier EXCEPT ![v] = NoVisit]
  /\ UNCHANGED <<call, hand, mishaps, starts>>

-----------------------------------------------------------------------------

ApiInit ==
  /\ row = [t \in Calls |-> NoTask]
  /\ call = [t \in Calls |-> "none"]
  /\ hand = [x \in Simple |-> Resting]
  /\ tier = [v \in Visits |-> NoVisit]
  /\ mishaps = 0
  /\ starts = [t \in Calls |-> 0]

SimpleStep(x) ==
  \/ Fetch(x) \/ MarkProcessing(x) \/ Reload(x)
  \/ \E status \in {"completed", "failed"} : MarkEnded(x, status)

ApiNext ==
  \/ \E t \in Calls :
       \/ ChatCompletions(t) \/ GenerateImages(t)
       \/ TranscribeAudio(t) \/ TranslateAudio(t) \/ CreateEmbeddings(t)
       \/ Reply(t) \/ TimeOut(t)
  \/ \E x \in Simple : SimpleStep(x) \/ Mishap(x)
  \/ \E v \in Visits : (\E t \in Twins : TierRead(v, t)) \/ TierCommit(v)

ApiSpec == ApiInit /\ [][ApiNext]_apiVars

-----------------------------------------------------------------------------
(* What must hold *)

Statuses ==
  {"none", "pending", "processing", "completed", "failed",
   "assigned", "submitted_A", "validating", "done", "rejected"}

Results == {"none", "answer", "error", "submission"}

TaskRows == [status : Statuses, result : Results]

Requests == [task : Twins, seen : TaskRows, new : TaskRows] \cup {NoVisit}

ApiTypeOK ==
  /\ row \in [Calls -> TaskRows]
  /\ call \in [Calls -> {"none", "waiting", "placeholder", "answer", "error", "submission"}]
  /\ \A x \in Simple : /\ hand[x].doing \in {"nothing", "list", "marked", "task"}
                       /\ hand[x].doing = "nothing" => hand[x] = Resting
  /\ tier \in [Visits -> Requests]
  /\ mishaps \in 0 .. MaxMishaps
  /\ starts \in [Calls -> 0 .. 2]

(***************************************************************************)
(* A client is given a result no simple worker computed, a submission that *)
(* nobody has validated or the text of an exception, only when two simple  *)
(* workers took up its row: then one of them may leave the result of the   *)
(* other where it was when it read the row, and somebody else overwrites   *)
(* it.                                                                     *)
(***************************************************************************)
RepliesAreAnswers ==
  \A t \in Calls : call[t] \in {"error", "submission"} => starts[t] = 2

\* A simple worker is at a row it marked, and has not read that another one marked it otherwise.
Serves(x, t) ==
  /\ hand[x].doing \in {"marked", "task"} /\ Head(hand[x].list) = t
  /\ hand[x].doing = "task" => hand[x].seen.status = "processing"

\* A row in processing has a simple worker that will write its end, as long as none of them
\* fails, although several may have read it in their lists and two-tier requests that read it
\* earlier commit in between.
ProcessingHasOwner ==
  mishaps = 0 => \A t \in Rows("processing") : \E x \in Simple : Serves(x, t)

\* The requests and the rows of the tasks table agree.
ApiInv == ApiTypeOK /\ RepliesAreAnswers /\ ProcessingHasOwner

=============================================================================
