-------------------------- MODULE JobPipelineProofs --------------------------
(***************************************************************************)
(* The safety properties of JobSafety hold for any number of jobs, chunks, *)
(* processes and mishaps.                                                  *)
(***************************************************************************)
EXTENDS JobSafety, FiniteSetTheorems, SequenceTheorems, TLAPS

-----------------------------------------------------------------------------
(* The inductive invariant *)

Tags == Categories \cup {"none"}

ConsumerState ==
  [step : ConsumerSteps, from : Topics \cup {"none"}, record : Record \cup {NoRecord}]

CountedRow ==
  [status : {"absent", "running", "done", "cancelled"}, total : 0..MaxChunks, completed : Nat]

\* JobTypeOK without the bound of the counter.
Types ==
  /\ request \in [Jobs -> Request]
  /\ job \in [Jobs -> CountedRow]
  /\ results \in [Jobs -> SUBSET Chunks]
  /\ events \in [Jobs -> Seq(EventTypes)]
  /\ watcher \in [Jobs -> Nat]
  /\ begun \subseteq Topics
  /\ consumer \in [Consumers -> ConsumerState]
  /\ retried \in [Jobs -> [Chunks -> Nat]]
  /\ givenUp \in [Jobs -> SUBSET Chunks]
  /\ lost \in [Jobs -> SUBSET Chunks]
  /\ mishaps \in 0..MaxMishaps

QueuesFinite ==
  queue \in [Queues -> SUBSET Record] /\ \A q \in Queues : IsFiniteSet(queue[q])

ReducerSteps == {"count", "look", "finish", "summary", "announce"}

\* A process that does something has a record of a topic in hand.
HandsOK ==
  \A k \in Consumers :
    /\ consumer[k].record = NoRecord <=> consumer[k].step \in {"down", "idle"}
    /\ consumer[k].record # NoRecord => consumer[k].from \in Topics
    /\ consumer[k].step \in ReducerSteps => k \in Reducers

TypeInv == Types /\ QueuesFinite /\ HandsOK

-----------------------------------------------------------------------------
(* Sending *)

LEMMA NewRecordIsNew ==
  ASSUME NEW q, IsFiniteSet(q), NEW j, NEW c, NEW e
  PROVE  \E n \in Nat : NewRecord(q, j, c, e) = Numbered(j, c, e, n) /\ Numbered(j, c, e, n) \notin q
<1> DEFINE m == Cardinality(q)
<1>1. m \in Nat /\ IsFiniteSet(0..m) /\ Cardinality(0..m) = m + 1
  BY FS_CardinalityType, FS_Interval
<1>2. \E n \in 0..m : Numbered(j, c, e, n) \notin q
  <2>1. SUFFICES ASSUME \A n \in 0..m : Numbered(j, c, e, n) \in q PROVE FALSE
    OBVIOUS
  <2> DEFINE f == [n \in 0..m |-> Numbered(j, c, e, n)]
  <2>2. f \in [0..m -> q]
    BY <2>1
  <2>3. \E x, y \in 0..m : x # y /\ f[x] = f[y]
    <3> HIDE DEF f, m
    <3> QED BY <1>1, <2>2, FS_PigeonHole DEF m
  <2>4. QED BY <2>3 DEF Numbered
<1> DEFINE chosen == CHOOSE n \in 0..Cardinality(q) : Numbered(j, c, e, n) \notin q
<1>3. chosen \in 0..m /\ Numbered(j, c, e, chosen) \notin q
  BY <1>2, Zenon
<1>4. NewRecord(q, j, c, e) = Numbered(j, c, e, chosen)
  BY Zenon DEF NewRecord
<1> HIDE DEF chosen, m
<1>5. QED BY <1>1, <1>3, <1>4

LEMMA SentAdds ==
  ASSUME NEW queues \in [Queues -> SUBSET Record], NEW q \in Queues, IsFiniteSet(queues[q]),
         NEW j \in Jobs, NEW c \in Chunks, NEW e \in Tags
  PROVE  \E new \in Record \ queues[q] :
           /\ new.job = j /\ new.chunk = c
           /\ Sent(queues, q, j, c, e) = [queues EXCEPT ![q] = queues[q] \cup {new}]
<1>1. PICK n \in Nat : NewRecord(queues[q], j, c, e) = Numbered(j, c, e, n)
                       /\ Numbered(j, c, e, n) \notin queues[q]
  BY NewRecordIsNew
<1>2. Numbered(j, c, e, n) \in Record /\ Numbered(j, c, e, n).job = j /\ Numbered(j, c, e, n).chunk = c
  BY DEF Numbered, Record, Tags
<1>3. QED BY <1>1, <1>2 DEF Sent

LEMMA InputsAreTopics == ASSUME NEW k \in Consumers PROVE Inputs(k) \subseteq Topics
  BY DEF Inputs, Consumers, Topics

-----------------------------------------------------------------------------
(* Types *)

LEMMA InHandTypes ==
  ASSUME TypeInv, NEW k \in Consumers, NEW q, NEW r, Receives(k, q, r),
         NEW step \in {"commit", "count", "look"}, InHand(k, q, r, step),
         step = "commit" \/ k \in Reducers
  PROVE  consumer' \in [Consumers -> ConsumerState] /\ HandsOK' /\ r \in Record /\ q \in Topics
<1>1. q \in Topics /\ q \in Queues /\ r \in Record
  BY InputsAreTopics DEF Receives, TypeInv, QueuesFinite, Queues
<1>2. consumer' \in [Consumers -> ConsumerState]
  BY <1>1 DEF InHand, TypeInv, Types, ConsumerState, ConsumerSteps
<1>3. HandsOK'
  BY <1>1, JobAssumption DEF InHand, TypeInv, Types, ConsumerState, HandsOK, ReducerSteps
<1>4. QED BY <1>1, <1>2, <1>3

LEMMA ContinueTypes ==
  ASSUME TypeInv, NEW k \in Consumers, NEW step \in ReducerSteps \cup {"commit"},
         consumer[k].step \in ReducerSteps, Continue(k, step)
  PROVE  consumer' \in [Consumers -> ConsumerState] /\ HandsOK'
  BY DEF Continue, TypeInv, Types, ConsumerState, ConsumerSteps, HandsOK, ReducerSteps

LEMMA RestingTypes ==
  ASSUME TypeInv, NEW k \in Consumers, NEW step \in {"down", "idle"},
         consumer' = [consumer EXCEPT ![k] = Resting(step)]
  PROVE  consumer' \in [Consumers -> ConsumerState] /\ HandsOK'
  BY DEF Resting, TypeInv, Types, ConsumerState, ConsumerSteps, HandsOK, ReducerSteps

LEMMA LostTypes ==
  ASSUME Types, NEW j \in Jobs, NEW c \in Chunks,
         lost' = lost \/ lost' = [lost EXCEPT ![j] = @ \cup {c}]
  PROVE  lost' \in [Jobs -> SUBSET Chunks]
<1>1. lost \in [Jobs -> SUBSET Chunks] /\ lost[j] \cup {c} \in SUBSET Chunks
  BY DEF Types
<1>2. QED BY <1>1

LEMMA SentTypes ==
  ASSUME Types, QueuesFinite, NEW q \in Queues, NEW j \in Jobs, NEW c \in Chunks, NEW e \in Tags,
         Send(queue, q, j, c, e)
  PROVE  QueuesFinite' /\ lost' \in [Jobs -> SUBSET Chunks]
<1>1. lost' \in [Jobs -> SUBSET Chunks]
  BY LostTypes DEF Send
<1>2. CASE queue' = Sent(queue, q, j, c, e)
  <2>1. PICK new \in Record : queue' = [queue EXCEPT ![q] = queue[q] \cup {new}]
    BY <1>2, SentAdds DEF QueuesFinite
  <2>2. QED BY <1>1, <2>1, FS_AddElement DEF QueuesFinite
<1>3. CASE queue' = queue
  BY <1>1, <1>3 DEF QueuesFinite
<1>4. QED BY <1>2, <1>3 DEF Send

LEMMA FewerTypes ==
  ASSUME QueuesFinite, queue' \in [Queues -> SUBSET Record], \A q \in Queues : queue'[q] \subseteq queue[q]
  PROVE  QueuesFinite'
  BY FS_Subset DEF QueuesFinite

LEMMA GiveUpTypes ==
  ASSUME Types, NEW records \in SUBSET Record, GiveUp(records)
  PROVE  givenUp' \in [Jobs -> SUBSET Chunks] /\ lost' \in [Jobs -> SUBSET Chunks]
  BY DEF GiveUp, With, Types, Record

LEMMA LoseTypes ==
  ASSUME Types, NEW records \in SUBSET Record, Lose(records)
  PROVE  givenUp' \in [Jobs -> SUBSET Chunks] /\ lost' \in [Jobs -> SUBSET Chunks]
  BY DEF Lose, With, Types, Record

LEMMA EventAppended ==
  ASSUME Types, NEW j \in Jobs, NEW event \in EventTypes, events' = [events EXCEPT ![j] = Append(@, event)]
  PROVE  events' \in [Jobs -> Seq(EventTypes)]
<1>1. events[j] \in Seq(EventTypes)
  BY DEF Types
<1>2. Append(events[j], event) \in Seq(EventTypes)
  BY <1>1, AppendProperties
<1>3. QED BY <1>2 DEF Types

LEMMA StepTypes ==
  ASSUME Types, NEW j \in Jobs,
         NEW step \in {"none", "created", "sending", "answered", "cancelling", "failed"},
         \/ request' = [request EXCEPT ![j].step = step]
         \/ request' = [request EXCEPT ![j].step = step, ![j].unsent = {}]
  PROVE  request' \in [Jobs -> Request]
<1>1. request[j] \in Request
  BY DEF Types
<1>2. /\ [request[j] EXCEPT !.step = step] \in Request
      /\ [request[j] EXCEPT !.step = step, !.unsent = {}] \in Request
  BY <1>1 DEF Request
<1>3. CASE request' = [request EXCEPT ![j] = [request[j] EXCEPT !.step = step]]
  BY <1>2, <1>3 DEF Types
<1>4. CASE request' = [request EXCEPT ![j] = [request[j] EXCEPT !.step = step, !.unsent = {}]]
  BY <1>2, <1>4 DEF Types
<1>5. request \in [Jobs -> Request]
  BY DEF Types
<1>6. QED BY <1>3, <1>4, <1>5

LEMMA RequestTypes ==
  ASSUME TypeInv, NEW j \in Jobs,
         Submit(j) \/ RecordCreated(j) \/ Answer(j) \/ RecordCancelled(j) \/ RequestFails(j)
           \/ CancelJob(j) \/ Poll(j)
  PROVE  TypeInv'
<1> USE JobAssumption DEF TypeInv, Types, CountedRow, apiVars, tables, kafka, history
<1>1. CASE Submit(j)
  <2>1. PICK total \in 0..MaxChunks, large \in 0..MaxChunks : CreateJob(j, request[j].type, total, large)
    BY <1>1 DEF Submit
  <2>2. 0..total - 1 \subseteq Chunks
    BY DEF Chunks
  <2>3. request' \in [Jobs -> Request]
    BY <2>1, <2>2 DEF CreateJob, Request
  <2>4. Types'
    BY <2>1, <2>3 DEF CreateJob
  <2>5. QED BY <2>1, <2>4 DEF CreateJob, QueuesFinite, HandsOK
<1>2. CASE RecordCreated(j) \/ RecordCancelled(j)
  <2>1. events' \in [Jobs -> Seq(EventTypes)]
    BY <1>2, EventAppended DEF RecordCreated, RecordCancelled, EventTypes
  <2>2. request' \in [Jobs -> Request]
    BY <1>2, StepTypes DEF RecordCreated, RecordCancelled
  <2>3. QED BY <1>2, <2>1, <2>2 DEF RecordCreated, RecordCancelled, QueuesFinite, HandsOK
<1>3. CASE Answer(j)
  BY <1>3 DEF Answer, Request, QueuesFinite, HandsOK
<1>4. CASE RequestFails(j)
  <2>1. request' \in [Jobs -> Request]
    BY <1>4, StepTypes DEF RequestFails
  <2>2. givenUp' \in [Jobs -> SUBSET Chunks]
    BY <1>4 DEF RequestFails, Request
  <2>3. QED BY <1>4, <2>1, <2>2 DEF RequestFails, Mishap, QueuesFinite, HandsOK
<1>5. CASE CancelJob(j)
  BY <1>5 DEF CancelJob, Request, QueuesFinite, HandsOK
<1>6. CASE Poll(j)
  <2>1. watcher' \in [Jobs -> Nat]
    <3>1. Len(events[j]) \in Nat /\ DOMAIN events[j] = 1..Len(events[j])
      BY LenProperties
    <3>2. PICK n \in Nat : watcher' = [watcher EXCEPT ![j] = n]
      BY <1>6, <3>1 DEF Poll
    <3>3. QED BY <3>2
  <2>2. QED BY <1>6, <2>1 DEF Poll, QueuesFinite, HandsOK
<1>7. QED BY <1>1, <1>2, <1>3, <1>4, <1>5, <1>6

LEMMA SendTypes ==
  ASSUME TypeInv, NEW j \in Jobs, NEW c \in Chunks, SendChunk(j, c)
  PROVE  TypeInv'
<1>1. QueuesFinite' /\ lost' \in [Jobs -> SUBSET Chunks]
  BY SentTypes DEF SendChunk, TypeInv, Queues, Topics, Tags
<1>2. request' \in [Jobs -> Request]
  <2>1. request[j] \in Request /\ [request[j] EXCEPT !.unsent = @ \ {c}] \in Request
    BY DEF TypeInv, Types, Request
  <2>2. QED BY <2>1 DEF SendChunk, TypeInv, Types
<1>3. QED BY <1>1, <1>2 DEF SendChunk, TypeInv, Types, HandsOK, tables, history

LEMMA WorkTypes ==
  ASSUME TypeInv, NEW k \in Consumers, NEW r, Route(k, r) \/ Work(k, r)
  PROVE  TypeInv'
<1>1. PICK q : /\ Receives(k, q, r) /\ InHand(k, q, r, "commit")
               /\ UNCHANGED <<apiVars, tables, begun, retried>>
  <2> DEFINE Handed(q) == /\ Receives(k, q, r) /\ InHand(k, q, r, "commit")
                         /\ UNCHANGED <<apiVars, tables, begun, retried>>
  <2>1. CASE Route(k, r)
    <3>1. Handed("tasks")
      BY <2>1 DEF Route, history
    <3>2. QED BY <3>1
  <2>2. CASE SkipUnsupported(k, r)
    <3>1. Handed("cpu")
      BY <2>2 DEF SkipUnsupported, kafka
    <3>2. QED BY <3>1
  <2>3. CASE Succeed(k, r) \/ Fail(k, r)
    <3>1. Handed(WorkQueue(k))
      BY <2>3 DEF Succeed, Fail, history
    <3>2. QED BY <3>1
  <2>5. CASE FailUnreported(k, r)
    <3>1. Handed("gpu")
      BY <2>5 DEF FailUnreported, kafka
    <3>2. QED BY <3>1
  <2>6. QED BY <2>1, <2>2, <2>3, <2>5 DEF Work
<1>2. consumer' \in [Consumers -> ConsumerState] /\ HandsOK' /\ r \in Record /\ q \in Topics
  BY <1>1, InHandTypes
<1>3. QueuesFinite' /\ lost' \in [Jobs -> SUBSET Chunks]
  <2>1. ASSUME UNCHANGED queue, GiveUp({r})
        PROVE  QueuesFinite' /\ lost' \in [Jobs -> SUBSET Chunks]
    <3>1. {r} \in SUBSET Record
      BY <1>2
    <3>2. QED BY <2>1, <3>1, GiveUpTypes DEF TypeInv, QueuesFinite
  <2>2. ASSUME NEW q2 \in Queues, NEW e \in Tags, Send(queue, q2, r.job, r.chunk, e)
        PROVE  QueuesFinite' /\ lost' \in [Jobs -> SUBSET Chunks]
    BY <1>2, <2>2, SentTypes DEF TypeInv, Record
  <2>3. CASE Route(k, r)
    BY <2>2, <2>3 DEF Route, Target, Queues, Topics, Tags
  <2>4. CASE SkipUnsupported(k, r) \/ FailUnreported(k, r)
    BY <2>1, <2>4 DEF SkipUnsupported, FailUnreported, kafka
  <2>5. CASE Succeed(k, r)
    BY <2>2, <2>5 DEF Succeed, Queues, Topics, Tags
  <2>6. CASE Fail(k, r)
    BY <2>2, <2>6 DEF Fail, LetterQueue, Queues, Topics, Tags
  <2>7. QED BY <2>3, <2>4, <2>5, <2>6 DEF Work
<1>4. givenUp' \in [Jobs -> SUBSET Chunks] /\ mishaps' \in 0..MaxMishaps
  <2>1. {r} \in SUBSET Record
    BY <1>2
  <2>2. GiveUp({r}) => givenUp' \in [Jobs -> SUBSET Chunks]
    BY <2>1, GiveUpTypes DEF TypeInv
  <2>3. givenUp' \in [Jobs -> SUBSET Chunks]
    BY <2>2 DEF Route, Work, SkipUnsupported, Succeed, Fail, FailUnreported, history, TypeInv, Types
  <2>4. mishaps' \in 0..MaxMishaps
    BY JobAssumption DEF Route, Work, SkipUnsupported, Succeed, Fail, FailUnreported, Mishap, TypeInv, Types
  <2>5. QED BY <2>3, <2>4
<1>5. QED BY <1>1, <1>2, <1>3, <1>4 DEF TypeInv, Types, apiVars, tables

LEMMA ReducerTypes ==
  ASSUME TypeInv, NEW k \in Consumers,
         (k \in Reducers /\ \E r : Store(k, r))
           \/ Count(k) \/ Look(k) \/ Finish(k) \/ Summarise(k) \/ Announce(k)
  PROVE  TypeInv'
<1> USE DEF apiVars, tables, kafka, history
<1>1. ASSUME k \in Reducers, NEW r, Store(k, r) PROVE TypeInv'
  <2>1. consumer' \in [Consumers -> ConsumerState] /\ HandsOK' /\ r \in Record
    BY <1>1, InHandTypes DEF Store
  <2>2. results' \in [Jobs -> SUBSET Chunks]
    BY <1>1, <2>1 DEF Store, TypeInv, Types, Record
  <2>3. QED BY <1>1, <2>1, <2>2 DEF Store, TypeInv, Types, QueuesFinite
<1>2. consumer[k].step \in ReducerSteps => consumer[k].record \in Record
  BY JobAssumption DEF TypeInv, Types, HandsOK, ConsumerState, ReducerSteps
<1>3. ASSUME NEW step \in ReducerSteps \cup {"commit"}, consumer[k].step \in ReducerSteps, Continue(k, step)
      PROVE  consumer' \in [Consumers -> ConsumerState] /\ HandsOK'
  BY <1>3, ContinueTypes
<1>4. CASE Count(k)
  <2>1. consumer' \in [Consumers -> ConsumerState] /\ HandsOK'
    BY <1>3, <1>4 DEF Count, ReducerSteps
  <2>2. job' \in [Jobs -> CountedRow]
    <3>1. consumer[k].record.job \in Jobs
      BY <1>2, <1>4 DEF Count, ReducerSteps, Record
    <3>2. PICK j \in Jobs : job' = job \/ job' = [job EXCEPT ![j].completed = @ + 1]
      BY <1>4, <3>1 DEF Count
    <3>3. job[j] \in CountedRow
      BY DEF TypeInv, Types
    <3>4. [job[j] EXCEPT !.completed = @ + 1] \in CountedRow
      BY <3>3 DEF CountedRow
    <3>5. QED BY <3>2, <3>4 DEF TypeInv, Types
  <2>3. QED BY <1>4, <2>1, <2>2 DEF Count, TypeInv, Types, QueuesFinite
<1>5. CASE Look(k)
  <2>1. consumer' \in [Consumers -> ConsumerState] /\ HandsOK'
    BY <1>3, <1>5 DEF Look, ReducerSteps
  <2>2. QED BY <1>5, <2>1 DEF Look, TypeInv, Types, QueuesFinite
<1>6. CASE Finish(k)
  <2>1. consumer' \in [Consumers -> ConsumerState] /\ HandsOK'
    BY <1>3, <1>6 DEF Finish, ReducerSteps
  <2>2. job' \in [Jobs -> CountedRow]
    <3>1. consumer[k].record.job \in Jobs
      BY <1>2, <1>6 DEF Finish, ReducerSteps, Record
    <3>2. PICK j \in Jobs : job' = job \/ job' = [job EXCEPT ![j].status = "done"]
      BY <1>6, <3>1 DEF Finish
    <3>3. job[j] \in CountedRow
      BY DEF TypeInv, Types
    <3>4. [job[j] EXCEPT !.status = "done"] \in CountedRow
      BY <3>3 DEF CountedRow
    <3>5. QED BY <3>2, <3>4 DEF TypeInv, Types
  <2>3. QED BY <1>6, <2>1, <2>2 DEF Finish, TypeInv, Types, QueuesFinite
<1>7. CASE Summarise(k)
  <2>1. consumer' \in [Consumers -> ConsumerState] /\ HandsOK'
    BY <1>3, <1>7, RestingTypes DEF Summarise, ReducerSteps
  <2>2. QED BY <1>7, <2>1 DEF Summarise, TypeInv, Types, QueuesFinite
<1>8. CASE Announce(k)
  <2>1. consumer' \in [Consumers -> ConsumerState] /\ HandsOK'
    BY <1>3, <1>8 DEF Announce, ReducerSteps
  <2>2. events' \in [Jobs -> Seq(EventTypes)]
    BY <1>2, <1>8, EventAppended DEF Announce, EventTypes, TypeInv, Record, ReducerSteps
  <2>3. QED BY <1>8, <2>1, <2>2 DEF Announce, TypeInv, Types, QueuesFinite
<1>9. QED BY <1>1, <1>4, <1>5, <1>6, <1>7, <1>8

LEMMA LetterTypes ==
  ASSUME TypeInv, NEW k \in Consumers, NEW q, NEW r, ProcessLetter(k, q, r)
  PROVE  TypeInv'
<1>1. consumer' \in [Consumers -> ConsumerState] /\ HandsOK' /\ r \in Record
  BY InHandTypes DEF ProcessLetter
<1>2. {r} \in SUBSET Record
  BY <1>1
<1>3. givenUp' \in [Jobs -> SUBSET Chunks] /\ lost' \in [Jobs -> SUBSET Chunks]
  BY <1>2, GiveUpTypes DEF ProcessLetter, TypeInv, Types
<1>4. RetryList(q) \in Queues
  BY DEF RetryList, Queues, RetryLists
<1>5. QueuesFinite'
  <2>1. CASE UNCHANGED queue
    BY <2>1 DEF TypeInv, QueuesFinite
  <2>2. CASE queue' = Sent(queue, RetryList(q), r.job, r.chunk, r.error)
    <3>1. PICK new \in Record : queue' = [queue EXCEPT ![RetryList(q)] = @ \cup {new}]
      <4>1. PICK target \in Queues, j \in Jobs, c \in Chunks, e \in Tags :
               target = RetryList(q) /\ j = r.job /\ c = r.chunk /\ e = r.error
        BY <1>1, <1>4 DEF Record, Tags
      <4>2. IsFiniteSet(queue[target]) /\ queue \in [Queues -> SUBSET Record]
        BY DEF TypeInv, QueuesFinite
      <4>3. PICK new \in Record :
               Sent(queue, target, j, c, e) = [queue EXCEPT ![target] = queue[target] \cup {new}]
        BY <4>2, SentAdds
      <4>4. QED BY <2>2, <4>1, <4>3
    <3>2. QED BY <1>4, <3>1, FS_AddElement DEF TypeInv, QueuesFinite
  <2>3. QED BY <2>1, <2>2 DEF ProcessLetter
<1>6. QED BY <1>1, <1>3, <1>5 DEF ProcessLetter, TypeInv, Types, apiVars, tables

LEMMA ProcessTypes ==
  ASSUME TypeInv, NEW k \in Consumers, Start(k) \/ Die(k) \/ Commit(k) \/ CommitRefused(k)
  PROVE  TypeInv'
<1> USE DEF apiVars, tables, history
<1>1. consumer[k].step = "commit" => consumer[k].record \in Record /\ consumer[k].from \in Topics
  BY JobAssumption DEF TypeInv, Types, HandsOK, ConsumerState
<1>2. consumer' \in [Consumers -> ConsumerState] /\ HandsOK'
  BY RestingTypes DEF Start, Die, Commit, CommitRefused
<1>3. \A records \in SUBSET Record :
        Lose(records) => givenUp' \in [Jobs -> SUBSET Chunks] /\ lost' \in [Jobs -> SUBSET Chunks]
  BY LoseTypes DEF TypeInv
<1>4. CASE Start(k)
  <2>1. Skipped(k) \in SUBSET Record
    BY InputsAreTopics DEF Skipped, TypeInv, QueuesFinite, Queues
  <2>2. QueuesFinite'
    BY <1>4, FewerTypes DEF Start, TypeInv, QueuesFinite
  <2>3. QED BY <1>2, <1>3, <1>4, <2>1, <2>2 DEF Start, TypeInv, Types
<1>5. CASE Die(k)
  <2>1. UNION {queue[q] : q \in RetryLists} \in SUBSET Record
    BY DEF TypeInv, QueuesFinite, Queues
  <2>2. givenUp' \in [Jobs -> SUBSET Chunks] /\ lost' \in [Jobs -> SUBSET Chunks]
    BY <1>3, <1>5, <2>1 DEF Die, TypeInv, Types
  <2>3. QueuesFinite'
    <3>1. CASE queue' = queue
      BY <3>1 DEF TypeInv, QueuesFinite
    <3>2. CASE queue' = [q \in Queues |-> IF q \in RetryLists THEN {} ELSE queue[q]]
      BY <3>2, FewerTypes DEF TypeInv, QueuesFinite
    <3>3. QED BY <1>5, <3>1, <3>2 DEF Die
  <2>4. mishaps' \in 0..MaxMishaps
    BY <1>5, JobAssumption DEF Die, Mishap, TypeInv, Types
  <2>5. QED BY <1>2, <1>5, <2>2, <2>3, <2>4 DEF Die, TypeInv, Types
<1>6. CASE Commit(k)
  <2>1. QueuesFinite'
    BY <1>1, <1>6, FewerTypes DEF Commit, TypeInv, QueuesFinite
  <2>2. begun' \subseteq Topics
    BY <1>6, InputsAreTopics DEF Commit, TypeInv, Types
  <2>3. QED BY <1>2, <1>6, <2>1, <2>2 DEF Commit, TypeInv, Types
<1>7. CASE CommitRefused(k)
  <2>1. PICK error \in Errors :
          Send(queue, LetterQueue(k), consumer[k].record.job, consumer[k].record.chunk, error)
    BY <1>7 DEF CommitRefused
  <2>2. LetterQueue(k) \in Queues /\ error \in Tags
    BY <2>1, JobAssumption DEF LetterQueue, Queues, Topics, Tags
  <2>3. PICK r \in Record : r = consumer[k].record
    BY <1>1, <1>7 DEF CommitRefused
  <2>4. QueuesFinite' /\ lost' \in [Jobs -> SUBSET Chunks]
    BY <2>1, <2>2, <2>3, SentTypes DEF TypeInv, Record
  <2>5. mishaps' \in 0..MaxMishaps
    BY <1>7, JobAssumption DEF CommitRefused, Mishap, TypeInv, Types
  <2>6. QED BY <1>2, <1>7, <2>4, <2>5 DEF CommitRefused, TypeInv, Types
<1>8. QED BY <1>4, <1>5, <1>6, <1>7

OffTheList(list, r) == [queue EXCEPT ![list] = @ \ {r}]

\* Once its entry is off the list, a retry is a message like any other.
LEMMA RetryAdds ==
  ASSUME QueuesFinite, NEW list \in RetryLists, NEW r \in queue[list],
         queue' = Sent(OffTheList(list, r), RetryTopic(list), r.job, r.chunk, "none")
  PROVE  \E new \in Record \ queue[RetryTopic(list)] :
           /\ new.job = r.job /\ new.chunk = r.chunk
           /\ queue' = [q \in Queues |-> IF q = list THEN queue[q] \ {r}
                                         ELSE IF q = RetryTopic(list) THEN queue[q] \cup {new}
                                         ELSE queue[q]]
<1>1. PICK target \in Queues, j \in Jobs, c \in Chunks, none \in Tags :
         target = RetryTopic(list) /\ j = r.job /\ c = r.chunk /\ none = "none"
  BY DEF Queues, Topics, RetryLists, RetryTopic, QueuesFinite, Record, Tags
<1>2. list \in Queues /\ target # list
  BY <1>1 DEF Queues, Topics, RetryLists, RetryTopic
<1>3. PICK rest \in [Queues -> SUBSET Record] : rest = [queue EXCEPT ![list] = @ \ {r}]
  BY DEF QueuesFinite
<1>4. IsFiniteSet(rest[target]) /\ rest[target] = queue[target]
  BY <1>2, <1>3 DEF QueuesFinite
<1>5. queue' = Sent(rest, target, j, c, none)
  BY <1>1, <1>3 DEF OffTheList
<1>6. PICK new \in Record \ rest[target] :
         new.job = j /\ new.chunk = c
         /\ Sent(rest, target, j, c, none) = [rest EXCEPT ![target] = rest[target] \cup {new}]
  BY <1>4, SentAdds
<1>7. \A q \in Queues : rest[q] = IF q = list THEN queue[q] \ {r} ELSE queue[q]
  BY <1>3 DEF QueuesFinite
<1>8. queue' = [q \in Queues |-> IF q = target THEN rest[q] \cup {new} ELSE rest[q]]
  BY <1>5, <1>6
<1>9. queue' = [q \in Queues |-> IF q = list THEN queue[q] \ {r}
                                ELSE IF q = target THEN queue[q] \cup {new}
                                ELSE queue[q]]
  BY <1>2, <1>7, <1>8
<1>10. new \in Record \ queue[target] /\ new.job = r.job /\ new.chunk = r.chunk
  BY <1>1, <1>4, <1>6
<1>11. QED BY <1>1, <1>9, <1>10

LEMMA RetryTypes ==
  ASSUME TypeInv, NEW list \in RetryLists, NEW r \in queue[list], Retry(list, r) \/ RetryFails(list, r)
  PROVE  TypeInv'
<1>1. list \in Queues /\ r \in Record
  BY DEF Queues, TypeInv, QueuesFinite
<1>2. CASE Retry(list, r)
  <2>1. Send(OffTheList(list, r), RetryTopic(list), r.job, r.chunk, "none")
    BY <1>2 DEF Retry, OffTheList
  <2>2. QueuesFinite'
    <3>1. CASE queue' = Sent(OffTheList(list, r), RetryTopic(list), r.job, r.chunk, "none")
      <4>1. PICK new \in Record :
               queue' = [q \in Queues |-> IF q = list THEN queue[q] \ {r}
                                          ELSE IF q = RetryTopic(list) THEN queue[q] \cup {new}
                                          ELSE queue[q]]
        BY <3>1, RetryAdds DEF TypeInv
      <4>2. QED BY <4>1, FS_AddElement, FS_Subset DEF TypeInv, QueuesFinite
    <3>2. CASE queue' = OffTheList(list, r)
      BY <1>1, <3>2, FewerTypes DEF OffTheList, TypeInv, QueuesFinite
    <3>3. QED BY <2>1, <3>1, <3>2 DEF Send
  <2>3. r.job \in Jobs /\ r.chunk \in Chunks
    BY <1>1 DEF Record
  <2>6. lost' \in [Jobs -> SUBSET Chunks]
    BY <2>1, <2>3, LostTypes DEF Send, TypeInv
  <2>4. retried' \in [Jobs -> [Chunks -> Nat]]
    <3>1. retried[r.job] \in [Chunks -> Nat] /\ retried[r.job][r.chunk] + 1 \in Nat
      BY <2>3 DEF TypeInv, Types
    <3>2. retried' = [retried EXCEPT ![r.job] =
                        [retried[r.job] EXCEPT ![r.chunk] = retried[r.job][r.chunk] + 1]]
      BY <1>2 DEF Retry
    <3>3. QED BY <3>1, <3>2 DEF TypeInv, Types
  <2>5. QED BY <1>2, <2>2, <2>4, <2>6 DEF Retry, TypeInv, Types, HandsOK, apiVars, tables
<1>3. CASE RetryFails(list, r)
  <2>1. QueuesFinite'
    BY <1>1, <1>3, FewerTypes DEF RetryFails, TypeInv, QueuesFinite
  <2>2. {r} \in SUBSET Record
    BY <1>1
  <2>3. givenUp' \in [Jobs -> SUBSET Chunks] /\ lost' \in [Jobs -> SUBSET Chunks]
    BY <1>3, <2>2, GiveUpTypes DEF RetryFails, TypeInv
  <2>4. QED BY <1>3, <2>1, <2>3 DEF RetryFails, TypeInv, Types, HandsOK, apiVars, tables
<1>4. QED BY <1>2, <1>3

LEMMA NextTypes ==
  ASSUME TypeInv, [Next]_jobVars
  PROVE  TypeInv'
<1>1. CASE UNCHANGED jobVars
  BY <1>1 DEF jobVars, TypeInv, Types, QueuesFinite, HandsOK
<1>2. ASSUME NEW j \in Jobs, Submit(j) \/ Serve(j) \/ RequestFails(j) \/ CancelJob(j) \/ Poll(j)
      PROVE  TypeInv'
  BY <1>2, RequestTypes, SendTypes DEF Serve
<1>3. ASSUME NEW k \in Consumers, Start(k) \/ Consume(k) \/ Die(k) \/ CommitRefused(k)
      PROVE  TypeInv'
  <2>1. CASE Start(k) \/ Die(k) \/ CommitRefused(k) \/ Commit(k)
    BY <2>1, ProcessTypes
  <2>2. CASE Count(k) \/ Look(k) \/ Finish(k) \/ Summarise(k) \/ Announce(k)
    BY <2>2, ReducerTypes
  <2>3. ASSUME NEW q \in Topics, NEW r \in queue[q],
               \/ k = "router" /\ Route(k, r)
               \/ Work(k, r)
               \/ k \in Reducers /\ Store(k, r)
               \/ k = "monitor" /\ ProcessLetter(k, q, r)
        PROVE  TypeInv'
    BY <2>3, WorkTypes, ReducerTypes, LetterTypes
  <2>4. QED BY <1>3, <2>1, <2>2, <2>3 DEF Consume
<1>4. ASSUME NEW list \in RetryLists, RetryLoop(list) \/ \E r \in queue[list] : RetryFails(list, r)
      PROVE  TypeInv'
  BY <1>4, RetryTypes DEF RetryLoop
<1>5. QED BY <1>1, <1>2, <1>3, <1>4 DEF Next

LEMMA InitTypes == Init => TypeInv
<1> SUFFICES ASSUME Init PROVE TypeInv
  OBVIOUS
<1>2. request \in [Jobs -> Request] /\ job \in [Jobs -> CountedRow]
  BY JobAssumption DEF Init, Request, CountedRow
<1>3. consumer \in [Consumers -> ConsumerState] /\ HandsOK
  BY JobAssumption DEF Init, Resting, ConsumerState, ConsumerSteps, HandsOK, ReducerSteps
<1>4. QueuesFinite
  BY FS_EmptySet DEF Init, QueuesFinite
<1>5. events \in [Jobs -> Seq(EventTypes)]
  BY DEF Init
<1>6. QED BY <1>2, <1>3, <1>4, <1>5, JobAssumption DEF Init, TypeInv, Types

-----------------------------------------------------------------------------
(* Delivery *)

Gone(j) == results[j] \cup givenUp[j] \cup lost[j]

Holds(k, q, r) == consumer[k].from = q /\ consumer[k].record = r

Free(q, r) == r \in queue[q] /\ \A k \in Consumers : ~Holds(k, q, r)

\* What has become of a chunk: a record that waits for a consumer, if nothing else.
Traced(j, c) ==
  \/ c \in request[j].unsent \cup Gone(j)
  \/ \E q \in Queues, r \in Record : Free(q, r) /\ r.job = j /\ r.chunk = c

AllTraced == \A j \in Jobs : \A c \in ChunksOf(j) : Traced(j, c)

\* A record in hand is still in its topic, or its chunk is stored, dropped or lost.
HeldAreKnown ==
  \A k \in Consumers, r \in Record :
    consumer[k].record = r => r \in queue[consumer[k].from] \/ r.chunk \in Gone(r.job)

HoldersDiffer ==
  \A k, l \in Consumers : \A q \in Topics, r \in Record : Holds(k, q, r) /\ Holds(l, q, r) => k = l

GoneGrow == \A j \in Jobs : Gone(j) \subseteq Gone(j)'

HandsShrink ==
  \A k \in Consumers :
    \/ consumer'[k].record = NoRecord
    \/ consumer'[k].record = consumer[k].record /\ consumer'[k].from = consumer[k].from

\* Records leave only when their chunks are stored, dropped or lost.
Drops ==
  /\ GoneGrow /\ HandsShrink
  /\ \A j \in Jobs : request[j].unsent \subseteq request'[j].unsent \cup Gone(j)'
  /\ \A q \in Queues :
       /\ queue'[q] \subseteq queue[q]
       /\ \A r \in queue[q] \ queue'[q] : r.chunk \in Gone(r.job)'

\* A record of chunk c is new; what it stands for may leave the API or a list.
Adds(j, c, q, new) ==
  /\ GoneGrow /\ HandsShrink
  /\ \A i \in Jobs : \A d \in request[i].unsent :
       d \in request'[i].unsent \cup Gone(i)' \/ (i = j /\ d = c)
  /\ new \notin queue[q] /\ new.job = j /\ new.chunk = c
  /\ queue'[q] = queue[q] \cup {new}
  /\ \A p \in Queues \ {q} :
       /\ queue'[p] \subseteq queue[p]
       /\ \A r \in queue[p] \ queue'[p] : p \in RetryLists /\ r.job = j /\ r.chunk = c

\* A record is taken in hand and answered by another, stored, dropped or lost.
Hands(k, q, r) ==
  /\ GoneGrow /\ Receives(k, q, r)
  /\ \A j \in Jobs : request'[j].unsent = request[j].unsent
  /\ \E step : InHand(k, q, r, step)
  /\ \A p \in Queues :
       /\ queue[p] \subseteq queue'[p]
       /\ \A new \in queue'[p] \ queue[p] : new.job = r.job /\ new.chunk = r.chunk
  /\ r.chunk \in Gone(r.job)' \/ \E p \in Queues : queue'[p] # queue[p]

Kept == \A j \in Jobs, c \in Chunks : Traced(j, c) => Traced(j, c)'

LEMMA DropsDelivery ==
  ASSUME TypeInv, TypeInv', HeldAreKnown, HoldersDiffer, Drops
  PROVE  HeldAreKnown' /\ HoldersDiffer' /\ Kept
<1>1. \A k \in Consumers, r \in Record : consumer'[k].record = r =>
         consumer[k].record = r /\ consumer[k].from = consumer'[k].from /\ consumer[k].from \in Queues
  BY JobAssumption DEF Drops, HandsShrink, TypeInv, HandsOK, Queues
<1>2. HeldAreKnown'
  <2>1. ASSUME NEW k \in Consumers, NEW r \in Record, consumer'[k].record = r
        PROVE  r \in queue'[consumer'[k].from] \/ r.chunk \in Gone(r.job)'
    <3>1. r \in queue[consumer[k].from] \/ r.chunk \in Gone(r.job)
      BY <1>1, <2>1 DEF HeldAreKnown
    <3>2. r.job \in Jobs
      BY DEF Record
    <3>3. QED BY <1>1, <2>1, <3>1, <3>2 DEF Drops, GoneGrow
  <2>2. QED BY <2>1 DEF HeldAreKnown
<1>3. HoldersDiffer'
  BY <1>1 DEF HoldersDiffer, Holds
<1>4. ASSUME NEW j \in Jobs, NEW c \in Chunks, Traced(j, c)
      PROVE  Traced(j, c)'
  <2>1. CASE c \in request[j].unsent \cup Gone(j)
    BY <2>1 DEF Drops, GoneGrow, Traced
  <2>2. ASSUME NEW q \in Queues, NEW r \in Record, Free(q, r), r.job = j, r.chunk = c
        PROVE  Traced(j, c)'
    <3>1. CASE r \in queue'[q]
      <4>1. Free(q, r)'
        BY <1>1, <2>2, <3>1 DEF Free, Holds
      <4>2. QED BY <2>2, <4>1 DEF Traced
    <3>2. CASE r \notin queue'[q]
      BY <2>2, <3>2 DEF Drops, Free, Traced
    <3>3. QED BY <3>1, <3>2
  <2>3. QED BY <1>4, <2>1, <2>2 DEF Traced
<1>5. QED BY <1>2, <1>3, <1>4 DEF Kept

LEMMA AddsDelivery ==
  ASSUME TypeInv, TypeInv', HeldAreKnown, HoldersDiffer,
         NEW i \in Jobs, NEW d \in Chunks, NEW q2 \in Queues, NEW new \in Record, Adds(i, d, q2, new)
  PROVE  HeldAreKnown' /\ HoldersDiffer' /\ Kept
<1>1. \A k \in Consumers, r \in Record : consumer'[k].record = r =>
         consumer[k].record = r /\ consumer[k].from = consumer'[k].from
           /\ consumer[k].from \in Queues \ RetryLists
  BY JobAssumption DEF Adds, HandsShrink, TypeInv, HandsOK, Queues, Topics, RetryLists
<1>2. HeldAreKnown'
  <2>1. ASSUME NEW k \in Consumers, NEW r \in Record, consumer'[k].record = r
        PROVE  r \in queue'[consumer'[k].from] \/ r.chunk \in Gone(r.job)'
    <3>1. r \in queue[consumer[k].from] \/ r.chunk \in Gone(r.job)
      BY <1>1, <2>1 DEF HeldAreKnown
    <3>2. r.job \in Jobs
      BY DEF Record
    <3>3. QED BY <1>1, <2>1, <3>1, <3>2 DEF Adds, GoneGrow
  <2>2. QED BY <2>1 DEF HeldAreKnown
<1>3. HoldersDiffer'
  BY <1>1 DEF HoldersDiffer, Holds
<1>4. Traced(i, d)'
  <2>1. CASE Free(q2, new)'
    BY <2>1 DEF Adds, Traced
  <2>2. CASE ~Free(q2, new)'
    <3>1. PICK k \in Consumers : consumer'[k].record = new /\ consumer'[k].from = q2
      BY <2>2 DEF Free, Holds, Adds
    <3>2. d \in Gone(i)
      BY <1>1, <3>1 DEF HeldAreKnown, Adds
    <3>3. QED BY <3>2 DEF Adds, GoneGrow, Traced
  <2>3. QED BY <2>1, <2>2
<1>5. ASSUME NEW j \in Jobs, NEW c \in Chunks, Traced(j, c), ~(i = j /\ d = c)
      PROVE  Traced(j, c)'
  <2>1. CASE c \in request[j].unsent \cup Gone(j)
    BY <1>5, <2>1 DEF Adds, GoneGrow, Traced
  <2>2. ASSUME NEW q \in Queues, NEW r \in Record, Free(q, r), r.job = j, r.chunk = c
        PROVE  Traced(j, c)'
    <3>1. r \in queue'[q]
      BY <1>5, <2>2 DEF Adds, Free
    <3>2. Free(q, r)'
      BY <1>1, <2>2, <3>1 DEF Free, Holds
    <3>3. QED BY <2>2, <3>2 DEF Traced
  <2>3. QED BY <1>5, <2>1, <2>2 DEF Traced
<1>6. QED BY <1>2, <1>3, <1>4, <1>5 DEF Kept

LEMMA HandsDelivery ==
  ASSUME TypeInv, TypeInv', HeldAreKnown, HoldersDiffer,
         NEW k \in Consumers, NEW q, NEW r, Hands(k, q, r)
  PROVE  HeldAreKnown' /\ HoldersDiffer' /\ Kept
<1>1. q \in Topics /\ q \in Queues /\ r \in Record /\ r \in queue[q] /\ r.job \in Jobs
  BY InputsAreTopics DEF Hands, Receives, TypeInv, QueuesFinite, Queues, Record
<1>2. /\ consumer'[k].from = q /\ consumer'[k].record = r
      /\ \A l \in Consumers \ {k} : consumer'[l] = consumer[l]
  BY DEF Hands, InHand, TypeInv, Types
<1>3. \A l \in Consumers : ~Holds(l, q, r)
  BY DEF Hands, Receives, Holds
<1>4. \A l \in Consumers, u \in Record : consumer[l].record = u => consumer[l].from \in Queues
  BY JobAssumption DEF TypeInv, HandsOK, Queues
<1>5. HeldAreKnown'
  <2>1. ASSUME NEW l \in Consumers, NEW u \in Record, consumer'[l].record = u
        PROVE  u \in queue'[consumer'[l].from] \/ u.chunk \in Gone(u.job)'
    <3>1. CASE l = k
      BY <1>1, <1>2, <2>1, <3>1 DEF Hands
    <3>2. CASE l # k
      <4>1. u \in queue[consumer[l].from] \/ u.chunk \in Gone(u.job)
        BY <1>2, <2>1, <3>2 DEF HeldAreKnown
      <4>2. u.job \in Jobs
        BY DEF Record
      <4>3. QED BY <1>2, <1>4, <2>1, <3>2, <4>1, <4>2 DEF Hands, GoneGrow
    <3>3. QED BY <3>1, <3>2
  <2>2. QED BY <2>1 DEF HeldAreKnown
<1>6. HoldersDiffer'
  BY <1>2, <1>3 DEF HoldersDiffer, Holds
<1>7. Traced(r.job, r.chunk)'
  <2>1. CASE r.chunk \in Gone(r.job)'
    BY <2>1 DEF Traced
  <2>2. CASE r.chunk \notin Gone(r.job)'
    <3>1. PICK p \in Queues : \E new \in Record : new \in queue'[p] \ queue[p]
      BY <2>2 DEF Hands, TypeInv, QueuesFinite
    <3>2. PICK new \in Record : new \in queue'[p] \ queue[p]
      BY <3>1
    <3>3. new.job = r.job /\ new.chunk = r.chunk
      BY <3>2 DEF Hands
    <3>4. Free(p, new)'
      <4>1. ASSUME NEW l \in Consumers, consumer'[l].from = p, consumer'[l].record = new
            PROVE  FALSE
        <5>1. l # k
          BY <1>1, <1>2, <3>2, <4>1
        <5>2. new.chunk \in Gone(new.job)
          BY <1>2, <3>2, <4>1, <5>1 DEF HeldAreKnown
        <5>3. QED BY <1>1, <2>2, <3>3, <5>2 DEF Hands, GoneGrow
      <4>2. QED BY <3>2, <4>1 DEF Free, Holds
    <3>5. QED BY <3>3, <3>4 DEF Traced
  <2>3. QED BY <2>1, <2>2
<1>8. ASSUME NEW j \in Jobs, NEW c \in Chunks, Traced(j, c)
      PROVE  Traced(j, c)'
  <2>1. CASE c \in request[j].unsent \cup Gone(j)
    BY <2>1 DEF Hands, GoneGrow, Traced
  <2>2. ASSUME NEW p \in Queues, NEW u \in Record, Free(p, u), u.job = j, u.chunk = c
        PROVE  Traced(j, c)'
    <3>1. CASE p = q /\ u = r
      BY <1>7, <2>2, <3>1
    <3>2. CASE ~(p = q /\ u = r)
      <4>1. Free(p, u)'
        BY <1>2, <2>2, <3>2 DEF Hands, Free, Holds
      <4>2. QED BY <2>2, <4>1 DEF Traced
    <3>3. QED BY <3>1, <3>2
  <2>3. QED BY <1>8, <2>1, <2>2 DEF Traced
<1>9. QED BY <1>5, <1>6, <1>8 DEF Kept

LEMMA CommitDelivery ==
  ASSUME TypeInv, TypeInv', HeldAreKnown, HoldersDiffer, NEW k \in Consumers, Commit(k)
  PROVE  HeldAreKnown' /\ HoldersDiffer' /\ Kept
<1>1. PICK q \in Topics, r \in Record : Holds(k, q, r)
  BY JobAssumption DEF Commit, Holds, TypeInv, HandsOK, Types, ConsumerState
<1>2. /\ consumer'[k].record = NoRecord /\ NoRecord \notin Record
      /\ \A l \in Consumers \ {k} : consumer'[l] = consumer[l]
  BY JobAssumption DEF Commit, Resting, TypeInv, Types
<1>3. q \in Queues /\ queue' = [queue EXCEPT ![q] = @ \ {r}]
  BY <1>1 DEF Commit, Holds, Queues
<1>4. UNCHANGED <<request, results, givenUp, lost>>
  BY DEF Commit, apiVars, tables, history
<1>5. \A l \in Consumers, u \in Record : consumer[l].record = u => consumer[l].from \in Topics
  BY JobAssumption DEF TypeInv, HandsOK
<1>6. ASSUME NEW p \in Queues, NEW u \in Record, u \in queue[p], ~(p = q /\ u = r)
      PROVE  u \in queue'[p]
  BY <1>3, <1>6 DEF TypeInv, QueuesFinite
<1>7. HeldAreKnown'
  <2>1. ASSUME NEW l \in Consumers, NEW u \in Record, consumer'[l].record = u
        PROVE  u \in queue'[consumer'[l].from] \/ u.chunk \in Gone(u.job)'
    <3>1. l # k /\ consumer[l].record = u /\ consumer'[l].from = consumer[l].from
      BY <1>2, <2>1
    <3>2. consumer[l].from \in Queues /\ ~(consumer[l].from = q /\ u = r)
      BY <1>1, <1>5, <3>1 DEF HoldersDiffer, Holds, Queues
    <3>3. u \in queue[consumer[l].from] \/ u.chunk \in Gone(u.job)
      BY <3>1 DEF HeldAreKnown
    <3>4. QED BY <1>4, <1>6, <3>1, <3>2, <3>3 DEF Gone
  <2>2. QED BY <2>1 DEF HeldAreKnown
<1>8. HoldersDiffer'
  BY <1>2 DEF HoldersDiffer, Holds
<1>9. ASSUME NEW p \in Queues, NEW u \in Record, Free(p, u)
      PROVE  Free(p, u)'
  BY <1>1, <1>2, <1>6, <1>9 DEF Free, Holds
<1>10. Kept
  BY <1>4, <1>9 DEF Kept, Traced, Gone
<1>11. QED BY <1>7, <1>8, <1>10

-----------------------------------------------------------------------------
(* The rows of jobs and the chunks they have *)

\* Whatever belongs to a chunk belongs to one of its job.
QueuesKnown == \A q \in Queues, r \in Record : r \in queue[q] => r.chunk \in ChunksOf(r.job)

HandsKnown == \A k \in Consumers, r \in Record : consumer[k].record = r => r.chunk \in ChunksOf(r.job)

RowsKnown ==
  \A j \in Jobs :
    /\ request[j].unsent \cup results[j] \subseteq ChunksOf(j)
    /\ request[j].step = "none" => job[j].status = "absent" /\ job[j].total = 0 /\ job[j].completed = 0

ChunksGrow == \A j \in Jobs : ChunksOf(j) \subseteq ChunksOf(j)'

LEMMA DropsKnown ==
  ASSUME TypeInv, TypeInv', QueuesKnown, HandsKnown, ChunksGrow, Drops
  PROVE  QueuesKnown' /\ HandsKnown'
<1>1. \A r \in Record : r.job \in Jobs
  BY DEF Record
<1>2. QED BY <1>1, JobAssumption DEF QueuesKnown, HandsKnown, ChunksGrow, Drops, HandsShrink

LEMMA AddsKnown ==
  ASSUME TypeInv, TypeInv', QueuesKnown, HandsKnown, ChunksGrow,
         NEW i \in Jobs, NEW d \in ChunksOf(i), NEW q2 \in Queues, NEW new \in Record, Adds(i, d, q2, new)
  PROVE  QueuesKnown' /\ HandsKnown'
<1>1. \A r \in Record : r.job \in Jobs
  BY DEF Record
<1>2. QED BY <1>1, JobAssumption DEF QueuesKnown, HandsKnown, ChunksGrow, Adds, HandsShrink

LEMMA HandsKnownStep ==
  ASSUME TypeInv, TypeInv', QueuesKnown, HandsKnown, ChunksGrow,
         NEW k \in Consumers, NEW q, NEW r, Hands(k, q, r)
  PROVE  QueuesKnown' /\ HandsKnown'
<1>1. q \in Queues /\ r \in Record /\ r \in queue[q] /\ \A u \in Record : u.job \in Jobs
  BY InputsAreTopics DEF Hands, Receives, TypeInv, QueuesFinite, Queues, Record
<1>2. /\ consumer'[k].record = r
      /\ \A l \in Consumers \ {k} : consumer'[l] = consumer[l]
  BY DEF Hands, InHand, TypeInv, Types
<1>3. r.chunk \in ChunksOf(r.job)'
  BY <1>1 DEF QueuesKnown, ChunksGrow
<1>4. QueuesKnown'
  BY <1>1, <1>3 DEF QueuesKnown, ChunksGrow, Hands
<1>5. HandsKnown'
  BY <1>1, <1>2, <1>3 DEF HandsKnown, ChunksGrow
<1>6. QED BY <1>4, <1>5

KnownInv == QueuesKnown /\ HandsKnown /\ RowsKnown

-----------------------------------------------------------------------------
(* What each action does to records and chunks *)

\* The new chunks of a job are unsent.
ChunksCome == \A j \in Jobs : ChunksOf(j)' \subseteq ChunksOf(j) \cup request'[j].unsent

RowsStep == ChunksGrow /\ ChunksCome /\ RowsKnown'

LEMMA LostGrows ==
  ASSUME Types, NEW j \in Jobs, NEW c \in Chunks, UNCHANGED <<results, givenUp>>,
         lost' = [lost EXCEPT ![j] = @ \cup {c}]
  PROVE  GoneGrow /\ c \in Gone(j)'
  BY DEF Types, GoneGrow, Gone

LEMMA SentQueue ==
  ASSUME TypeInv, NEW q \in Queues, NEW j \in Jobs, NEW c \in Chunks, NEW e \in Tags,
         queue' = Sent(queue, q, j, c, e)
  PROVE  \E new \in Record :
           /\ new.job = j /\ new.chunk = c /\ new \notin queue[q]
           /\ queue'[q] = queue[q] \cup {new}
           /\ \A p \in Queues \ {q} : queue'[p] = queue[p]
<1>1. PICK new \in Record \ queue[q] :
         /\ new.job = j /\ new.chunk = c
         /\ Sent(queue, q, j, c, e) = [queue EXCEPT ![q] = queue[q] \cup {new}]
  BY SentAdds DEF TypeInv, QueuesFinite
<1>2. QED BY <1>1 DEF TypeInv, QueuesFinite

LEMMA GiveUpGrows ==
  ASSUME Types, NEW records \in SUBSET Record, GiveUp(records) \/ Lose(records), UNCHANGED results
  PROVE  GoneGrow /\ \A r \in records : r.chunk \in Gone(r.job)'
  BY DEF Types, GiveUp, Lose, With, GoneGrow, Gone, Record

LEMMA SameRows ==
  ASSUME Types, RowsKnown, UNCHANGED <<request, results>>,
         \/ job' = job
         \/ \E j \in Jobs : /\ request[j].step # "none"
                            /\ \E n \in Nat : job' = [job EXCEPT ![j].completed = n]
         \/ \E j \in Jobs : /\ request[j].step # "none"
                            /\ job' = [job EXCEPT ![j].status = "done"]
  PROVE  RowsStep
<1>1. /\ \A i \in Jobs : job'[i].total = job[i].total
      /\ \A i \in Jobs : request[i].step = "none" => job'[i] = job[i]
  <2>1. ASSUME NEW j \in Jobs, request[j].step # "none", NEW n \in Nat,
               \/ job' = [job EXCEPT ![j].completed = n]
               \/ job' = [job EXCEPT ![j].status = "done"]
        PROVE  /\ \A i \in Jobs : job'[i].total = job[i].total
               /\ \A i \in Jobs : request[i].step = "none" => job'[i] = job[i]
    <3>1. PICK row \in {[job[j] EXCEPT !.completed = n], [job[j] EXCEPT !.status = "done"]} :
             job' = [job EXCEPT ![j] = row]
      BY <2>1
    <3>2. job[j] \in CountedRow
      BY DEF Types
    <3>3. row.total = job[j].total
      BY <3>1, <3>2 DEF CountedRow
    <3>4. job'[j] = row /\ \A i \in Jobs \ {j} : job'[i] = job[i]
      BY <3>1 DEF Types
    <3>5. QED BY <2>1, <3>3, <3>4
  <2>2. 0 \in Nat
    OBVIOUS
  <2>3. CASE job' = job
    BY <2>3
  <2>4. QED BY <2>1, <2>2, <2>3
<1>2. \A i \in Jobs : ChunksOf(i)' = ChunksOf(i)
  BY <1>1 DEF ChunksOf
<1>3. QED BY <1>1, <1>2 DEF RowsKnown, RowsStep, ChunksGrow, ChunksCome

LEMMA RequestEffect ==
  ASSUME TypeInv, KnownInv, NEW j \in Jobs,
         Submit(j) \/ RecordCreated(j) \/ Answer(j) \/ RecordCancelled(j) \/ RequestFails(j)
           \/ CancelJob(j) \/ Poll(j)
  PROVE  Drops /\ RowsStep
<1> USE DEF apiVars, tables, kafka, history, TypeInv, Types
<1>1. ASSUME UNCHANGED <<queue, consumer, results, lost>>, \A i \in Jobs : givenUp[i] \subseteq givenUp'[i],
             \A i \in Jobs : request[i].unsent \subseteq request'[i].unsent \cup givenUp'[i]
      PROVE  Drops
  BY <1>1 DEF Drops, GoneGrow, HandsShrink, Gone
<1>2. ASSUME UNCHANGED <<job, results>>,
             \A i \in Jobs : request'[i].unsent \subseteq request[i].unsent,
             \A i \in Jobs : request'[i].step = "none" => request[i].step = "none"
      PROVE  RowsStep
  BY <1>2 DEF KnownInv, RowsKnown, RowsStep, ChunksGrow, ChunksCome, ChunksOf
<1>3. CASE Submit(j)
  <2>1. PICK total \in 0..MaxChunks, large \in 0..MaxChunks : CreateJob(j, request[j].type, total, large)
    BY <1>3 DEF Submit
  <2>2. /\ request'[j].unsent = 0..total - 1 /\ request'[j].step = "created" /\ job'[j].total = total
        /\ \A i \in Jobs \ {j} : request'[i] = request[i] /\ job'[i] = job[i]
    BY <2>1 DEF CreateJob
  <2>3. ChunksOf(j) = {} /\ request[j].unsent = {} /\ results[j] = {} /\ results' = results
    <3>1. job[j].total = 0
      BY <2>1 DEF CreateJob, KnownInv, RowsKnown
    <3>2. ChunksOf(j) = {}
      BY <3>1 DEF ChunksOf
    <3>3. QED BY <2>1, <3>2 DEF KnownInv, RowsKnown, CreateJob
  <2>4. ChunksOf(j)' = 0..total - 1 /\ \A i \in Jobs \ {j} : ChunksOf(i)' = ChunksOf(i)
    BY <2>2 DEF ChunksOf
  <2>5. RowsStep
    BY <2>2, <2>3, <2>4 DEF KnownInv, RowsKnown, RowsStep, ChunksGrow, ChunksCome
  <2>6. Drops
    BY <1>1, <2>1, <2>2, <2>3 DEF CreateJob
  <2>7. QED BY <2>5, <2>6
<1>4. ASSUME NEW step \in {"sending", "answered"}, request' = [request EXCEPT ![j].step = step],
             UNCHANGED <<job, results, queue, consumer, givenUp, lost>>
      PROVE  Drops /\ RowsStep
  <2>1. \A i \in Jobs : request'[i].unsent = request[i].unsent
                        /\ (request'[i].step = "none" => request[i].step = "none")
    BY <1>4 DEF Request
  <2>2. QED BY <1>1, <1>2, <1>4, <2>1
<1>5. CASE RecordCreated(j) \/ RecordCancelled(j) \/ Answer(j)
  BY <1>4, <1>5 DEF RecordCreated, RecordCancelled, Answer
<1>6. CASE RequestFails(j)
  <2>1. /\ request'[j].unsent = {} /\ request'[j].step = "failed"
        /\ givenUp'[j] = givenUp[j] \cup request[j].unsent
        /\ \A i \in Jobs \ {j} : request'[i] = request[i] /\ givenUp'[i] = givenUp[i]
    BY <1>6 DEF RequestFails, Request
  <2>2. UNCHANGED <<job, results, queue, consumer, lost>>
    BY <1>6 DEF RequestFails
  <2>3. Drops
    BY <1>1, <2>1, <2>2
  <2>4. RowsStep
    BY <1>2, <2>1, <2>2
  <2>5. QED BY <2>3, <2>4
<1>7. CASE CancelJob(j)
  <2>1. /\ request'[j].unsent = request[j].unsent /\ request'[j].step = "cancelling"
        /\ \A i \in Jobs \ {j} : request'[i] = request[i]
    BY <1>7 DEF CancelJob, Request
  <2>2. job'[j].total = job[j].total /\ \A i \in Jobs \ {j} : job'[i] = job[i]
    BY <1>7 DEF CancelJob, CountedRow
  <2>3. UNCHANGED <<results, queue, consumer, givenUp, lost>>
    BY <1>7 DEF CancelJob
  <2>4. Drops
    BY <1>1, <2>1, <2>3
  <2>5. \A i \in Jobs : ChunksOf(i)' = ChunksOf(i)
    BY <2>2 DEF ChunksOf
  <2>6. RowsStep
    BY <2>1, <2>2, <2>3, <2>5 DEF KnownInv, RowsKnown, RowsStep, ChunksGrow, ChunksCome
  <2>7. QED BY <2>4, <2>6
<1>8. CASE Poll(j)
  BY <1>1, <1>2, <1>8 DEF Poll
<1>9. QED BY <1>3, <1>5, <1>6, <1>7, <1>8

LEMMA SendEffect ==
  ASSUME TypeInv, KnownInv, NEW j \in Jobs, NEW c \in Chunks, SendChunk(j, c)
  PROVE  /\ c \in ChunksOf(j) /\ RowsStep
         /\ Drops \/ \E new \in Record : Adds(j, c, "tasks", new)
<1>1. /\ request'[j].unsent = request[j].unsent \ {c} /\ request'[j].step = request[j].step
      /\ \A i \in Jobs \ {j} : request'[i] = request[i]
  BY DEF SendChunk, TypeInv, Types, Request
<1>2. UNCHANGED <<job, results, givenUp, consumer>>
  BY DEF SendChunk, tables
<1>3. c \in ChunksOf(j)
  BY DEF SendChunk, KnownInv, RowsKnown
<1>4. RowsStep
  BY <1>1, <1>2 DEF KnownInv, RowsKnown, RowsStep, ChunksGrow, ChunksCome, ChunksOf
<1>5. PICK q \in Queues, e \in Tags : q = "tasks" /\ Send(queue, q, j, c, e)
  BY DEF SendChunk, Queues, Topics, Tags
<1>6. CASE queue' = Sent(queue, q, j, c, e) /\ UNCHANGED lost
  <2>1. PICK new \in Record : /\ new.job = j /\ new.chunk = c /\ new \notin queue[q]
                              /\ queue'[q] = queue[q] \cup {new}
                              /\ \A p \in Queues \ {q} : queue'[p] = queue[p]
    BY <1>6, SentQueue
  <2>2. Adds(j, c, q, new)
    BY <1>1, <1>2, <1>6, <2>1 DEF Adds, GoneGrow, Gone, HandsShrink
  <2>3. QED BY <1>3, <1>4, <1>5, <2>2
<1>7. CASE queue' = queue /\ lost' = [lost EXCEPT ![j] = @ \cup {c}]
  <2>1. GoneGrow /\ c \in Gone(j)'
    BY <1>2, <1>7, LostGrows DEF TypeInv
  <2>2. Drops
    BY <1>1, <1>2, <1>7, <2>1 DEF Drops, HandsShrink
  <2>3. QED BY <1>3, <1>4, <2>2
<1>8. QED BY <1>5, <1>6, <1>7 DEF Send

LEMMA HandsEffect ==
  ASSUME TypeInv, NEW k \in Consumers, NEW q, NEW r, NEW step, Receives(k, q, r), InHand(k, q, r, step),
         UNCHANGED <<request, results>>,
         \/ GiveUp({r}) /\ queue' = queue
         \/ /\ UNCHANGED givenUp
            /\ \E p \in Queues, e \in Tags :
                 Send(queue, p, r.job, r.chunk, e) \/ (queue' = Sent(queue, p, r.job, r.chunk, e) /\ UNCHANGED lost)
  PROVE  Hands(k, q, r)
<1>1. r \in Record /\ r.job \in Jobs /\ r.chunk \in Chunks
  BY InputsAreTopics DEF Receives, TypeInv, QueuesFinite, Queues, Record
<1>2. CASE GiveUp({r}) /\ queue' = queue
  <2>1. {r} \in SUBSET Record
    BY <1>1
  <2>2. GoneGrow /\ r.chunk \in Gone(r.job)'
    BY <1>2, <2>1, GiveUpGrows DEF TypeInv
  <2>3. QED BY <1>2, <2>2 DEF Hands
<1>3. ASSUME UNCHANGED <<givenUp, lost>>, NEW p \in Queues, NEW e \in Tags,
             queue' = Sent(queue, p, r.job, r.chunk, e)
      PROVE  Hands(k, q, r)
  <2>1. PICK new \in Record : /\ new.job = r.job /\ new.chunk = r.chunk /\ new \notin queue[p]
                              /\ queue'[p] = queue[p] \cup {new}
                              /\ \A o \in Queues \ {p} : queue'[o] = queue[o]
    BY <1>1, <1>3, SentQueue
  <2>2. GoneGrow
    BY <1>3 DEF GoneGrow, Gone
  <2>3. QED BY <2>1, <2>2 DEF Hands
<1>4. CASE UNCHANGED <<givenUp, queue>> /\ lost' = [lost EXCEPT ![r.job] = @ \cup {r.chunk}]
  <2>1. GoneGrow /\ r.chunk \in Gone(r.job)'
    BY <1>1, <1>4, LostGrows DEF TypeInv
  <2>2. QED BY <1>4, <2>1 DEF Hands
<1>5. QED BY <1>2, <1>3, <1>4 DEF Send

LEMMA WorkEffect ==
  ASSUME TypeInv, KnownInv, NEW k \in Consumers, NEW r, Route(k, r) \/ Work(k, r)
  PROVE  RowsStep /\ \E q : Hands(k, q, r)
<1> USE DEF apiVars, tables, kafka, history
<1>1. UNCHANGED <<request, job, results>>
  BY DEF Route, Work, SkipUnsupported, Succeed, Fail, FailUnreported
<1>2. RowsStep
  BY <1>1, SameRows DEF TypeInv, KnownInv
<1>3. CASE Route(k, r)
  <2>1. \E p \in Queues, e \in Tags : Send(queue, p, r.job, r.chunk, e)
    BY <1>3 DEF Route, Target, Queues, Topics, Tags
  <2>2. Hands(k, "tasks", r)
    BY <1>1, <1>3, <2>1, HandsEffect DEF Route
  <2>3. QED BY <1>2, <2>2
<1>4. CASE SkipUnsupported(k, r)
  <2>1. Hands(k, "cpu", r)
    BY <1>1, <1>4, HandsEffect DEF SkipUnsupported
  <2>2. QED BY <1>2, <2>1
<1>5. CASE Succeed(k, r) \/ Fail(k, r)
  <2>1. \E p \in Queues, e \in Tags : Send(queue, p, r.job, r.chunk, e)
    BY <1>5 DEF Succeed, Fail, LetterQueue, Queues, Topics, Tags
  <2>2. Receives(k, WorkQueue(k), r) /\ InHand(k, WorkQueue(k), r, "commit") /\ UNCHANGED givenUp
    BY <1>5 DEF Succeed, Fail
  <2>3. Hands(k, WorkQueue(k), r)
    BY <1>1, <2>1, <2>2, HandsEffect
  <2>4. QED BY <1>2, <2>3
<1>6. CASE FailUnreported(k, r)
  <2>1. Hands(k, "gpu", r)
    BY <1>1, <1>6, HandsEffect DEF FailUnreported
  <2>2. QED BY <1>2, <2>1
<1>7. QED BY <1>3, <1>4, <1>5, <1>6 DEF Work

LEMMA LetterEffect ==
  ASSUME TypeInv, KnownInv, NEW k \in Consumers, NEW q, NEW r, ProcessLetter(k, q, r)
  PROVE  RowsStep /\ Hands(k, q, r)
<1>1. UNCHANGED <<request, job, results>>
  BY DEF ProcessLetter, apiVars, tables
<1>2. RowsStep
  BY <1>1, SameRows DEF TypeInv, KnownInv
<1>3. r \in Record
  BY InputsAreTopics DEF ProcessLetter, Receives, TypeInv, QueuesFinite, Queues
<1>4. PICK p \in Queues, e \in Tags : p = RetryList(q) /\ e = r.error
  BY <1>3 DEF RetryList, Queues, RetryLists, Tags, Record
<1>5. Hands(k, q, r)
  BY <1>1, <1>4, HandsEffect DEF ProcessLetter
<1>6. QED BY <1>2, <1>5

LEMMA StoreEffect ==
  ASSUME TypeInv, KnownInv, NEW k \in Consumers, NEW r, Store(k, r)
  PROVE  RowsStep /\ Hands(k, "results", r)
<1>1. r \in Record /\ r \in queue["results"] /\ "results" \in Queues /\ r.job \in Jobs
  BY InputsAreTopics DEF Store, Receives, TypeInv, QueuesFinite, Queues, Record
<1>2. UNCHANGED <<request, job, queue, givenUp, lost>>
  BY DEF Store, apiVars, kafka, history
<1>3. /\ results'[r.job] = results[r.job] \cup {r.chunk}
      /\ \A j \in Jobs \ {r.job} : results'[j] = results[j]
  BY <1>1 DEF Store, TypeInv, Types
<1>4. r.chunk \in ChunksOf(r.job)
  BY <1>1 DEF KnownInv, QueuesKnown
<1>5. RowsStep
  BY <1>1, <1>2, <1>3, <1>4 DEF KnownInv, RowsKnown, RowsStep, ChunksGrow, ChunksCome, ChunksOf
<1>6. GoneGrow /\ r.chunk \in Gone(r.job)'
  BY <1>1, <1>2, <1>3 DEF GoneGrow, Gone
<1>7. \E step : InHand(k, "results", r, step)
  BY DEF Store
<1>8. Hands(k, "results", r)
  BY <1>2, <1>6, <1>7 DEF Hands, Store
<1>9. QED BY <1>5, <1>8

LEMMA ReducerEffect ==
  ASSUME TypeInv, KnownInv, NEW k \in Consumers,
         Count(k) \/ Look(k) \/ Finish(k) \/ Summarise(k) \/ Announce(k)
  PROVE  Drops /\ RowsStep
<1> USE DEF apiVars, tables, kafka, history
<1>1. UNCHANGED <<request, results, queue, givenUp, lost>>
  BY DEF Count, Look, Finish, Summarise, Announce
<1>2. \A l \in Consumers : consumer'[l].record \in {consumer[l].record, NoRecord}
                           /\ (consumer'[l].record = NoRecord \/ consumer'[l].from = consumer[l].from)
  <2>1. ASSUME NEW step, Continue(k, step)
        PROVE  \A l \in Consumers : consumer'[l].record = consumer[l].record /\ consumer'[l].from = consumer[l].from
    BY <2>1 DEF Continue, TypeInv, Types, ConsumerState
  <2>2. CASE consumer' = [consumer EXCEPT ![k] = Resting("down")]
    BY <2>2 DEF Resting, TypeInv, Types
  <2>3. (\E step : Continue(k, step)) \/ consumer' = [consumer EXCEPT ![k] = Resting("down")]
    BY DEF Count, Look, Finish, Summarise, Announce
  <2>4. QED BY <2>1, <2>2, <2>3
<1>3. Drops
  BY <1>1, <1>2 DEF Drops, GoneGrow, Gone, HandsShrink
<1>4. PICK r : r = consumer[k].record
  OBVIOUS
<1>5. consumer[k].step \in ReducerSteps => r \in Record /\ r.job \in Jobs /\ r.chunk \in ChunksOf(r.job)
  BY <1>4, JobAssumption DEF TypeInv, Types, HandsOK, ConsumerState, ReducerSteps, KnownInv, HandsKnown, Record
<1>6. r.job \in Jobs /\ r.chunk \in ChunksOf(r.job) => request[r.job].step # "none"
  BY DEF KnownInv, RowsKnown, ChunksOf
<1>7. CASE Count(k)
  <2>1. r.job \in Jobs /\ request[r.job].step # "none" /\ job[r.job].completed + 1 \in Nat
    BY <1>5, <1>6, <1>7 DEF Count, ReducerSteps, TypeInv, Types, CountedRow
  <2>2. job' = job \/ job' = [job EXCEPT ![r.job].completed = job[r.job].completed + 1]
    BY <1>4, <1>7 DEF Count
  <2>3. RowsStep
    BY <1>1, <2>1, <2>2, SameRows DEF TypeInv, KnownInv
  <2>4. QED BY <1>3, <2>3
<1>8. CASE Finish(k)
  <2>1. r.job \in Jobs /\ request[r.job].step # "none"
    BY <1>5, <1>6, <1>8 DEF Finish, ReducerSteps
  <2>2. job' = job \/ job' = [job EXCEPT ![r.job].status = "done"]
    BY <1>4, <1>8 DEF Finish
  <2>3. RowsStep
    BY <1>1, <2>1, <2>2, SameRows DEF TypeInv, KnownInv
  <2>4. QED BY <1>3, <2>3
<1>9. CASE Look(k) \/ Summarise(k) \/ Announce(k)
  <2>1. job' = job
    BY <1>9 DEF Look, Summarise, Announce
  <2>2. QED BY <1>1, <1>3, <2>1, SameRows DEF TypeInv, KnownInv
<1>10. QED BY <1>7, <1>8, <1>9

LEMMA StopEffect ==
  ASSUME TypeInv, KnownInv, NEW k \in Consumers, Start(k) \/ Die(k)
  PROVE  Drops /\ RowsStep
<1> USE DEF apiVars, tables, history
<1>1. UNCHANGED <<request, job, results>>
  BY DEF Start, Die
<1>2. RowsStep
  BY <1>1, SameRows DEF TypeInv, KnownInv
<1>3. PICK step : consumer' = [consumer EXCEPT ![k] = Resting(step)]
  BY DEF Start, Die
<1>4. HandsShrink
  BY <1>3 DEF HandsShrink, Resting, TypeInv, Types
<1>5. CASE UNCHANGED <<queue, givenUp, lost>>
  BY <1>1, <1>2, <1>4, <1>5 DEF Drops, GoneGrow, Gone
<1>6. ASSUME NEW records \in SUBSET Record, Lose(records),
             \A q \in Queues : queue'[q] \subseteq queue[q] /\ queue[q] \ queue'[q] \subseteq records
      PROVE  Drops
  <2>1. GoneGrow /\ \A r \in records : r.chunk \in Gone(r.job)'
    BY <1>1, <1>6, GiveUpGrows DEF TypeInv
  <2>2. QED BY <1>1, <1>4, <1>6, <2>1 DEF Drops
<1>7. CASE Start(k)
  <2>1. Skipped(k) \in SUBSET Record
    BY InputsAreTopics DEF Skipped, TypeInv, QueuesFinite, Queues
  <2>2. \A q \in Queues : queue'[q] \subseteq queue[q] /\ queue[q] \ queue'[q] \subseteq Skipped(k)
    BY <1>7 DEF Start
  <2>3. PICK records \in SUBSET Record : records = Skipped(k)
    BY <2>1
  <2>4. Lose(records)
    BY <1>7, <2>3 DEF Start, Lose
  <2>5. QED BY <1>2, <1>6, <2>2, <2>3, <2>4
<1>8. CASE Die(k)
  <2>1. PICK records \in SUBSET Record : records = UNION {queue[q] : q \in RetryLists}
    BY DEF TypeInv, QueuesFinite, Queues
  <2>2. CASE k = "monitor"
    <3>1. Lose(records)
      BY <1>8, <2>1, <2>2 DEF Die, Lose
    <3>2. \A q \in Queues : queue'[q] \subseteq queue[q] /\ queue[q] \ queue'[q] \subseteq records
      BY <1>8, <2>1, <2>2 DEF Die
    <3>3. QED BY <1>2, <1>6, <3>1, <3>2
  <2>3. CASE k # "monitor"
    BY <1>2, <1>5, <1>8, <2>3 DEF Die
  <2>4. QED BY <2>2, <2>3
<1>9. QED BY <1>7, <1>8

LEMMA RefusedEffect ==
  ASSUME TypeInv, KnownInv, NEW k \in Consumers, CommitRefused(k)
  PROVE  /\ RowsStep
         /\ \/ Drops
            \/ \E j \in Jobs : \E c \in ChunksOf(j), q \in Queues, new \in Record :
                 c \in Chunks /\ Adds(j, c, q, new)
<1> USE DEF apiVars, tables, history
<1>1. UNCHANGED <<request, job, results, givenUp>>
  BY DEF CommitRefused
<1>2. RowsStep
  BY <1>1, SameRows DEF TypeInv, KnownInv
<1>3. HandsShrink
  BY DEF CommitRefused, HandsShrink, Resting, TypeInv, Types
<1>4. PICK r \in Record : r = consumer[k].record
  BY JobAssumption DEF CommitRefused, TypeInv, Types, HandsOK, ConsumerState
<1>5. r.job \in Jobs /\ r.chunk \in Chunks /\ r.chunk \in ChunksOf(r.job)
  BY <1>4 DEF Record, KnownInv, HandsKnown
<1>6. PICK q \in Queues, e \in Tags : Send(queue, q, r.job, r.chunk, e)
  BY <1>4, JobAssumption DEF CommitRefused, LetterQueue, Queues, Topics, Tags
<1>7. CASE queue' = Sent(queue, q, r.job, r.chunk, e) /\ UNCHANGED lost
  <2>1. PICK new \in Record : /\ new.job = r.job /\ new.chunk = r.chunk /\ new \notin queue[q]
                              /\ queue'[q] = queue[q] \cup {new}
                              /\ \A p \in Queues \ {q} : queue'[p] = queue[p]
    BY <1>5, <1>7, SentQueue
  <2>2. Adds(r.job, r.chunk, q, new)
    BY <1>1, <1>3, <1>7, <2>1 DEF Adds, GoneGrow, Gone
  <2>3. QED BY <1>2, <1>5, <2>2
<1>8. CASE queue' = queue /\ lost' = [lost EXCEPT ![r.job] = @ \cup {r.chunk}]
  <2>1. GoneGrow
    BY <1>1, <1>5, <1>8, LostGrows DEF TypeInv
  <2>2. Drops
    BY <1>1, <1>3, <1>8, <2>1 DEF Drops
  <2>3. QED BY <1>2, <2>2
<1>9. QED BY <1>6, <1>7, <1>8 DEF Send

LEMMA RetryEffect ==
  ASSUME TypeInv, KnownInv, NEW list \in RetryLists, NEW r \in queue[list], Retry(list, r)
  PROVE  /\ RowsStep
         /\ \/ Drops
            \/ \E j \in Jobs : \E c \in ChunksOf(j), q \in Queues, new \in Record :
                 c \in Chunks /\ Adds(j, c, q, new)
<1>1. list \in Queues /\ r \in Record /\ RetryTopic(list) \in Queues /\ list # RetryTopic(list)
  BY DEF TypeInv, QueuesFinite, Queues, Topics, RetryLists, RetryTopic
<1>2. r.job \in Jobs /\ r.chunk \in Chunks /\ r.chunk \in ChunksOf(r.job)
  BY <1>1 DEF Record, KnownInv, QueuesKnown
<1>3. UNCHANGED <<request, job, results, givenUp, consumer>>
  BY DEF Retry, apiVars, tables
<1>4. RowsStep
  BY <1>3, SameRows DEF TypeInv, KnownInv
<1>5. CASE queue' = Sent(OffTheList(list, r), RetryTopic(list), r.job, r.chunk, "none") /\ UNCHANGED lost
  <2>1. PICK new \in Record \ queue[RetryTopic(list)] :
           /\ new.job = r.job /\ new.chunk = r.chunk
           /\ queue' = [q \in Queues |-> IF q = list THEN queue[q] \ {r}
                                         ELSE IF q = RetryTopic(list) THEN queue[q] \cup {new}
                                         ELSE queue[q]]
    BY <1>5, RetryAdds DEF TypeInv
  <2>2. Adds(r.job, r.chunk, RetryTopic(list), new)
    BY <1>1, <1>3, <1>5, <2>1 DEF Adds, GoneGrow, Gone, HandsShrink
  <2>3. QED BY <1>1, <1>2, <1>4, <2>2
<1>6. CASE queue' = OffTheList(list, r) /\ lost' = [lost EXCEPT ![r.job] = @ \cup {r.chunk}]
  <2>1. GoneGrow /\ r.chunk \in Gone(r.job)'
    BY <1>2, <1>3, <1>6, LostGrows DEF TypeInv
  <2>2. Drops
    BY <1>1, <1>3, <1>6, <2>1 DEF OffTheList, Drops, HandsShrink, TypeInv, QueuesFinite
  <2>3. QED BY <1>4, <2>2
<1>7. QED BY <1>5, <1>6 DEF Retry, Send, OffTheList

LEMMA RetryFailsEffect ==
  ASSUME TypeInv, KnownInv, NEW list \in RetryLists, NEW r \in queue[list], RetryFails(list, r)
  PROVE  Drops /\ RowsStep
<1>1. UNCHANGED <<request, job, results, consumer>>
  BY DEF RetryFails, apiVars, tables
<1>2. RowsStep
  BY <1>1, SameRows DEF TypeInv, KnownInv
<1>3. list \in Queues /\ r \in Record
  BY DEF Queues, TypeInv, QueuesFinite
<1>4. {r} \in SUBSET Record
  BY <1>3
<1>5. GoneGrow /\ r.chunk \in Gone(r.job)'
  BY <1>1, <1>4, GiveUpGrows DEF RetryFails, TypeInv
<1>6. Drops
  BY <1>1, <1>3, <1>5 DEF RetryFails, Drops, HandsShrink, TypeInv, QueuesFinite
<1>7. QED BY <1>2, <1>6

-----------------------------------------------------------------------------
(* Every chunk is accounted for *)

DeliveryInv == HeldAreKnown /\ HoldersDiffer /\ AllTraced

LEMMA TracedStep ==
  ASSUME TypeInv, AllTraced, Kept, ChunksCome
  PROVE  AllTraced'
<1>1. ASSUME NEW j \in Jobs, NEW c \in ChunksOf(j)' PROVE Traced(j, c)'
  <2>1. c \in ChunksOf(j) \/ c \in request'[j].unsent
    BY <1>1 DEF ChunksCome
  <2>2. CASE c \in ChunksOf(j)
    <3>1. c \in Chunks
      BY <2>2, JobAssumption DEF ChunksOf, Chunks, TypeInv, Types, CountedRow
    <3>2. QED BY <2>2, <3>1 DEF AllTraced, Kept
  <2>3. CASE c \in request'[j].unsent
    BY <2>3 DEF Traced
  <2>4. QED BY <2>1, <2>2, <2>3
<1>2. QED BY <1>1 DEF AllTraced

LEMMA DeliveryNext ==
  ASSUME TypeInv, TypeInv', KnownInv, DeliveryInv, [Next]_jobVars
  PROVE  KnownInv' /\ DeliveryInv'
<1> USE DEF KnownInv, DeliveryInv
<1>1. CASE UNCHANGED jobVars
  BY <1>1 DEF jobVars, QueuesKnown, HandsKnown, RowsKnown, ChunksOf, HeldAreKnown, HoldersDiffer, Holds,
              AllTraced, Traced, Free, Gone
<1>2. ASSUME Drops, RowsStep PROVE KnownInv' /\ DeliveryInv'
  BY <1>2, DropsKnown, DropsDelivery, TracedStep DEF RowsStep
<1>3. ASSUME RowsStep, NEW k \in Consumers, NEW q, NEW r, Hands(k, q, r) PROVE KnownInv' /\ DeliveryInv'
  BY <1>3, HandsKnownStep, HandsDelivery, TracedStep DEF RowsStep
<1>4. ASSUME RowsStep, NEW j \in Jobs, NEW c \in ChunksOf(j), c \in Chunks,
             NEW q \in Queues, NEW new \in Record, Adds(j, c, q, new)
      PROVE  KnownInv' /\ DeliveryInv'
  BY <1>4, AddsKnown, AddsDelivery, TracedStep DEF RowsStep
<1>5. ASSUME NEW j \in Jobs, Submit(j) \/ Serve(j) \/ RequestFails(j) \/ CancelJob(j) \/ Poll(j)
      PROVE  KnownInv' /\ DeliveryInv'
  <2>1. ASSUME NEW c \in Chunks, SendChunk(j, c) PROVE KnownInv' /\ DeliveryInv'
    <3>1. "tasks" \in Queues
      BY DEF Queues, Topics
    <3>2. QED BY <1>2, <1>4, <2>1, <3>1, SendEffect
  <2>2. CASE \A c \in Chunks : ~SendChunk(j, c)
    BY <1>2, <1>5, <2>2, RequestEffect DEF Serve
  <2>3. QED BY <2>1, <2>2
<1>6. ASSUME NEW k \in Consumers, Start(k) \/ Consume(k) \/ Die(k) \/ CommitRefused(k)
      PROVE  KnownInv' /\ DeliveryInv'
  <2>1. CASE Start(k) \/ Die(k)
    BY <1>2, <2>1, StopEffect
  <2>2. CASE CommitRefused(k)
    BY <1>2, <1>4, <2>2, RefusedEffect
  <2>3. CASE Count(k) \/ Look(k) \/ Finish(k) \/ Summarise(k) \/ Announce(k)
    BY <1>2, <2>3, ReducerEffect
  <2>4. CASE Commit(k)
    <3>1. UNCHANGED <<request, job, results>>
      BY <2>4 DEF Commit, apiVars, tables
    <3>2. RowsStep
      BY <3>1, SameRows DEF TypeInv
    <3>3. \A q \in Queues : queue'[q] \subseteq queue[q]
      BY <2>4 DEF Commit, TypeInv, QueuesFinite
    <3>4. HandsShrink
      BY <2>4 DEF Commit, Resting, HandsShrink, TypeInv, Types
    <3>5. \A r \in Record : r.job \in Jobs
      BY DEF Record
    <3>6. QueuesKnown' /\ HandsKnown'
      BY <3>2, <3>3, <3>4, <3>5, JobAssumption DEF QueuesKnown, HandsKnown, HandsShrink, RowsStep, ChunksGrow
    <3>7. QED BY <2>4, <3>2, <3>6, CommitDelivery, TracedStep DEF RowsStep
  <2>5. ASSUME NEW q \in Topics, NEW r \in queue[q],
               \/ k = "router" /\ Route(k, r)
               \/ Work(k, r)
               \/ k \in Reducers /\ Store(k, r)
               \/ k = "monitor" /\ ProcessLetter(k, q, r)
        PROVE  KnownInv' /\ DeliveryInv'
    <3>1. RowsStep /\ \E p : Hands(k, p, r)
      BY <2>5, WorkEffect, StoreEffect, LetterEffect
    <3>2. QED BY <1>3, <3>1
  <2>6. QED BY <1>6, <2>1, <2>2, <2>3, <2>4, <2>5 DEF Consume
<1>7. ASSUME NEW list \in RetryLists, RetryLoop(list) \/ \E r \in queue[list] : RetryFails(list, r)
      PROVE  KnownInv' /\ DeliveryInv'
  <2>1. ASSUME NEW r \in queue[list], Retry(list, r) PROVE KnownInv' /\ DeliveryInv'
    BY <1>2, <1>4, <2>1, RetryEffect
  <2>2. ASSUME NEW r \in queue[list], RetryFails(list, r) PROVE KnownInv' /\ DeliveryInv'
    BY <1>2, <2>2, RetryFailsEffect
  <2>3. QED BY <1>7, <2>1, <2>2 DEF RetryLoop
<1>8. QED BY <1>1, <1>5, <1>6, <1>7 DEF Next

LEMMA DeliveryInit == Init => KnownInv /\ DeliveryInv
<1> SUFFICES ASSUME Init PROVE KnownInv /\ DeliveryInv
  OBVIOUS
<1>1. \A j \in Jobs : ChunksOf(j) = {} /\ request[j].unsent = {} /\ results[j] = {}
  BY DEF Init, ChunksOf
<1>2. \A q \in Queues : queue[q] = {}
  BY DEF Init
<1>3. \A k \in Consumers : consumer[k].record = NoRecord /\ consumer[k].from = "none"
  BY DEF Init, Resting
<1>4. KnownInv
  BY <1>1, <1>2, <1>3, JobAssumption DEF Init, KnownInv, QueuesKnown, HandsKnown, RowsKnown
<1>5. DeliveryInv
  BY <1>1, <1>3, JobAssumption DEF DeliveryInv, HeldAreKnown, HoldersDiffer, Holds, AllTraced
<1>6. QED BY <1>4, <1>5

-----------------------------------------------------------------------------
(* Counting and announcing *)

EndSteps == {"finish", "summary", "announce"}

\* Consumer k does something at step for a result of job j.
Busy(k, step, j) == consumer[k].step = step /\ consumer[k].record.job = j

Counted(j) == job[j].completed + Cardinality(Counting(j))

Full(j) == job[j].completed = job[j].total

CountsInv ==
  /\ CountFollowsResults
  /\ \A j \in Jobs : job[j].status = "done" => Full(j) /\ job[j].total # 0
  /\ \A k \in Consumers, j \in Jobs, step \in EndSteps : Busy(k, step, j) => Full(j)

\* Reducer k has set job j to done and has not announced it.
Ending(k, j) == Busy(k, "summary", j) \/ Busy(k, "announce", j)

AnnouncingInv ==
  /\ \A j \in Jobs : Announcements(j) # {} => job[j].status = "done"
  /\ \A j \in Jobs : \A m, n \in Announcements(j) : m = n
  /\ \A k \in Consumers, j \in Jobs : Ending(k, j) => job[j].status = "done" /\ Announcements(j) = {}
  /\ \A k, l \in Consumers, j \in Jobs : Ending(k, j) /\ Ending(l, j) => k = l

BaseInv == TypeInv /\ KnownInv

LEMMA Finiteness ==
  ASSUME BaseInv, NEW j \in Jobs
  PROVE  /\ IsFiniteSet(results[j]) /\ Cardinality(results[j]) \in Nat
         /\ Cardinality(results[j]) <= job[j].total
         /\ Cardinality(results[j]) = job[j].total => results[j] = ChunksOf(j)
         /\ IsFiniteSet(Counting(j)) /\ Cardinality(Counting(j)) \in Nat
         /\ job[j].total \in Nat /\ job[j].completed \in Nat
<1>1. job[j].total \in Nat /\ job[j].completed \in Nat
  BY JobAssumption DEF BaseInv, TypeInv, Types, CountedRow
<1>2. IsFiniteSet(ChunksOf(j)) /\ Cardinality(ChunksOf(j)) = job[j].total
  <2>1. PICK n \in Nat : n = job[j].total
    BY <1>1
  <2>2. IsFiniteSet(0..n - 1) /\ Cardinality(0..n - 1) = IF 0 > n - 1 THEN 0 ELSE n - 1 - 0 + 1
    BY FS_Interval
  <2>3. Cardinality(0..n - 1) = n
    BY <2>2
  <2>4. QED BY <2>1, <2>2, <2>3 DEF ChunksOf
<1>3. results[j] \in SUBSET ChunksOf(j)
  BY DEF BaseInv, KnownInv, RowsKnown
<1>4. IsFiniteSet(results[j]) /\ Cardinality(results[j]) \in Nat
  BY <1>2, <1>3, FS_Subset, FS_CardinalityType
<1>5. Cardinality(results[j]) <= job[j].total
      /\ (Cardinality(results[j]) = job[j].total => results[j] = ChunksOf(j))
  BY <1>2, <1>3, FS_Subset
<1>6. Counting(j) \in SUBSET Reducers /\ IsFiniteSet(Reducers)
  BY JobAssumption DEF Counting
<1>7. IsFiniteSet(Counting(j)) /\ Cardinality(Counting(j)) \in Nat
  BY <1>6, FS_Subset, FS_CardinalityType
<1>8. QED BY <1>1, <1>4, <1>5, <1>7

\* When the counter is full, every result is stored and none is being counted.
LEMMA FullIsComplete ==
  ASSUME BaseInv, CountsInv, NEW j \in Jobs, Full(j)
  PROVE  results[j] = ChunksOf(j) /\ Counting(j) = {}
<1>1. job[j].completed + Cardinality(Counting(j)) <= Cardinality(results[j])
  BY DEF CountsInv, CountFollowsResults
<1>2. Cardinality(results[j]) = job[j].total /\ Cardinality(Counting(j)) = 0
  BY <1>1, Finiteness DEF Full
<1>3. QED BY <1>2, Finiteness, FS_EmptySet

LEMMA BusyHasJob ==
  ASSUME BaseInv, NEW k \in Consumers, consumer[k].step \in ReducerSteps
  PROVE  /\ k \in Reducers /\ consumer[k].record \in Record
         /\ consumer[k].record.job \in Jobs
         /\ consumer[k].record.chunk \in ChunksOf(consumer[k].record.job)
         /\ job[consumer[k].record.job].total # 0
<1>1. PICK r \in Record : r = consumer[k].record
  BY JobAssumption DEF BaseInv, TypeInv, Types, HandsOK, ConsumerState, ReducerSteps
<1>2. k \in Reducers
  BY DEF BaseInv, TypeInv, HandsOK
<1>3. r.job \in Jobs /\ r.chunk \in ChunksOf(r.job)
  BY <1>1 DEF BaseInv, KnownInv, HandsKnown, Record
<1>4. job[r.job].total # 0
  BY <1>3 DEF ChunksOf
<1>5. QED BY <1>1, <1>2, <1>3, <1>4

\* Nothing is counted, finished or announced; a reducer may die.
CountQuiet ==
  /\ UNCHANGED <<job, results>>
  /\ mishaps' = 0 => mishaps = 0
  /\ \A j \in Jobs : Announcements(j)' = Announcements(j)
  /\ \A k \in Consumers :
       \/ consumer'[k] = consumer[k]
       \/ /\ consumer'[k].step \notin EndSteps \cup {"count"}
          /\ consumer[k].step = "count" => mishaps' # 0

LEMMA QuietCounts ==
  ASSUME BaseInv, BaseInv', CountsInv, AnnouncingInv, CountQuiet
  PROVE  CountsInv' /\ AnnouncingInv'
<1>1. \A k \in Consumers, j \in Jobs, step \in EndSteps \cup {"count"} : Busy(k, step, j)' => Busy(k, step, j)
  BY DEF CountQuiet, Busy
<1>2. \A k \in Consumers, j \in Jobs : Ending(k, j)' => Ending(k, j)
  BY <1>1 DEF Ending, EndSteps
<1>3. AnnouncingInv'
  BY <1>2 DEF AnnouncingInv, CountQuiet
<1>4. \A j \in Jobs : Full(j)' <=> Full(j)
  BY DEF CountQuiet, Full
<1>5. ASSUME NEW j \in Jobs
      PROVE  /\ Cardinality(Counting(j)') \in Nat
             /\ Cardinality(Counting(j)') <= Cardinality(Counting(j))
             /\ mishaps' = 0 => Counting(j)' = Counting(j)
  <2>1. Counting(j)' \subseteq Counting(j)
    BY DEF CountQuiet, Counting, Consumers
  <2>2. mishaps' = 0 => Counting(j) \subseteq Counting(j)'
    BY DEF CountQuiet, Counting, Consumers
  <2>3. Cardinality(Counting(j)') \in Nat /\ Cardinality(Counting(j)') <= Cardinality(Counting(j))
    BY <2>1, Finiteness, FS_Subset, FS_CardinalityType
  <2>4. QED BY <2>1, <2>2, <2>3
<1>6. CountFollowsResults'
  <2>1. ASSUME NEW j \in Jobs
        PROVE  /\ job'[j].completed + Cardinality(Counting(j)') <= Cardinality(results'[j])
               /\ mishaps' = 0 /\ job'[j].status \in {"running", "done"} =>
                    job'[j].completed + Cardinality(Counting(j)') = Cardinality(results'[j])
    <3>1. /\ job[j].completed + Cardinality(Counting(j)) <= Cardinality(results[j])
          /\ mishaps = 0 /\ job[j].status \in {"running", "done"} =>
               job[j].completed + Cardinality(Counting(j)) = Cardinality(results[j])
      BY DEF CountsInv, CountFollowsResults
    <3>2. job'[j] = job[j] /\ results'[j] = results[j] /\ (mishaps' = 0 => mishaps = 0)
      BY DEF CountQuiet
    <3>3. /\ Cardinality(Counting(j)) \in Nat
          /\ Cardinality(results[j]) \in Nat /\ job[j].completed \in Nat
      BY Finiteness
    <3>4. QED BY <1>5, <3>1, <3>2, <3>3
  <2>2. QED BY <2>1 DEF CountFollowsResults
<1>7. CountsInv'
  BY <1>1, <1>4, <1>6 DEF CountsInv, CountQuiet
<1>8. QED BY <1>3, <1>7

LEMMA StepQuiet ==
  ASSUME BaseInv, NEW k \in Consumers, NEW hand, hand.step \notin EndSteps \cup {"count"},
         consumer' = [consumer EXCEPT ![k] = hand], consumer[k].step = "count" => mishaps' # 0,
         UNCHANGED <<job, results, events>>, mishaps' = 0 => mishaps = 0
  PROVE  CountQuiet
<1>1. \A l \in Consumers : consumer'[l] = IF l = k THEN hand ELSE consumer[l]
  BY DEF BaseInv, TypeInv, Types
<1>2. \A j \in Jobs : Announcements(j)' = Announcements(j)
  BY DEF Announcements
<1>3. QED BY <1>1, <1>2 DEF CountQuiet

LEMMA NotOneOfTheReducers ==
  ASSUME BaseInv, NEW k \in Consumers,
         \/ Start(k) \/ Die(k) \/ Commit(k) \/ CommitRefused(k)
         \/ \E r : Route(k, r) \/ Work(k, r) \/ \E q : ProcessLetter(k, q, r)
  PROVE  CountQuiet
<1> USE DEF apiVars, tables, kafka, history, EndSteps
<1>1. mishaps' = 0 => mishaps = 0
  <2>1. mishaps' = mishaps \/ Mishap
    BY DEF Start, Die, Commit, CommitRefused, Route, Work, SkipUnsupported, Succeed, Fail, FailUnreported,
           ProcessLetter
  <2>2. QED BY <2>1, JobAssumption DEF Mishap, BaseInv, TypeInv, Types
<1>2. UNCHANGED <<job, results, events>>
  BY DEF Start, Die, Commit, CommitRefused, Route, Work, SkipUnsupported, Succeed, Fail, FailUnreported,
         ProcessLetter
<1>3. ASSUME NEW step \in {"down", "idle"}, consumer' = [consumer EXCEPT ![k] = Resting(step)],
             consumer[k].step # "count" \/ mishaps' # 0
      PROVE  CountQuiet
  <2>1. Resting(step).step \notin EndSteps \cup {"count"}
    BY <1>3 DEF Resting
  <2>2. QED BY <1>1, <1>2, <1>3, <2>1, StepQuiet
<1>4. ASSUME NEW q, NEW r, Receives(k, q, r), InHand(k, q, r, "commit")
      PROVE  CountQuiet
  <2>1. PICK hand : hand = [step |-> "commit", from |-> q, record |-> r]
    OBVIOUS
  <2>2. hand.step = "commit" /\ consumer[k].step = "idle" /\ consumer' = [consumer EXCEPT ![k] = hand]
    BY <1>4, <2>1 DEF Receives, InHand
  <2>3. QED BY <1>1, <1>2, <2>2, StepQuiet
<1>5. CASE Start(k) \/ Commit(k)
  BY <1>3, <1>5 DEF Start, Commit
<1>6. CASE Die(k) \/ CommitRefused(k)
  <2>1. mishaps' # 0
    BY <1>6 DEF Die, CommitRefused, Mishap, BaseInv, TypeInv, Types
  <2>2. QED BY <1>3, <1>6, <2>1 DEF Die, CommitRefused
<1>7. ASSUME NEW r, Route(k, r) \/ Work(k, r) PROVE CountQuiet
  BY <1>4, <1>7 DEF Route, Work, SkipUnsupported, Succeed, Fail, FailUnreported
<1>8. ASSUME NEW r, NEW q, ProcessLetter(k, q, r) PROVE CountQuiet
  BY <1>4, <1>8 DEF ProcessLetter
<1>9. QED BY <1>5, <1>6, <1>7, <1>8

LEMMA NotAConsumer ==
  ASSUME BaseInv,
         \/ UNCHANGED jobVars
         \/ \E j \in Jobs : \/ Answer(j) \/ RequestFails(j) \/ Poll(j) \/ RecordCreated(j) \/ RecordCancelled(j)
                            \/ \E c \in Chunks : SendChunk(j, c)
         \/ \E list \in RetryLists : \E r \in queue[list] : Retry(list, r) \/ RetryFails(list, r)
  PROVE  CountQuiet
<1> USE DEF apiVars, tables, kafka, history, jobVars
<1>1. UNCHANGED <<job, results, consumer>>
  BY DEF Answer, RequestFails, Poll, RecordCreated, RecordCancelled, SendChunk, Retry, RetryFails
<1>2. mishaps' = 0 => mishaps = 0
  <2>1. mishaps' = mishaps \/ Mishap
    BY DEF Answer, RequestFails, Poll, RecordCreated, RecordCancelled, SendChunk, Retry, RetryFails
  <2>2. QED BY <2>1, JobAssumption DEF Mishap, BaseInv, TypeInv, Types
<1>3. \A j \in Jobs : Announcements(j)' = Announcements(j)
  <2>1. CASE UNCHANGED events
    BY <2>1 DEF Announcements
  <2>2. ASSUME NEW i \in Jobs, NEW event \in {"job_created", "job_cancelled"},
               events' = [events EXCEPT ![i] = Append(@, event)]
        PROVE  \A j \in Jobs : Announcements(j)' = Announcements(j)
    <3>1. events[i] \in Seq(EventTypes) /\ events'[i] = Append(events[i], event)
          /\ \A j \in Jobs \ {i} : events'[j] = events[j]
      BY <2>2 DEF BaseInv, TypeInv, Types
    <3>2. event \in EventTypes /\ event # "job_done"
      BY <2>2 DEF EventTypes
    <3>3. /\ Len(events[i]) \in Nat /\ DOMAIN events[i] = 1..Len(events[i])
          /\ Append(events[i], event) \in Seq(EventTypes)
          /\ DOMAIN Append(events[i], event) = 1..Len(events[i]) + 1
          /\ \A n \in 1..Len(events[i]) : Append(events[i], event)[n] = events[i][n]
          /\ Append(events[i], event)[Len(events[i]) + 1] = event
      BY <3>1, <3>2, AppendProperties, LenProperties
    <3>4. Announcements(i)' = Announcements(i)
      BY <3>1, <3>2, <3>3 DEF Announcements
    <3>5. QED BY <3>1, <3>4 DEF Announcements
  <2>3. QED BY <2>1, <2>2 DEF Answer, RequestFails, Poll, RecordCreated, RecordCancelled, SendChunk, Retry, RetryFails
<1>4. QED BY <1>1, <1>2, <1>3 DEF CountQuiet

\* One reducer, at k, takes a step; who else is busy stays so.
Moves(k, step) ==
  /\ consumer'[k].step = step /\ consumer'[k].record = consumer[k].record
  /\ \A l \in Consumers \ {k} : consumer'[l] = consumer[l]

LEMMA ContinueMoves ==
  ASSUME BaseInv, NEW k \in Consumers, NEW step, Continue(k, step)
  PROVE  Moves(k, step)
<1>1. PICK hand : hand = [consumer[k] EXCEPT !.step = step]
  OBVIOUS
<1>2. consumer[k] \in ConsumerState
  BY DEF BaseInv, TypeInv, Types
<1>3. hand.step = step /\ hand.record = consumer[k].record
  BY <1>1, <1>2 DEF ConsumerState
<1>4. consumer' = [consumer EXCEPT ![k] = hand]
  BY <1>1 DEF Continue
<1>5. QED BY <1>3, <1>4 DEF Moves, BaseInv, TypeInv, Types

\* The rules of CountFollowsResults for one job.
CountRule(j) ==
  /\ job[j].completed + Cardinality(Counting(j)) <= Cardinality(results[j])
  /\ mishaps = 0 /\ job[j].status \in {"running", "done"} =>
       job[j].completed + Cardinality(Counting(j)) = Cardinality(results[j])

LEMMA CountRules == CountFollowsResults <=> \A j \in Jobs : CountRule(j)
  BY DEF CountFollowsResults, CountRule

LEMMA StoreCounts ==
  ASSUME BaseInv, BaseInv', CountsInv, AnnouncingInv, NEW k \in Reducers, NEW r, Store(k, r)
  PROVE  CountsInv' /\ AnnouncingInv'
<1> DEFINE i == r.job
<1>1. r \in Record /\ i \in Jobs /\ r.chunk \in Chunks /\ k \in Consumers
  <2>1. k \in Consumers
    BY DEF Consumers
  <2>2. r \in queue["results"] /\ "results" \in Queues
    BY DEF Store, Receives, Queues, Topics
  <2>3. r \in Record
    BY <2>2 DEF BaseInv, TypeInv, QueuesFinite
  <2>4. QED BY <2>1, <2>3 DEF Record
<1>2. /\ consumer[k].step = "idle" /\ consumer'[k].record = r
      /\ consumer'[k].step = IF r.chunk \in results[i] THEN "look" ELSE "count"
      /\ \A l \in Consumers \ {k} : consumer'[l] = consumer[l]
  BY <1>1 DEF Store, Receives, InHand, BaseInv, TypeInv, Types
<1>3. UNCHANGED <<job, events, mishaps>>
  BY DEF Store
<1>4. /\ results'[i] = results[i] \cup {r.chunk}
      /\ \A j \in Jobs \ {i} : results'[j] = results[j]
  BY <1>1 DEF Store, BaseInv, TypeInv, Types
<1>5. \A l \in Consumers, j \in Jobs, step \in EndSteps : Busy(l, step, j)' => Busy(l, step, j)
  BY <1>2 DEF Busy, EndSteps
<1>6. AnnouncingInv'
  BY <1>3, <1>5 DEF AnnouncingInv, Ending, EndSteps, Announcements
<1>7. ASSUME NEW j \in Jobs PROVE CountRule(j)'
  <2>1. CountRule(j)
    BY CountRules DEF CountsInv
  <2>2. CASE j = i /\ r.chunk \notin results[i]
    <3>1. Counting(j)' = Counting(j) \cup {k} /\ k \notin Counting(j)
      BY <1>1, <1>2, <2>2 DEF Counting, Consumers
    <3>2. Cardinality(Counting(j)') = Cardinality(Counting(j)) + 1
      BY <3>1, Finiteness, FS_AddElement
    <3>3. Cardinality(results'[j]) = Cardinality(results[j]) + 1
      BY <1>4, <2>2, Finiteness, FS_AddElement
    <3>4. QED BY <1>3, <2>1, <3>2, <3>3, Finiteness DEF CountRule
  <2>3. CASE ~(j = i /\ r.chunk \notin results[i])
    <3>1. Counting(j)' = Counting(j)
      BY <1>1, <1>2, <2>3 DEF Counting, Consumers
    <3>2. results'[j] = results[j]
      BY <1>4, <2>3
    <3>3. QED BY <1>3, <2>1, <3>1, <3>2 DEF CountRule
  <2>4. QED BY <2>2, <2>3
<1>8. CountFollowsResults'
  BY <1>7 DEF CountFollowsResults, CountRule
<1>9. CountsInv'
  BY <1>3, <1>5, <1>8 DEF CountsInv, Full
<1>10. QED BY <1>6, <1>9

LEMMA CountCounts ==
  ASSUME BaseInv, BaseInv', CountsInv, AnnouncingInv, NEW k \in Consumers, Count(k)
  PROVE  CountsInv' /\ AnnouncingInv'
<1>1. PICK i \in Jobs : i = consumer[k].record.job
  BY BusyHasJob DEF Count, ReducerSteps
<1>2. k \in Reducers /\ Moves(k, "look") /\ consumer[k].step = "count"
  BY BusyHasJob, ContinueMoves DEF Count, ReducerSteps
<1>3. k \in Counting(i)
  BY <1>1, <1>2 DEF Counting
<1>4. ~Full(i)
  BY <1>3, FullIsComplete
<1>5. UNCHANGED <<results, events, mishaps>>
  BY DEF Count
<1>6. /\ \A j \in Jobs : job'[j].total = job[j].total /\ job'[j].status = job[j].status
      /\ \A j \in Jobs \ {i} : job'[j] = job[j]
      /\ job'[i].completed = IF job[i].status = "running" THEN job[i].completed + 1 ELSE job[i].completed
  <2>1. CASE job[i].status = "running"
    <3>1. job' = [job EXCEPT ![i] = [job[i] EXCEPT !.completed = job[i].completed + 1]]
      BY <1>1, <2>1 DEF Count
    <3>2. job[i] \in CountedRow
      BY DEF BaseInv, TypeInv, Types
    <3>3. PICK row : row = [job[i] EXCEPT !.completed = job[i].completed + 1]
      OBVIOUS
    <3>4. row.total = job[i].total /\ row.status = job[i].status /\ row.completed = job[i].completed + 1
      BY <3>2, <3>3 DEF CountedRow
    <3>5. job'[i] = row /\ \A j \in Jobs \ {i} : job'[j] = job[j]
      BY <3>1, <3>3 DEF BaseInv, TypeInv, Types
    <3>6. QED BY <2>1, <3>4, <3>5
  <2>2. CASE job[i].status # "running"
    BY <1>1, <2>2 DEF Count
  <2>3. QED BY <2>1, <2>2
<1>7. \A l \in Consumers, j \in Jobs, step \in EndSteps : Busy(l, step, j)' => Busy(l, step, j)
  BY <1>2 DEF Busy, EndSteps, Moves
<1>8. AnnouncingInv'
  BY <1>5, <1>6, <1>7 DEF AnnouncingInv, Ending, EndSteps, Announcements
<1>9. ASSUME NEW j \in Jobs PROVE CountRule(j)'
  <2>1. CountRule(j)
    BY CountRules DEF CountsInv
  <2>2. CASE j = i
    <3>1. Counting(j)' = Counting(j) \ {k}
      BY <1>1, <1>2, <2>2 DEF Counting, Moves, Consumers
    <3>2. Cardinality(Counting(j)') = Cardinality(Counting(j)) - 1
      BY <1>3, <2>2, <3>1, Finiteness, FS_RemoveElement
    <3>3. job[i].status # "done"
      BY <1>4 DEF CountsInv
    <3>4. QED BY <1>5, <1>6, <2>1, <2>2, <3>2, <3>3, Finiteness DEF CountRule
  <2>3. CASE j # i
    <3>1. Counting(j)' = Counting(j)
      BY <1>1, <1>2, <2>3 DEF Counting, Moves, Consumers
    <3>2. QED BY <1>5, <1>6, <2>1, <2>3, <3>1 DEF CountRule
  <2>4. QED BY <2>2, <2>3
<1>10. CountFollowsResults'
  BY <1>9 DEF CountFollowsResults, CountRule
<1>11. \A j \in Jobs : Full(j) => Full(j)'
  BY <1>4, <1>6 DEF Full
<1>12. CountsInv'
  BY <1>6, <1>7, <1>10, <1>11 DEF CountsInv
<1>13. QED BY <1>8, <1>12

LEMMA LookCounts ==
  ASSUME BaseInv, BaseInv', CountsInv, AnnouncingInv, NEW k \in Consumers, Look(k)
  PROVE  CountsInv' /\ AnnouncingInv'
<1>1. PICK i \in Jobs : i = consumer[k].record.job
  BY BusyHasJob DEF Look, ReducerSteps
<1>2. UNCHANGED <<job, results, events, mishaps>> /\ consumer[k].step = "look"
  BY DEF Look, tables
<1>3. PICK step \in {"finish", "commit"} : Moves(k, step) /\ (step = "finish" => Full(i))
  BY <1>1, ContinueMoves DEF Look, Full
<1>4. \A j \in Jobs : Counting(j)' = Counting(j)
  BY <1>2, <1>3 DEF Counting, Moves, Consumers
<1>5. CountFollowsResults'
  BY <1>2, <1>4 DEF CountsInv, CountFollowsResults
<1>6. \A l \in Consumers, j \in Jobs, end \in EndSteps :
         Busy(l, end, j)' => Busy(l, end, j) \/ (l = k /\ j = i /\ end = "finish" /\ Full(i))
  BY <1>1, <1>3 DEF Busy, EndSteps, Moves
<1>7. CountsInv'
  BY <1>2, <1>5, <1>6 DEF CountsInv, Full
<1>8. AnnouncingInv'
  BY <1>2, <1>6 DEF AnnouncingInv, Ending, EndSteps, Announcements
<1>9. QED BY <1>7, <1>8

LEMMA FinishCounts ==
  ASSUME BaseInv, BaseInv', CountsInv, AnnouncingInv, NEW k \in Consumers, Finish(k)
  PROVE  CountsInv' /\ AnnouncingInv'
<1>1. PICK i \in Jobs : i = consumer[k].record.job
  BY BusyHasJob DEF Finish, ReducerSteps
<1>2. UNCHANGED <<results, events, mishaps>> /\ consumer[k].step = "finish" /\ Busy(k, "finish", i)
  BY <1>1 DEF Finish, Busy
<1>3. Full(i)
  BY <1>2 DEF CountsInv, EndSteps
<1>4. CASE job[i].status # "running"
  <2>1. job' = job /\ Moves(k, "commit")
    BY <1>1, <1>4, ContinueMoves DEF Finish
  <2>2. CountQuiet
    BY <1>2, <2>1 DEF CountQuiet, Moves, EndSteps, Announcements
  <2>3. QED BY <2>2, QuietCounts
<1>5. CASE job[i].status = "running"
  <2>1. Moves(k, "summary") /\ job' = [job EXCEPT ![i].status = "done"]
    BY <1>1, <1>5, ContinueMoves DEF Finish
  <2>2. /\ job'[i].status = "done"
        /\ \A j \in Jobs : job'[j].total = job[j].total /\ job'[j].completed = job[j].completed
        /\ \A j \in Jobs \ {i} : job'[j] = job[j]
    <3>1. job[i] \in CountedRow /\ job' = [job EXCEPT ![i] = [job[i] EXCEPT !.status = "done"]]
      BY <2>1 DEF BaseInv, TypeInv, Types
    <3>2. PICK row : row = [job[i] EXCEPT !.status = "done"]
      OBVIOUS
    <3>3. row.status = "done" /\ row.total = job[i].total /\ row.completed = job[i].completed
      BY <3>1, <3>2 DEF CountedRow
    <3>4. job'[i] = row /\ \A j \in Jobs \ {i} : job'[j] = job[j]
      BY <3>1, <3>2 DEF BaseInv, TypeInv, Types
    <3>5. QED BY <3>3, <3>4
  <2>3. \A j \in Jobs : Counting(j)' = Counting(j)
    BY <1>2, <2>1 DEF Counting, Moves, Consumers
  <2>4. CountFollowsResults'
    BY <1>2, <1>5, <2>2, <2>3 DEF CountsInv, CountFollowsResults
  <2>5. \A l \in Consumers, j \in Jobs, end \in EndSteps :
           Busy(l, end, j)' => Busy(l, end, j) \/ (l = k /\ j = i /\ end = "summary")
    BY <1>1, <2>1 DEF Busy, Moves
  <2>6. \A j \in Jobs : Full(j)' <=> Full(j)
    BY <2>2 DEF Full
  <2>7. CountsInv'
    <3>1. job[i].total # 0
      BY <1>1, <1>2, BusyHasJob DEF ReducerSteps, ChunksOf
    <3>2. QED BY <1>3, <2>2, <2>4, <2>5, <2>6, <3>1 DEF CountsInv
  <2>8. \A l \in Consumers, j \in Jobs : Ending(l, j)' => Ending(l, j) \/ (l = k /\ j = i)
    BY <2>5 DEF Ending, EndSteps
  <2>9. Announcements(i) = {} /\ \A l \in Consumers : ~Ending(l, i)
    BY <1>5 DEF AnnouncingInv
  <2>10. \A j \in Jobs : Announcements(j)' = Announcements(j)
    BY <1>2 DEF Announcements
  <2>11. AnnouncingInv'
    BY <2>2, <2>8, <2>9, <2>10 DEF AnnouncingInv
  <2>12. QED BY <2>7, <2>11
<1>6. QED BY <1>4, <1>5

LEMMA SummariseCounts ==
  ASSUME BaseInv, BaseInv', CountsInv, AnnouncingInv, NEW k \in Consumers, Summarise(k)
  PROVE  CountsInv' /\ AnnouncingInv'
<1>1. PICK i \in Jobs : i = consumer[k].record.job
  BY BusyHasJob DEF Summarise, ReducerSteps
<1>2. UNCHANGED <<job, results, events, mishaps>> /\ Busy(k, "summary", i)
  BY <1>1 DEF Summarise, tables, Busy
<1>3. CASE consumer' = [consumer EXCEPT ![k] = Resting("down")]
  <2>1. CountQuiet
    BY <1>2, <1>3 DEF CountQuiet, EndSteps, Announcements, Resting, Busy, BaseInv, TypeInv, Types
  <2>2. QED BY <2>1, QuietCounts
<1>4. CASE Continue(k, "announce")
  <2>1. Moves(k, "announce")
    BY <1>4, ContinueMoves
  <2>2. \A j \in Jobs : Counting(j)' = Counting(j)
    BY <1>2, <2>1 DEF Counting, Moves, Consumers, Busy
  <2>3. CountFollowsResults'
    BY <1>2, <2>2 DEF CountsInv, CountFollowsResults
  <2>4. \A l \in Consumers, j \in Jobs, end \in EndSteps :
           Busy(l, end, j)' => Busy(l, end, j) \/ (l = k /\ j = i /\ end = "announce")
    BY <1>1, <2>1 DEF Busy, Moves
  <2>5. Full(i)
    BY <1>2 DEF CountsInv, EndSteps
  <2>6. CountsInv'
    BY <1>2, <2>3, <2>4, <2>5 DEF CountsInv, Full
  <2>7. \A l \in Consumers, j \in Jobs : Ending(l, j)' => Ending(l, j)
    BY <1>2, <2>4 DEF Ending, EndSteps
  <2>8. AnnouncingInv'
    BY <1>2, <2>7 DEF AnnouncingInv, Announcements
  <2>9. QED BY <2>6, <2>8
<1>5. QED BY <1>3, <1>4 DEF Summarise

LEMMA AnnounceCounts ==
  ASSUME BaseInv, BaseInv', CountsInv, AnnouncingInv, NEW k \in Consumers, Announce(k)
  PROVE  CountsInv' /\ AnnouncingInv'
<1>1. PICK i \in Jobs : i = consumer[k].record.job
  BY BusyHasJob DEF Announce, ReducerSteps
<1>2. /\ UNCHANGED <<job, results, mishaps>> /\ Busy(k, "announce", i) /\ Moves(k, "commit")
      /\ events' = [events EXCEPT ![i] = Append(@, "job_done")]
  BY <1>1, ContinueMoves DEF Announce, Busy
<1>3. job[i].status = "done" /\ Announcements(i) = {}
  BY <1>2 DEF AnnouncingInv, Ending
<1>4. \A j \in Jobs : Counting(j)' = Counting(j)
  BY <1>2 DEF Counting, Moves, Consumers, Busy
<1>5. CountFollowsResults'
  BY <1>2, <1>4 DEF CountsInv, CountFollowsResults
<1>6. \A l \in Consumers, j \in Jobs, end \in EndSteps : Busy(l, end, j)' => Busy(l, end, j) /\ l # k
  BY <1>2 DEF Busy, EndSteps, Moves
<1>7. CountsInv'
  BY <1>2, <1>5, <1>6 DEF CountsInv, Full
<1>8. \A m, n \in Announcements(i)' : m = n
  <2>1. events[i] \in Seq(EventTypes) /\ events'[i] = Append(events[i], "job_done") /\ "job_done" \in EventTypes
    BY <1>2 DEF BaseInv, TypeInv, Types, EventTypes
  <2>2. /\ Len(events[i]) \in Nat /\ DOMAIN events[i] = 1..Len(events[i])
        /\ DOMAIN Append(events[i], "job_done") = 1..Len(events[i]) + 1
        /\ \A n \in 1..Len(events[i]) : Append(events[i], "job_done")[n] = events[i][n]
    BY <2>1, AppendProperties, LenProperties
  <2>3. \A n \in 1..Len(events[i]) : events[i][n] # "job_done"
    BY <1>3, <2>2 DEF Announcements
  <2>4. QED BY <2>1, <2>2, <2>3 DEF Announcements
<1>9. \A j \in Jobs \ {i} : Announcements(j)' = Announcements(j)
  BY <1>2 DEF Announcements, BaseInv, TypeInv, Types
<1>10. \A l \in Consumers, j \in Jobs : Ending(l, j)' => Ending(l, j) /\ j # i
  BY <1>2, <1>6 DEF Ending, EndSteps, AnnouncingInv
<1>11. AnnouncingInv'
  BY <1>2, <1>3, <1>8, <1>9, <1>10 DEF AnnouncingInv
<1>12. QED BY <1>7, <1>11

LEMMA CancelCounts ==
  ASSUME BaseInv, BaseInv', CountsInv, AnnouncingInv, NEW i \in Jobs, CancelJob(i)
  PROVE  CountsInv' /\ AnnouncingInv'
<1>1. UNCHANGED <<results, events, consumer, mishaps>> /\ job[i].status # "done"
      /\ job' = [job EXCEPT ![i].status = "cancelled"]
  BY DEF CancelJob, kafka
<1>2. /\ job'[i].status = "cancelled"
      /\ \A j \in Jobs : job'[j].total = job[j].total /\ job'[j].completed = job[j].completed
      /\ \A j \in Jobs \ {i} : job'[j] = job[j]
  <2>1. job[i] \in CountedRow /\ job' = [job EXCEPT ![i] = [job[i] EXCEPT !.status = "cancelled"]]
    BY <1>1 DEF BaseInv, TypeInv, Types
  <2>2. PICK row : row = [job[i] EXCEPT !.status = "cancelled"]
    OBVIOUS
  <2>3. row.status = "cancelled" /\ row.total = job[i].total /\ row.completed = job[i].completed
    BY <2>1, <2>2 DEF CountedRow
  <2>4. job'[i] = row /\ \A j \in Jobs \ {i} : job'[j] = job[j]
    BY <2>1, <2>2 DEF BaseInv, TypeInv, Types
  <2>5. QED BY <2>3, <2>4
<1>3. \A j \in Jobs : Counting(j)' = Counting(j) /\ Announcements(j)' = Announcements(j)
  BY <1>1 DEF Counting, Announcements
<1>4. CountFollowsResults'
  BY <1>1, <1>2, <1>3 DEF CountsInv, CountFollowsResults
<1>5. CountsInv'
  BY <1>1, <1>2, <1>4 DEF CountsInv, Full, Busy
<1>6. Announcements(i) = {} /\ \A k \in Consumers : ~Ending(k, i)
  BY <1>1 DEF AnnouncingInv
<1>7. AnnouncingInv'
  BY <1>1, <1>2, <1>3, <1>6 DEF AnnouncingInv, Ending, Busy
<1>8. QED BY <1>5, <1>7

LEMMA SubmitCounts ==
  ASSUME BaseInv, BaseInv', CountsInv, AnnouncingInv, NEW i \in Jobs, Submit(i)
  PROVE  CountsInv' /\ AnnouncingInv'
<1>1. PICK total \in 0..MaxChunks, large \in 0..MaxChunks : CreateJob(i, request[i].type, total, large)
  BY DEF Submit
<1>2. UNCHANGED <<results, events, consumer, mishaps>>
  BY <1>1 DEF CreateJob
<1>3. /\ job'[i].status = "running" /\ job'[i].completed = 0
      /\ \A j \in Jobs \ {i} : job'[j] = job[j]
  BY <1>1 DEF CreateJob, BaseInv, TypeInv, Types
<1>4. job[i].status = "absent" /\ job[i].total = 0 /\ results[i] = {}
  <2>1. job[i].status = "absent" /\ job[i].total = 0
    BY <1>1 DEF CreateJob, BaseInv, KnownInv, RowsKnown
  <2>2. ChunksOf(i) = {}
    BY <2>1 DEF ChunksOf
  <2>3. QED BY <2>1, <2>2 DEF BaseInv, KnownInv, RowsKnown
<1>5. ASSUME NEW k \in Consumers, NEW step \in ReducerSteps PROVE ~Busy(k, step, i)
  BY <1>4, <1>5, BusyHasJob DEF Busy
<1>6. Counting(i) = {}
  BY <1>5 DEF Counting, Busy, ReducerSteps, Consumers
<1>7. \A j \in Jobs : Counting(j)' = Counting(j) /\ Announcements(j)' = Announcements(j)
  BY <1>2 DEF Counting, Announcements
<1>8. CountRule(i)'
  BY <1>2, <1>3, <1>4, <1>6, <1>7, FS_EmptySet DEF CountRule
<1>9. CountFollowsResults'
  <2>1. \A j \in Jobs \ {i} : CountRule(j)'
    BY <1>2, <1>3, <1>7 DEF CountsInv, CountFollowsResults, CountRule
  <2>2. QED BY <1>8, <2>1 DEF CountFollowsResults, CountRule
<1>10. \A k \in Consumers, j \in Jobs, step \in EndSteps : Busy(k, step, j)' => Busy(k, step, j) /\ j # i
  BY <1>2, <1>5 DEF Busy, EndSteps, ReducerSteps
<1>11. CountsInv'
  BY <1>3, <1>9, <1>10 DEF CountsInv, Full
<1>12. Announcements(i) = {}
  BY <1>4 DEF AnnouncingInv
<1>13. AnnouncingInv'
  BY <1>2, <1>3, <1>7, <1>10, <1>12 DEF AnnouncingInv, Ending, EndSteps
<1>14. QED BY <1>11, <1>13

LEMMA CountsNext ==
  ASSUME BaseInv, BaseInv', CountsInv, AnnouncingInv, [Next]_jobVars
  PROVE  CountsInv' /\ AnnouncingInv'
<1>1. CASE UNCHANGED jobVars
  BY <1>1, NotAConsumer, QuietCounts
<1>2. ASSUME NEW j \in Jobs, Submit(j) \/ Serve(j) \/ RequestFails(j) \/ CancelJob(j) \/ Poll(j)
      PROVE  CountsInv' /\ AnnouncingInv'
  <2>1. CASE Submit(j) \/ CancelJob(j)
    BY <2>1, SubmitCounts, CancelCounts
  <2>2. CASE Serve(j) \/ RequestFails(j) \/ Poll(j)
    <3>1. CountQuiet
      BY <2>2, NotAConsumer DEF Serve
    <3>2. QED BY <3>1, QuietCounts
  <2>3. QED BY <1>2, <2>1, <2>2
<1>3. ASSUME NEW k \in Consumers, Start(k) \/ Consume(k) \/ Die(k) \/ CommitRefused(k)
      PROVE  CountsInv' /\ AnnouncingInv'
  <2>1. CASE Start(k) \/ Die(k) \/ CommitRefused(k) \/ Commit(k)
    BY <2>1, NotOneOfTheReducers, QuietCounts
  <2>2. CASE Count(k) \/ Look(k) \/ Finish(k) \/ Summarise(k) \/ Announce(k)
    BY <2>2, CountCounts, LookCounts, FinishCounts, SummariseCounts, AnnounceCounts
  <2>3. ASSUME NEW q \in Topics, NEW r \in queue[q],
               \/ k = "router" /\ Route(k, r)
               \/ Work(k, r)
               \/ k \in Reducers /\ Store(k, r)
               \/ k = "monitor" /\ ProcessLetter(k, q, r)
        PROVE  CountsInv' /\ AnnouncingInv'
    <3>1. CASE k \in Reducers /\ Store(k, r)
      BY <3>1, StoreCounts
    <3>2. CASE Route(k, r) \/ Work(k, r) \/ ProcessLetter(k, q, r)
      <4>1. CountQuiet
        BY <3>2, NotOneOfTheReducers
      <4>2. QED BY <4>1, QuietCounts
    <3>3. QED BY <2>3, <3>1, <3>2
  <2>4. QED BY <1>3, <2>1, <2>2, <2>3 DEF Consume
<1>4. ASSUME NEW list \in RetryLists, RetryLoop(list) \/ \E r \in queue[list] : RetryFails(list, r)
      PROVE  CountsInv' /\ AnnouncingInv'
  <2>1. CountQuiet
    BY <1>4, NotAConsumer DEF RetryLoop
  <2>2. QED BY <2>1, QuietCounts
<1>5. QED BY <1>1, <1>2, <1>3, <1>4 DEF Next

LEMMA CountsInit == Init => CountsInv /\ AnnouncingInv
<1> SUFFICES ASSUME Init PROVE CountsInv /\ AnnouncingInv
  OBVIOUS
<1>1. \A j \in Jobs : job[j].status = "absent" /\ job[j].completed = 0 /\ results[j] = {}
  BY DEF Init
<1>2. \A k \in Consumers : consumer[k].step \in {"down", "idle"}
  BY DEF Init, Resting
<1>3. \A j \in Jobs : Counting(j) = {} /\ Announcements(j) = {}
  <2>1. \A j \in Jobs : Counting(j) = {}
    BY <1>2 DEF Counting, Consumers
  <2>2. ASSUME NEW j \in Jobs PROVE Announcements(j) = {}
    <3>1. events[j] = << >> /\ DOMAIN events[j] = {}
      BY DEF Init
    <3>2. QED BY <3>1 DEF Announcements
  <2>3. QED BY <2>1, <2>2
<1>4. CountFollowsResults
  BY <1>1, <1>3, FS_EmptySet DEF CountFollowsResults
<1>5. CountsInv
  BY <1>1, <1>2, <1>4 DEF CountsInv, Busy, EndSteps
<1>6. AnnouncingInv
  BY <1>2, <1>3 DEF AnnouncingInv, Ending, Busy
<1>7. QED BY <1>5, <1>6

-----------------------------------------------------------------------------
(* The theorems *)

IInv == BaseInv /\ DeliveryInv /\ CountsInv /\ AnnouncingInv

LEMMA IInvNext == IInv /\ [Next]_jobVars => IInv'
  BY NextTypes, DeliveryNext, CountsNext DEF IInv, BaseInv

LEMMA InvariantHolds == Spec => []IInv
<1>1. Init => IInv
  BY InitTypes, DeliveryInit, CountsInit DEF IInv, BaseInv
<1>2. QED BY <1>1, IInvNext, PTL DEF Spec

(***************************************************************************)
(* The tables keep their types and the counter never runs ahead of the     *)
(* stored results; without mishaps it does not fall behind                 *)
(* (services/reducer/reducer.py).                                          *)
(***************************************************************************)
THEOREM CounterFollowsResults == Spec => []JobInv
<1>1. ASSUME IInv PROVE JobInv
  <2>1. ASSUME NEW j \in Jobs PROVE job[j] \in JobRow
    <3>1. job[j] \in CountedRow
      BY <1>1 DEF IInv, BaseInv, TypeInv, Types
    <3>2. job[j].completed + Cardinality(Counting(j)) <= Cardinality(results[j])
      BY <1>1 DEF IInv, CountsInv, CountFollowsResults
    <3>3. job[j].completed <= job[j].total
      BY <1>1, <3>2, Finiteness DEF IInv
    <3>4. QED BY <3>1, <3>3, JobAssumption DEF CountedRow, JobRow
  <2>2. job \in [Jobs -> JobRow]
    BY <1>1, <2>1 DEF IInv, BaseInv, TypeInv, Types
  <2>3. JobTypeOK
    BY <1>1, <2>2 DEF IInv, BaseInv, TypeInv, Types, QueuesFinite, HandsOK, ConsumerState, JobTypeOK
  <2>4. QED BY <1>1, <2>3 DEF IInv, CountsInv, JobInv
<1>2. QED BY <1>1, InvariantHolds, PTL

\* A job that is done has chunks, and the result of each of them is stored.
THEOREM DoneJobsAreComplete == Spec => []DoneIsComplete
<1>1. ASSUME IInv PROVE DoneIsComplete
  <2>1. ASSUME NEW j \in Jobs, job[j].status = "done" PROVE results[j] = ChunksOf(j) /\ ChunksOf(j) # {}
    <3>1. Full(j) /\ job[j].total # 0
      BY <1>1, <2>1 DEF IInv, CountsInv
    <3>2. results[j] = ChunksOf(j)
      BY <1>1, <3>1, FullIsComplete DEF IInv
    <3>3. 0 \in ChunksOf(j)
      BY <1>1, <3>1, Finiteness DEF IInv, ChunksOf
    <3>4. QED BY <3>2, <3>3
  <2>2. QED BY <2>1 DEF DoneIsComplete
<1>2. QED BY <1>1, InvariantHolds, PTL

\* The end of a job is announced at most once, and never to a watcher whom results are missing.
THEOREM EndIsAnnouncedOnce == Spec => []AnnouncedOnce
<1>1. ASSUME IInv PROVE AnnouncedOnce
  <2>1. ASSUME NEW j \in Jobs
        PROVE  /\ Cardinality(Announcements(j)) <= 1
               /\ Announcements(j) # {} => job[j].status = "done"
               /\ Closed(j) => results[j] = ChunksOf(j)
    <3>1. Announcements(j) # {} => job[j].status = "done"
      BY <1>1 DEF IInv, AnnouncingInv
    <3>2. Announcements(j) = {} \/ \E m : Announcements(j) = {m}
      BY <1>1 DEF IInv, AnnouncingInv
    <3>3. Cardinality(Announcements(j)) <= 1
      <4>1. PICK S : S = Announcements(j)
        OBVIOUS
      <4>2. Cardinality(S) = 0 \/ Cardinality(S) = 1
        BY <3>2, <4>1, FS_EmptySet, FS_Singleton
      <4>3. QED BY <4>1, <4>2
    <3>4. ASSUME Closed(j) PROVE results[j] = ChunksOf(j)
      <4>1. Announcements(j) # {}
        BY <3>4 DEF Closed, Announcements
      <4>2. Full(j)
        BY <1>1, <3>1, <4>1 DEF IInv, CountsInv
      <4>3. QED BY <1>1, <4>2, FullIsComplete DEF IInv
    <3>5. QED BY <3>1, <3>3, <3>4
  <2>2. QED BY <2>1 DEF AnnouncedOnce
<1>2. QED BY <1>1, InvariantHolds, PTL

(***************************************************************************)
(* A chunk disappears only when Kafka refused one of its records unseen, a *)
(* group began at the end of its topic or the monitor died with it on a    *)
(* list; deaths between receiving, sending and committing lose none.       *)
(***************************************************************************)
THEOREM NoChunkIsLost == Spec => []ChunkAccountedFor
<1>1. ASSUME IInv PROVE ChunkAccountedFor
  <2>1. ASSUME NEW j \in Jobs, NEW c \in ChunksOf(j)
        PROVE  \/ c \in request[j].unsent \cup results[j] \cup givenUp[j] \cup lost[j]
               \/ \E q \in Queues : \E r \in queue[q] : r.job = j /\ r.chunk = c
    <3>1. Traced(j, c)
      BY <1>1 DEF IInv, DeliveryInv, AllTraced
    <3>2. QED BY <3>1 DEF Traced, Gone, Free
  <2>2. QED BY <2>1 DEF ChunkAccountedFor
<1>2. QED BY <1>1, InvariantHolds, PTL

\* Nothing that arrives late changes the status of a job that is done or cancelled.
THEOREM FinishedJobsStay == Spec => FinishedStays
<1>1. ASSUME IInv, [Next]_jobVars, NEW j \in Jobs, job[j].status \in Finished
      PROVE  job'[j].status = job[j].status
  <2> USE DEF tables
  <2>1. CASE job' = job
    BY <2>1
  <2>2. ASSUME NEW i \in Jobs, Submit(i)
        PROVE  job'[j].status = job[j].status
    <3>1. PICK total \in 0..MaxChunks, large \in 0..MaxChunks : CreateJob(i, request[i].type, total, large)
      BY <2>2 DEF Submit
    <3>2. job[i].status = "absent"
      BY <1>1, <3>1 DEF CreateJob, IInv, BaseInv, KnownInv, RowsKnown
    <3>3. i # j
      BY <1>1, <3>2 DEF Finished
    <3>4. QED BY <1>1, <3>1, <3>3 DEF CreateJob, IInv, BaseInv, TypeInv, Types
  <2>3. ASSUME NEW i \in Jobs, CancelJob(i)
        PROVE  job'[j].status = job[j].status
    BY <1>1, <2>3 DEF CancelJob, Finished, IInv, BaseInv, TypeInv, Types
  <2>4. ASSUME NEW k \in Consumers, Count(k)
        PROVE  job'[j].status = job[j].status
    <3>1. PICK i \in Jobs : job' = job \/ (job[i].status = "running" /\ job' = [job EXCEPT ![i].completed = @ + 1])
      BY <1>1, <2>4, BusyHasJob DEF Count, ReducerSteps, IInv
    <3>2. QED BY <1>1, <3>1 DEF Finished, IInv, BaseInv, TypeInv, Types
  <2>5. ASSUME NEW k \in Consumers, Finish(k)
        PROVE  job'[j].status = job[j].status
    <3>1. PICK i \in Jobs : job' = job \/ (job[i].status = "running" /\ job' = [job EXCEPT ![i].status = "done"])
      BY <1>1, <2>5, BusyHasJob DEF Finish, ReducerSteps, IInv
    <3>2. QED BY <1>1, <3>1 DEF Finished, IInv, BaseInv, TypeInv, Types
  <2>6. \/ job' = job
        \/ \E i \in Jobs : Submit(i) \/ CancelJob(i)
        \/ \E k \in Consumers : Count(k) \/ Finish(k)
    <3>1. CASE UNCHANGED jobVars
      BY <3>1 DEF jobVars
    <3>2. ASSUME NEW i \in Jobs, Serve(i) \/ RequestFails(i) \/ Poll(i) PROVE job' = job
      BY <3>2 DEF Serve, RequestFails, Poll, RecordCreated, Answer, RecordCancelled, SendChunk
    <3>3. ASSUME NEW k \in Consumers, Start(k) \/ Consume(k) \/ Die(k) \/ CommitRefused(k)
          PROVE  job' = job \/ Count(k) \/ Finish(k)
      BY <3>3 DEF Start, Consume, Die, CommitRefused, Route, Work, SkipUnsupported, Succeed, Fail, FailUnreported,
                  Store, Look, Summarise, Announce, ProcessLetter, Commit
    <3>4. ASSUME NEW list \in RetryLists, RetryLoop(list) \/ \E r \in queue[list] : RetryFails(list, r)
          PROVE  job' = job
      BY <3>4 DEF RetryLoop, Retry, RetryFails
    <3>5. QED BY <1>1, <3>1, <3>2, <3>3, <3>4 DEF Next
  <2>7. QED BY <2>1, <2>2, <2>3, <2>4, <2>5, <2>6
<1>2. IInv /\ [Next]_jobVars =>
        [\A j \in Jobs : job[j].status \in Finished => job'[j].status = job[j].status]_jobVars
  BY <1>1
<1>3. QED BY <1>2, InvariantHolds, PTL DEF Spec, FinishedStays
=============================================================================
