--------------------------- MODULE ServingProofs ----------------------------
(***************************************************************************)
(* What serves one caller at a time: the endpoints of the                  *)
(* OpenAI-compatible API and its simple workers (ApiTasks), the table of   *)
(* WebSockets (Connections), and a worker with a chunk of a job in hand    *)
(* (ModelExecution).                                                       *)
(*                                                                         *)
(* ApiInv holds for any numbers of calls, simple workers and open two-tier *)
(* requests, any size of the fetched list and any number of mishaps. What  *)
(* must be added: until a second simple worker takes up a row, nobody but  *)
(* the first writes an end of it or a result that looks like one, so that  *)
(* what this worker reads differs from what it writes.                     *)
(*                                                                         *)
(* ConnInv holds for any number of sockets, client ids, rooms and          *)
(* notifiers. It is not inductive: that a client is still registered when  *)
(* an endpoint or a broadcast unregisters an id depends on who else may    *)
(* have that id, and on whom a broadcast waits for under it.               *)
(*                                                                         *)
(* ExecutionInv and ResultsFollowItems hold for any items, ranges,         *)
(* languages, size of a batch and number of exceptions. What must be       *)
(* added: at every step of a chunk there is one reply for each item        *)
(* passed. That is_prime finds the primes is a fact about numbers, proved  *)
(* for all of them.                                                        *)
(***************************************************************************)
EXTENDS ApiTasks, Connections, ModelExecution, FiniteSums, SequenceTheorems

-----------------------------------------------------------------------------
(* The OpenAI-compatible API and its simple workers *)

CallStates == {"none", "waiting", "placeholder", "answer", "error", "submission"}

\* What each simple worker holds is a record.
HandsOK ==
  /\ DOMAIN hand = Simple
  /\ \A x \in Simple :
       hand[x] = [list |-> hand[x].list, doing |-> hand[x].doing, seen |-> hand[x].seen]

\* A two-tier request never writes a status of the simple workers, nor a result of theirs that
\* it has not read.
RequestsOK ==
  \A v \in Visits :
    tier[v] # NoVisit =>
      /\ tier[v].new.status \notin {"processing", "completed", "failed"}
      /\ tier[v].new.status # tier[v].seen.status
      /\ tier[v].new.result \in {"none", "submission", tier[v].seen.result}

\* Simple worker x is at row t.
At(x, t) == hand[x].doing \in {"marked", "task"} /\ Head(hand[x].list) = t

\* No simple worker has written the end of the row.
Untouched(r) == r.status \notin {"completed", "failed"} /\ r.result \notin {"answer", "error"}

\* A row that one simple worker took up, if any, is as that worker expects it to be.
Alone(t) ==
  /\ starts[t] = 0 => Untouched(row[t]) /\ \A x \in Simple : ~At(x, t)
  /\ starts[t] = 1 =>
       \A x \in Simple :
         At(x, t) =>
           /\ \A y \in Simple \ {x} : ~At(y, t)
           /\ Untouched(row[t])
           /\ hand[x].doing = "task" => Untouched(hand[x].seen)
  /\ starts[t] # 2 /\ row[t].status = "completed" => row[t].result = "answer"

AnswersInv == ApiInv /\ HandsOK /\ RequestsOK /\ \A t \in Calls : Alone(t)

-----------------------------------------------------------------------------
(* Rows and hands *)

\* A column that does not differ from what was read stays, and the others are written.
LEMMA UpdatedRow ==
  ASSUME NEW now \in TaskRows, NEW new \in TaskRows, NEW seen
  PROVE  /\ Updated(now, seen, new) \in TaskRows
         /\ Updated(now, seen, new).status = IF new.status = seen.status THEN now.status ELSE new.status
         /\ Updated(now, seen, new).result = IF new.result = seen.result THEN now.result ELSE new.result
  <1>1. DOMAIN now = {"status", "result"}
    BY DEF TaskRows
  <1>2. Updated(now, seen, new) =
          [c \in {"status", "result"} |-> IF new[c] = seen[c] THEN now[c] ELSE new[c]]
    BY <1>1 DEF Updated
  <1>3. now.status \in Statuses /\ now.result \in Results /\ new.status \in Statuses /\ new.result \in Results
    BY DEF TaskRows
  <1> DEFINE u == [status |-> IF new.status = seen.status THEN now.status ELSE new.status,
                   result |-> IF new.result = seen.result THEN now.result ELSE new.result]
  <1>4. Updated(now, seen, new) = u
    BY <1>2
  <1>5. u \in TaskRows
    BY <1>3 DEF TaskRows
  <1> QED
    BY <1>4, <1>5

\* What AnswersInv says of the types.
LEMMA RowTypes ==
  ASSUME AnswersInv
  PROVE  /\ row \in [Calls -> TaskRows]
         /\ call \in [Calls -> CallStates]
         /\ tier \in [Visits -> Requests]
         /\ starts \in [Calls -> 0 .. 2]
         /\ mishaps \in 0 .. MaxMishaps
         /\ \A t \in Calls : row[t] \in TaskRows /\ row[t].status \in Statuses /\ row[t].result \in Results
  <1>1. row \in [Calls -> TaskRows]
    BY DEF AnswersInv, ApiInv, ApiTypeOK
  <1>2. \A t \in Calls : row[t] \in TaskRows /\ row[t].status \in Statuses /\ row[t].result \in Results
    BY <1>1 DEF TaskRows
  <1> QED
    BY <1>1, <1>2 DEF AnswersInv, ApiInv, ApiTypeOK, CallStates

\* A row that gets what r says keeps its type, and the others are as they were.
LEMMA RowStep ==
  ASSUME AnswersInv, NEW t \in Calls, NEW r \in TaskRows, row' = [row EXCEPT ![t] = r]
  PROVE  /\ row' \in [Calls -> TaskRows]
         /\ row'[t] = r
         /\ \A u \in Calls \ {t} : row'[u] = row[u]
  BY RowTypes

\* Steps of the endpoints and of the two-tier requests: they leave the simple workers alone, and
\* write no status and no result of theirs.
LEMMA RowsKept ==
  ASSUME AnswersInv, hand' = hand, mishaps' = mishaps, starts' = starts,
         row' \in [Calls -> TaskRows], call' \in [Calls -> CallStates],
         tier' \in [Visits -> Requests], RequestsOK',
         \A t \in Calls : \/ row'[t] = row[t]
                         \/ /\ row'[t].status \notin {"processing", "completed", "failed"}
                            /\ row'[t].result \in {"none", "submission", row[t].result},
         \A t \in Calls : call'[t] \in {"error", "submission"} => starts[t] = 2
  PROVE  AnswersInv'
  <1>1. ApiTypeOK' /\ HandsOK'
    BY DEF AnswersInv, ApiInv, ApiTypeOK, HandsOK, CallStates
  <1>2. RepliesAreAnswers'
    BY DEF RepliesAreAnswers
  <1>3. ProcessingHasOwner'
    <2>1. \A t \in Calls : row'[t].status = "processing" => row[t].status = "processing"
      OBVIOUS
    <2> QED
      BY <2>1 DEF AnswersInv, ApiInv, ProcessingHasOwner, Rows, Serves
  <1>4. ASSUME NEW t \in Calls
        PROVE  Alone(t)'
    <2>1. Alone(t)
      BY DEF AnswersInv
    <2>2. Untouched(row[t]) => Untouched(row'[t])
      BY DEF Untouched
    <2>3. row'[t].status = "completed" => row'[t] = row[t]
      OBVIOUS
    <2> QED
      BY <2>1, <2>2, <2>3 DEF Alone, At
  <1> QED
    BY <1>1, <1>2, <1>3, <1>4 DEF AnswersInv, ApiInv

-----------------------------------------------------------------------------
(* The endpoints and the two-tier requests *)

\* An endpoint inserts a pending row.
LEMMA InsertKeeps ==
  ASSUME AnswersInv, NEW t \in Calls, NEW state \in {"waiting", "placeholder"}, Insert(t, state)
  PROVE  AnswersInv'
  <1> DEFINE new == [status |-> "pending", result |-> "none"]
  <1>1. new \in TaskRows /\ new.status = "pending" /\ new.result = "none"
    BY DEF TaskRows, Statuses, Results
  <1>2. /\ row' = [row EXCEPT ![t] = new] /\ call' = [call EXCEPT ![t] = state]
        /\ UNCHANGED <<hand, tier, mishaps, starts>>
    BY DEF Insert
  <1> HIDE DEF new
  <1>3. row' \in [Calls -> TaskRows] /\ row'[t] = new /\ \A u \in Calls \ {t} : row'[u] = row[u]
    BY <1>1, <1>2, RowStep
  <1>4. call' \in [Calls -> CallStates] /\ \A u \in Calls : call'[u] \in {"error", "submission"} => starts[u] = 2
    BY <1>2, RowTypes DEF CallStates, AnswersInv, ApiInv, RepliesAreAnswers
  <1>5. RequestsOK'
    BY <1>2 DEF AnswersInv, RequestsOK
  <1> QED
    BY <1>1, <1>2, <1>3, <1>4, <1>5, RowTypes, RowsKept

\* A request that waits gets its reply, or gives up.
LEMMA ReplyKeeps ==
  ASSUME AnswersInv, NEW t \in Calls, Reply(t) \/ TimeOut(t)
  PROVE  AnswersInv'
  <1>1. /\ ReplyText(t) \in {"placeholder", "answer", "error", "submission"}
        /\ ReplyText(t) \in {"error", "submission"} => starts[t] = 2
    <2>1. starts[t] # 2 /\ row[t].status = "completed" => row[t].result = "answer"
      BY DEF AnswersInv, Alone
    <2> QED
      BY <2>1, RowTypes DEF ReplyText, Results
  <1>2. PICK text \in {"placeholder", "answer", "error", "submission"} :
          call' = [call EXCEPT ![t] = text] /\ (text \in {"error", "submission"} => starts[t] = 2)
    BY <1>1 DEF Reply, TimeOut
  <1>3. /\ call' \in [Calls -> CallStates]
        /\ \A u \in Calls : call'[u] \in {"error", "submission"} => starts[u] = 2
    BY <1>2, RowTypes DEF CallStates, AnswersInv, ApiInv, RepliesAreAnswers
  <1>4. UNCHANGED <<row, hand, tier, mishaps, starts>>
    BY DEF Reply, TimeOut
  <1>5. RequestsOK'
    BY <1>4 DEF AnswersInv, RequestsOK
  <1> QED
    BY <1>3, <1>4, <1>5, RowTypes, RowsKept

\* What a two-tier request makes of a row it read.
LEMMA TierRowsOK ==
  ASSUME NEW seen \in TaskRows, NEW new \in TierRows(seen)
  PROVE  /\ new \in TaskRows
         /\ new.status \notin {"processing", "completed", "failed"}
         /\ new.status # seen.status
         /\ new.result \in {"none", "submission", seen.result}
  <1>1. seen = [status |-> seen.status, result |-> seen.result] /\ seen.result \in Results
    BY DEF TaskRows
  <1>2. \A s : [seen EXCEPT !.status = s] = [status |-> s, result |-> seen.result]
    BY <1>1
  <1>3. \/ /\ seen.status = "pending"
           /\ new = [status |-> "assigned", result |-> seen.result]
        \/ /\ seen.status = "assigned"
           /\ new \in {[status |-> "submitted_A", result |-> "submission"],
                       [status |-> "pending", result |-> seen.result],
                       [status |-> "pending", result |-> "none"]}
        \/ /\ seen.status = "submitted_A"
           /\ new \in {[status |-> "validating", result |-> seen.result],
                       [status |-> "pending", result |-> "none"]}
        \/ /\ seen.status = "validating"
           /\ new \in {[status |-> "done", result |-> seen.result],
                       [status |-> "rejected", result |-> seen.result],
                       [status |-> "submitted_A", result |-> seen.result]}
    BY <1>2 DEF TierRows
  <1>4. PICK s \in {"assigned", "submitted_A", "pending", "validating", "done", "rejected"},
             r \in {"none", "submission", seen.result} :
          new = [status |-> s, result |-> r] /\ s # seen.status
    BY <1>3
  <1>5. s \in Statuses /\ r \in Results
    BY <1>1 DEF Statuses, Results
  <1> QED
    BY <1>4, <1>5 DEF TaskRows

\* A two-tier request reads a row.
LEMMA TierReadKeeps ==
  ASSUME AnswersInv, NEW v \in Visits, NEW t \in Twins, TierRead(v, t)
  PROVE  AnswersInv'
  <1>1. t \in Calls
    BY ApiAssumption
  <1>2. PICK new \in TierRows(row[t]) :
          tier' = [tier EXCEPT ![v] = [task |-> t, seen |-> row[t], new |-> new]]
    BY DEF TierRead
  <1>3. row[t] \in TaskRows
    BY <1>1, RowTypes
  <1>4. /\ new \in TaskRows
        /\ new.status \notin {"processing", "completed", "failed"}
        /\ new.status # row[t].status
        /\ new.result \in {"none", "submission", row[t].result}
    BY <1>3, TierRowsOK
  <1>5. [task |-> t, seen |-> row[t], new |-> new] \in Requests
    BY <1>3, <1>4 DEF Requests
  <1>6. tier' \in [Visits -> Requests]
    BY <1>2, <1>5, RowTypes
  <1>7. RequestsOK'
    BY <1>2, <1>4, RowTypes DEF AnswersInv, RequestsOK
  <1>8. UNCHANGED <<row, call, hand, mishaps, starts>>
    BY DEF TierRead
  <1> QED
    BY <1>6, <1>7, <1>8, RowTypes, RowsKept DEF AnswersInv, ApiInv, RepliesAreAnswers

\* It writes what it made of it.
LEMMA TierCommitKeeps ==
  ASSUME AnswersInv, NEW v \in Visits, TierCommit(v)
  PROVE  AnswersInv'
  <1> DEFINE r == tier[v]
             t == r.task
             written == Updated(row[t], r.seen, r.new)
  <1>1. /\ r # NoVisit
        /\ \/ row' = [row EXCEPT ![t] = written]
           \/ row' = [row EXCEPT ![t] = [written EXCEPT !.result = "submission"]]
        /\ tier' = [tier EXCEPT ![v] = NoVisit]
        /\ UNCHANGED <<call, hand, mishaps, starts>>
    BY DEF TierCommit
  <1>2. t \in Calls /\ r.new \in TaskRows
    BY <1>1, RowTypes, ApiAssumption DEF Requests
  <1>3. /\ r.new.status \notin {"processing", "completed", "failed"}
        /\ r.new.status # r.seen.status
        /\ r.new.result \in {"none", "submission", r.seen.result}
    BY <1>1 DEF AnswersInv, RequestsOK
  <1>4. row[t] \in TaskRows
    BY <1>2, RowTypes
  <1>5. /\ written \in TaskRows
        /\ written.status = r.new.status
        /\ written.result \in {"none", "submission", row[t].result}
    BY <1>2, <1>3, <1>4, UpdatedRow
  <1> HIDE DEF written
  <1>6. /\ [written EXCEPT !.result = "submission"] \in TaskRows
        /\ [written EXCEPT !.result = "submission"].status = r.new.status
        /\ [written EXCEPT !.result = "submission"].result = "submission"
    BY <1>5 DEF TaskRows, Results
  <1>7. PICK new \in TaskRows :
          /\ row' = [row EXCEPT ![t] = new]
          /\ new.status = r.new.status /\ new.result \in {"none", "submission", row[t].result}
    BY <1>1, <1>5, <1>6
  <1>8. row' \in [Calls -> TaskRows] /\ row'[t] = new /\ \A u \in Calls \ {t} : row'[u] = row[u]
    BY <1>2, <1>7, RowStep
  <1>9. tier' \in [Visits -> Requests] /\ RequestsOK'
    BY <1>1, RowTypes DEF AnswersInv, RequestsOK, Requests
  <1>10. \A u \in Calls : call'[u] \in {"error", "submission"} => starts[u] = 2
    BY <1>1 DEF AnswersInv, ApiInv, RepliesAreAnswers
  <1>11. \A u \in Calls : \/ row'[u] = row[u]
                          \/ /\ row'[u].status \notin {"processing", "completed", "failed"}
                             /\ row'[u].result \in {"none", "submission", row[u].result}
    BY <1>3, <1>7, <1>8
  <1> QED
    BY <1>1, <1>8, <1>9, <1>10, <1>11, RowTypes, RowsKept

-----------------------------------------------------------------------------
(* The simple workers *)

\* The hand of one worker becomes another record.
LEMMA HandStep ==
  ASSUME AnswersInv, NEW x \in Simple, NEW list, NEW doing, NEW seen,
         hand' = [hand EXCEPT ![x] = [list |-> list, doing |-> doing, seen |-> seen]]
  PROVE  /\ HandsOK'
         /\ hand'[x] = [list |-> list, doing |-> doing, seen |-> seen]
         /\ \A y \in Simple \ {x} : hand'[y] = hand[y]
  BY DEF AnswersInv, HandsOK

\* What a step of worker x has to keep besides.
LEMMA HandKeeps ==
  ASSUME AnswersInv, NEW x \in Simple, HandsOK', UNCHANGED <<call, tier>>,
         \A y \in Simple \ {x} : hand'[y] = hand[y],
         hand'[x].doing \in {"nothing", "list", "marked", "task"},
         hand'[x].doing = "nothing" => hand'[x] = Resting,
         mishaps' \in 0 .. MaxMishaps, mishaps' = 0 => mishaps = 0,
         row' \in [Calls -> TaskRows], starts' \in [Calls -> 0 .. 2],
         \A t \in Calls : starts[t] = 2 => starts'[t] = 2,
         \A t \in Calls : mishaps' = 0 /\ row'[t].status = "processing" =>
           Serves(x, t)' \/ (row[t].status = "processing" /\ ~Serves(x, t)),
         \A t \in Calls : Alone(t)'
  PROVE  AnswersInv'
  <1>1. ApiTypeOK'
    BY DEF AnswersInv, ApiInv, ApiTypeOK
  <1>2. RepliesAreAnswers'
    BY DEF AnswersInv, ApiInv, RepliesAreAnswers
  <1>3. ASSUME mishaps' = 0, NEW t \in Calls, row'[t].status = "processing"
        PROVE  \E y \in Simple : Serves(y, t)'
    <2>1. CASE Serves(x, t)'
      BY <2>1
    <2>2. CASE row[t].status = "processing" /\ ~Serves(x, t)
      <3>1. PICK y \in Simple : Serves(y, t)
        BY <1>3, <2>2 DEF AnswersInv, ApiInv, ProcessingHasOwner, Rows
      <3>2. hand'[y] = hand[y]
        BY <2>2, <3>1
      <3> QED
        BY <3>1, <3>2 DEF Serves
    <2> QED
      BY <1>3, <2>1, <2>2
  <1>4. ProcessingHasOwner'
    BY <1>3 DEF ProcessingHasOwner, Rows
  <1>5. RequestsOK'
    BY DEF AnswersInv, RequestsOK
  <1> QED
    BY <1>1, <1>2, <1>4, <1>5 DEF AnswersInv, ApiInv

\* A worker that is not at a row, and whose step leaves the row, does not disturb what is said
\* of the row.
LEMMA OtherRows ==
  ASSUME AnswersInv, NEW x \in Simple, NEW t \in Calls, row'[t] = row[t], starts'[t] = starts[t],
         \A y \in Simple \ {x} : hand'[y] = hand[y],
         ~At(x, t)'
  PROVE  Alone(t)'
  <1>1. Alone(t)
    BY DEF AnswersInv
  <1> QED
    BY <1>1 DEF Alone, At

\* A worker at rest takes a list.
LEMMA FetchKeeps ==
  ASSUME AnswersInv, NEW x \in Simple, Fetch(x)
  PROVE  AnswersInv'
  <1> DEFINE size == IF Len(Pending) < FetchLimit THEN Len(Pending) ELSE FetchLimit
             list == SubSeq(Pending, 1, size)
  <1>1. /\ hand[x].doing = "nothing" /\ UNCHANGED <<row, call, tier, mishaps, starts>>
        /\ hand' = [hand EXCEPT ![x] = [list |-> list, doing |-> "list", seen |-> NoTask]]
    BY DEF Fetch
  <1> HIDE DEF list
  <1>3. /\ HandsOK'
        /\ hand'[x] = [list |-> list, doing |-> "list", seen |-> NoTask]
        /\ \A y \in Simple \ {x} : hand'[y] = hand[y]
    BY <1>1, HandStep
  <1>4. \A t \in Calls : ~Serves(x, t) /\ ~At(x, t)'
    BY <1>1, <1>3 DEF Serves, At
  <1>5. \A t \in Calls : Alone(t)'
    BY <1>1, <1>3, <1>4, OtherRows
  <1> QED
    BY <1>1, <1>3, <1>4, <1>5, RowTypes, HandKeeps

\* A worker writes processing to the first row of its list.
LEMMA MarkProcessingKeeps ==
  ASSUME AnswersInv, NEW x \in Simple, MarkProcessing(x)
  PROVE  AnswersInv'
  <1>0. PICK t : t = Head(hand[x].list)
    OBVIOUS
  <1>1. /\ hand[x].doing = "list" /\ UNCHANGED <<call, tier, mishaps>>
        /\ row' = [row EXCEPT ![t].status = "processing"]
        /\ hand' = [hand EXCEPT ![x].doing = "marked"]
        /\ starts' = [starts EXCEPT ![t] = IF @ = 2 THEN 2 ELSE @ + 1]
    BY <1>0 DEF MarkProcessing
  <1>2. hand' = [hand EXCEPT ![x] = [list |-> hand[x].list, doing |-> "marked", seen |-> hand[x].seen]]
    <2>1. hand[x] = [list |-> hand[x].list, doing |-> hand[x].doing, seen |-> hand[x].seen]
      BY DEF AnswersInv, HandsOK
    <2>2. [hand[x] EXCEPT !.doing = "marked"] =
            [list |-> hand[x].list, doing |-> "marked", seen |-> hand[x].seen]
      BY <2>1
    <2> QED
      BY <1>1, <2>2
  <1>3. /\ HandsOK'
        /\ hand'[x] = [list |-> hand[x].list, doing |-> "marked", seen |-> hand[x].seen]
        /\ \A y \in Simple \ {x} : hand'[y] = hand[y]
    BY <1>2, HandStep
  <1>4. \A u \in Calls : /\ ~At(x, u) /\ ~Serves(x, u)
                         /\ At(x, u)' <=> u = t
                         /\ u = t => Serves(x, u)'
    BY <1>0, <1>1, <1>3 DEF At, Serves
  <1>5. /\ row' \in [Calls -> TaskRows] /\ starts' \in [Calls -> 0 .. 2]
        /\ \A u \in Calls \ {t} : row'[u] = row[u] /\ starts'[u] = starts[u]
        /\ t \in Calls => /\ row'[t].status = "processing" /\ row'[t].result = row[t].result
                          /\ starts'[t] = IF starts[t] = 2 THEN 2 ELSE starts[t] + 1
    <2>1. /\ row' \in [Calls -> TaskRows]
          /\ \A u \in Calls \ {t} : row'[u] = row[u]
          /\ t \in Calls => row'[t].status = "processing" /\ row'[t].result = row[t].result
      BY <1>1, RowTypes DEF TaskRows, Statuses
    <2>2. /\ starts' = [u \in Calls |-> IF u # t THEN starts[u]
                                       ELSE IF starts[u] = 2 THEN 2 ELSE starts[u] + 1]
          /\ \A u \in Calls : starts[u] \in 0 .. 2
      BY <1>1, RowTypes
    <2>3. /\ starts' \in [Calls -> 0 .. 2]
          /\ \A u \in Calls \ {t} : starts'[u] = starts[u]
          /\ t \in Calls => starts'[t] = IF starts[t] = 2 THEN 2 ELSE starts[t] + 1
      BY <2>2
    <2> QED
      BY <2>1, <2>3
  <1>6. ASSUME NEW u \in Calls
        PROVE  Alone(u)'
    <2>1. CASE u # t
      BY <2>1, <1>3, <1>4, <1>5, OtherRows
    <2>2. CASE u = t
      <3>1. Alone(t)
        BY <2>2 DEF AnswersInv
      <3>2. starts'[t] # 0 /\ row'[t].status # "completed"
        BY <2>2, <1>5, RowTypes
      <3>3. ASSUME starts'[t] = 1, NEW z \in Simple, At(z, t)'
            PROVE  /\ \A y \in Simple \ {z} : ~At(y, t)'
                   /\ Untouched(row'[t])
                   /\ hand'[z].doing = "task" => Untouched(hand'[z].seen)
        <4>1. starts[t] = 0
          BY <2>2, <3>3, <1>5, RowTypes
        <4>2. Untouched(row[t]) /\ \A y \in Simple : ~At(y, t)
          BY <3>1, <4>1 DEF Alone
        <4>3. \A y \in Simple \ {x} : ~At(y, t)'
          BY <4>2, <1>3 DEF At
        <4>4. z = x
          BY <3>3, <4>3
        <4>5. Untouched(row'[t])
          BY <2>2, <4>2, <1>5 DEF Untouched
        <4> QED
          BY <4>3, <4>4, <4>5, <1>3
      <3> QED
        BY <2>2, <3>2, <3>3 DEF Alone
    <2> QED
      BY <2>1, <2>2
  <1>7. \A u \in Calls : row'[u].status = "processing" =>
          Serves(x, u)' \/ (row[u].status = "processing" /\ ~Serves(x, u))
    BY <1>4, <1>5
  <1>8. \A u \in Calls : starts[u] = 2 => starts'[u] = 2
    BY <1>5
  <1>9. hand'[x].doing \in {"nothing", "list", "marked", "task"} /\ hand'[x].doing # "nothing"
    BY <1>3
  <1>10. mishaps' \in 0 .. MaxMishaps /\ (mishaps' = 0 => mishaps = 0)
    BY <1>1, RowTypes
  <1> QED
    BY <1>1, <1>3, <1>5, <1>6, <1>7, <1>8, <1>9, <1>10, HandKeeps

\* A worker reads its row again.
LEMMA ReloadKeeps ==
  ASSUME AnswersInv, NEW x \in Simple, Reload(x)
  PROVE  AnswersInv'
  <1>0. PICK t : t = Head(hand[x].list)
    OBVIOUS
  <1>1. /\ hand[x].doing = "marked" /\ UNCHANGED <<row, call, tier, mishaps, starts>>
        /\ hand' = [hand EXCEPT ![x] = [list |-> hand[x].list, doing |-> "task", seen |-> row[t]]]
    BY <1>0 DEF Reload
  <1>3. /\ HandsOK'
        /\ hand'[x] = [list |-> hand[x].list, doing |-> "task", seen |-> row[t]]
        /\ \A y \in Simple \ {x} : hand'[y] = hand[y]
    BY <1>1, HandStep
  <1>4. \A y \in Simple, u \in Calls : At(y, u)' <=> At(y, u)
    <2>1. \A u \in Calls : At(x, u)' <=> At(x, u)
      BY <1>1, <1>3 DEF At
    <2>2. \A y \in Simple \ {x}, u \in Calls : At(y, u)' <=> At(y, u)
      BY <1>3 DEF At
    <2> QED
      BY <2>1, <2>2
  <1>5. ASSUME NEW u \in Calls
        PROVE  Alone(u)'
    <2>1. Alone(u)
      BY DEF AnswersInv
    <2>2. ASSUME starts[u] = 1, NEW z \in Simple, At(z, u)
          PROVE  hand'[z].doing = "task" => Untouched(hand'[z].seen)
      <3>1. Untouched(row[u]) /\ (hand[z].doing = "task" => Untouched(hand[z].seen))
        BY <2>1, <2>2 DEF Alone
      <3>2. CASE z = x
        <4>1. u = t
          BY <2>2, <3>2, <1>0 DEF At
        <4> QED
          BY <3>1, <3>2, <4>1, <1>3
      <3>3. CASE z # x
        BY <3>1, <3>3, <1>3
      <3> QED
        BY <3>2, <3>3
    <2> QED
      BY <1>1, <1>4, <2>1, <2>2 DEF Alone
  <1>6. \A u \in Calls : row'[u].status = "processing" =>
          Serves(x, u)' \/ (row[u].status = "processing" /\ ~Serves(x, u))
    BY <1>0, <1>1, <1>3 DEF Serves
  <1>7. hand'[x].doing \in {"nothing", "list", "marked", "task"} /\ hand'[x].doing # "nothing"
    BY <1>3
  <1>8. /\ mishaps' \in 0 .. MaxMishaps /\ (mishaps' = 0 => mishaps = 0)
        /\ row' \in [Calls -> TaskRows] /\ starts' \in [Calls -> 0 .. 2]
        /\ \A u \in Calls : starts[u] = 2 => starts'[u] = 2
    BY <1>1, RowTypes
  <1> QED
    BY <1>1, <1>3, <1>5, <1>6, <1>7, <1>8, HandKeeps

\* The hand after a task is at no row.
LEMMA AfterTaskRests ==
  ASSUME AnswersInv, NEW x \in Simple, hand' = [hand EXCEPT ![x] = AfterTask(x)]
  PROVE  /\ HandsOK'
         /\ \A y \in Simple \ {x} : hand'[y] = hand[y]
         /\ \A t \in Calls : ~At(x, t)'
         /\ hand'[x].doing \in {"nothing", "list"}
         /\ hand'[x].doing = "nothing" => hand'[x] = Resting
  <1> DEFINE after == AfterTask(x)
  <1>1. /\ after = [list |-> after.list, doing |-> after.doing, seen |-> after.seen]
        /\ after.doing \in {"nothing", "list"}
        /\ after.doing = "nothing" => after = Resting
    BY DEF AfterTask, Resting
  <1> HIDE DEF after
  <1>2. hand' = [hand EXCEPT ![x] = after]
    BY DEF after
  <1>4. HandsOK' /\ hand'[x] = after /\ \A y \in Simple \ {x} : hand'[y] = hand[y]
    BY <1>1, <1>2 DEF AnswersInv, HandsOK
  <1> QED
    BY <1>1, <1>4 DEF At

\* A worker writes the end of the first row of its list.
LEMMA MarkEndedKeeps ==
  ASSUME AnswersInv, NEW x \in Simple, NEW status \in {"completed", "failed"}, MarkEnded(x, status)
  PROVE  AnswersInv'
  <1>0. PICK t, seen, r :
          t = Head(hand[x].list) /\ seen = hand[x].seen /\ r = Updated(row[t], seen, Ended(status))
    OBVIOUS
  <1>1. /\ hand[x].doing = "task" /\ UNCHANGED <<call, tier, mishaps, starts>>
        /\ row' = [row EXCEPT ![t] = r]
        /\ hand' = [hand EXCEPT ![x] = AfterTask(x)]
    BY <1>0 DEF MarkEnded
  <1>2. /\ Ended(status) \in TaskRows /\ Ended(status).status = status
        /\ status = "completed" => Ended(status).result = "answer"
    BY DEF Ended, TaskRows, Statuses, Results
  <1>3. ASSUME t \in Calls
        PROVE  /\ r \in TaskRows
               /\ r.status = IF status = seen.status THEN row[t].status ELSE status
               /\ r.result = IF Ended(status).result = seen.result THEN row[t].result ELSE Ended(status).result
    BY <1>0, <1>2, <1>3, RowTypes, UpdatedRow
  <1>4. /\ HandsOK'
        /\ \A y \in Simple \ {x} : hand'[y] = hand[y]
        /\ \A u \in Calls : ~At(x, u)'
        /\ hand'[x].doing \in {"nothing", "list"}
        /\ hand'[x].doing = "nothing" => hand'[x] = Resting
    BY <1>1, AfterTaskRests
  <1>5. \A u \in Calls : (At(x, u) <=> u = t) /\ (Serves(x, u) <=> u = t /\ seen.status = "processing")
    BY <1>0, <1>1 DEF At, Serves
  <1>6. /\ row' \in [Calls -> TaskRows]
        /\ \A u \in Calls \ {t} : row'[u] = row[u]
        /\ t \in Calls => row'[t] = r
    BY <1>1, <1>3, RowTypes
  <1>7. ASSUME NEW u \in Calls
        PROVE  Alone(u)'
    <2>1. CASE u # t
      BY <2>1, <1>1, <1>4, <1>6, OtherRows
    <2>2. CASE u = t
      <3>1. Alone(t) /\ At(x, t)
        BY <2>2, <1>5 DEF AnswersInv
      <3>2. starts[t] # 0
        BY <3>1 DEF Alone
      <3>3. ASSUME starts[t] = 1
            PROVE  /\ \A y \in Simple : ~At(y, t)'
                   /\ row'[t].status = "completed" => row'[t].result = "answer"
        <4>1. /\ \A y \in Simple \ {x} : ~At(y, t)
              /\ Untouched(row[t])
              /\ Untouched(seen)
          BY <3>1, <3>3, <1>0, <1>1 DEF Alone
        <4>2. \A y \in Simple : ~At(y, t)'
          <5>1. \A y \in Simple \ {x} : ~At(y, t)'
            BY <4>1, <1>4 DEF At
          <5> QED
            BY <5>1, <1>4, <2>2
        <4>3. row'[t].status = status
          BY <4>1, <2>2, <1>3, <1>6 DEF Untouched
        <4>4. row'[t].result = Ended(status).result
          BY <4>1, <2>2, <1>3, <1>6 DEF Untouched, Ended
        <4> QED
          BY <4>2, <4>3, <4>4, <1>2
      <3>4. starts[t] \in 0 .. 2 /\ starts'[t] = starts[t]
        BY <2>2, <1>1, RowTypes
      <3> QED
        BY <2>2, <3>2, <3>3, <3>4 DEF Alone
    <2> QED
      BY <2>1, <2>2
  <1>8. \A u \in Calls : row'[u].status = "processing" => row[u].status = "processing" /\ ~Serves(x, u)
    BY <1>3, <1>5, <1>6
  <1>9. \A u \in Calls : starts[u] = 2 => starts'[u] = 2
    BY <1>1
  <1> QED
    BY <1>1, <1>4, <1>6, <1>7, <1>8, <1>9, RowTypes, HandKeeps

\* After a mishap, nothing is said of the rows in processing.
LEMMA MishapKeeps ==
  ASSUME AnswersInv, NEW x \in Simple, Mishap(x)
  PROVE  AnswersInv'
  <1>1. /\ mishaps < MaxMishaps /\ mishaps' = mishaps + 1
        /\ hand' = [hand EXCEPT ![x] = Resting]
        /\ UNCHANGED <<row, call, tier, starts>>
    BY DEF Mishap
  <1>2. /\ HandsOK' /\ hand'[x] = Resting
        /\ \A y \in Simple \ {x} : hand'[y] = hand[y]
    BY <1>1 DEF AnswersInv, HandsOK, Resting
  <1>3. mishaps' \in 0 .. MaxMishaps /\ mishaps' # 0
    BY <1>1, RowTypes, ApiAssumption
  <1>4. hand'[x].doing = "nothing"
    BY <1>2 DEF Resting
  <1>5. \A t \in Calls : ~At(x, t)'
    BY <1>4 DEF At
  <1>6. \A t \in Calls : Alone(t)'
    BY <1>1, <1>2, <1>5, OtherRows
  <1> QED
    BY <1>1, <1>2, <1>3, <1>4, <1>6, RowTypes, HandKeeps

-----------------------------------------------------------------------------
(* The specification *)

LEMMA InitOK == ApiInit => AnswersInv
  <1> SUFFICES ASSUME ApiInit PROVE AnswersInv
    OBVIOUS
  <1>1. ApiTypeOK
    <2>1. NoTask \in TaskRows
      BY DEF NoTask, TaskRows, Statuses, Results
    <2>2. \A x \in Simple : hand[x] = Resting /\ hand[x].doing = "nothing"
      BY DEF ApiInit, Resting
    <2> QED
      BY <2>1, <2>2, ApiAssumption DEF ApiInit, ApiTypeOK, Requests
  <1>2. RepliesAreAnswers
    BY DEF ApiInit, RepliesAreAnswers
  <1>3. ProcessingHasOwner
    BY DEF ApiInit, ProcessingHasOwner, Rows, NoTask
  <1>4. HandsOK /\ RequestsOK
    BY DEF ApiInit, HandsOK, RequestsOK, Resting
  <1>5. \A t \in Calls : Alone(t)
    BY DEF ApiInit, Alone, At, Untouched, Resting, NoTask
  <1> QED
    BY <1>1, <1>2, <1>3, <1>4, <1>5 DEF AnswersInv, ApiInv

LEMMA NextOK == AnswersInv /\ [ApiNext]_apiVars => AnswersInv'
  <1> SUFFICES ASSUME AnswersInv, [ApiNext]_apiVars PROVE AnswersInv'
    OBVIOUS
  <1>1. ASSUME NEW t \in Calls,
               \/ ChatCompletions(t) \/ GenerateImages(t)
               \/ TranscribeAudio(t) \/ TranslateAudio(t) \/ CreateEmbeddings(t)
        PROVE  AnswersInv'
    BY <1>1, InsertKeeps
       DEF ChatCompletions, GenerateImages, TranscribeAudio, TranslateAudio, CreateEmbeddings
  <1>2. ASSUME NEW t \in Calls, Reply(t) \/ TimeOut(t)
        PROVE  AnswersInv'
    BY <1>2, ReplyKeeps
  <1>3. ASSUME NEW v \in Visits, (\E t \in Twins : TierRead(v, t)) \/ TierCommit(v)
        PROVE  AnswersInv'
    BY <1>3, TierReadKeeps, TierCommitKeeps
  <1>4. ASSUME NEW x \in Simple, SimpleStep(x) \/ Mishap(x)
        PROVE  AnswersInv'
    BY <1>4, FetchKeeps, MarkProcessingKeeps, ReloadKeeps, MarkEndedKeeps, MishapKeeps DEF SimpleStep
  <1>5. CASE UNCHANGED apiVars
    BY <1>5 DEF apiVars, AnswersInv, ApiInv, ApiTypeOK, RepliesAreAnswers, ProcessingHasOwner, Rows,
         Serves, HandsOK, RequestsOK, Alone, At
  <1> QED
    BY <1>1, <1>2, <1>3, <1>4, <1>5 DEF ApiNext

\* For any numbers of calls, simple workers and two-tier requests, whatever they read before
\* others write: a client is given a submission or the text of an exception only if two simple
\* workers took up its row (MarkProcessing, MarkEnded, ReplyText), and, as long as nothing fails,
\* a row in processing has a simple worker that will write its end.
THEOREM AnswersOnly == ApiSpec => []ApiInv
  <1>1. AnswersInv => ApiInv
    BY DEF AnswersInv
  <1> QED
    BY <1>1, InitOK, NextOK, PTL DEF ApiSpec

-----------------------------------------------------------------------------
(* WebSockets *)

\* A handler that has got a client id keeps it.
HandlersHaveIds ==
  \A e \in Sockets : socket[e].phase \in Serving \cup {"accepted"} => socket[e].id \in Ids

\* The table of connections has no socket whose handler is not between connect and disconnect.
RegisteredAreLive ==
  \A id \in Ids : connections[id] # Nobody => socket[connections[id]].phase \in Serving

\* A socket that is not connected yet has no subscription.
NewHaveNoRooms ==
  \A e \in Sockets : socket[e].phase \in {"new", "accepted"} => subscribed[e] = {}

\* Two live endpoints have one id only if that is known of the id.
SharingIsKnown ==
  \A e, f \in Sockets :
    e # f /\ socket[e].phase \in Serving /\ socket[f].phase \in Serving /\ socket[e].id = socket[f].id
      => socket[e].id \in shared

\* A client that a broadcast found dead, and whose id is not shared, is gone.
DeadAreGone ==
  \A n \in Notifiers : \A id \in notice[n].dead :
    id \notin shared =>
      \A e \in Sockets : socket[e].phase \in Serving /\ socket[e].id = id => ~peer[e]

\* While a broadcast waits for its send to an id that is not shared, the client it sends to is
\* the only one that has the id.
AwaitedAreTheirs ==
  \A n \in Notifiers :
    notice[n].phase = "awaiting" /\ notice[n].at \notin shared =>
      \A e \in Sockets : socket[e].phase \in Serving /\ socket[e].id = notice[n].at => e = notice[n].to

\* A socket that is known to be gone is gone.
ClosingAreGone ==
  \A e \in Sockets : socket[e].phase = "closing" => ~peer[e]

SocketsInv ==
  /\ ConnTypeOK /\ RoomsAgree /\ ReachableUnlessIdShared
  /\ HandlersHaveIds /\ RegisteredAreLive /\ NewHaveNoRooms /\ SharingIsKnown
  /\ DeadAreGone /\ AwaitedAreTheirs /\ ClosingAreGone

-----------------------------------------------------------------------------
(* What SocketsInv says of one socket *)

\* A socket in the table of connections is live, has the id it is registered under, and is in
\* the rooms of its list.
LEMMA Registration ==
  ASSUME SocketsInv, NEW id \in Ids, connections[id] # Nobody
  PROVE  /\ connections[id] \in Sockets
         /\ socket[connections[id]].phase \in Serving
         /\ socket[connections[id]].id = id
         /\ \A room \in subscribed[connections[id]] : id \in rooms[room]
  BY DEF SocketsInv, ConnTypeOK, RoomsAgree, RegisteredAreLive, Registered

\* Two ids never have the same socket.
LEMMA OneIdPerSocket ==
  ASSUME SocketsInv, NEW id \in Ids, NEW other \in Ids, connections[id] # Nobody,
         connections[id] = connections[other]
  PROVE  id = other
  BY Registration

\* Changing one handler keeps the type of all.
LEMMA HandlerChanges ==
  ASSUME ConnTypeOK, NEW e \in Sockets, NEW entry \in Handlers, socket' = [socket EXCEPT ![e] = entry]
  PROVE  socket' \in [Sockets -> Handlers]
  BY DEF ConnTypeOK

-----------------------------------------------------------------------------
(* The endpoints *)

\* An endpoint that accepts a client is registered nowhere yet.
LEMMA AcceptKeeps ==
  ASSUME SocketsInv, NEW e \in Sockets, NEW id \in Ids, NEW worker \in WorkerIds \cup {Nobody},
         Accept(e, id, worker)
  PROVE  SocketsInv'
<1>1. ConnTypeOK'
  BY DEF SocketsInv, ConnTypeOK, Handlers, Phases, Serving, Accept
<1>2. \A i \in Ids : connections[i] # Nobody => connections[i] \in Sockets \ {e}
  BY Registration DEF Serving, Accept
<1>3. RoomsAgree'
  BY <1>2 DEF SocketsInv, ConnTypeOK, RoomsAgree, Registered, Accept
<1>4. ReachableUnlessIdShared'
  BY DEF SocketsInv, ConnTypeOK, ReachableUnlessIdShared, Accept
<1>5. HandlersHaveIds' /\ NewHaveNoRooms' /\ SharingIsKnown'
  BY DEF SocketsInv, ConnTypeOK, HandlersHaveIds, NewHaveNoRooms, SharingIsKnown, Serving, Accept
<1>6. RegisteredAreLive'
  BY <1>2 DEF SocketsInv, ConnTypeOK, RegisteredAreLive, Accept
<1>7. DeadAreGone' /\ AwaitedAreTheirs' /\ ClosingAreGone'
  BY DEF SocketsInv, ConnTypeOK, DeadAreGone, AwaitedAreTheirs, ClosingAreGone, Serving, Accept
<1> QED  BY <1>1, <1>3, <1>4, <1>5, <1>6, <1>7 DEF SocketsInv

\* The same for the endpoint of a worker, which has rooms to join.
LEMMA AcceptWorkerKeeps ==
  ASSUME SocketsInv, NEW e \in Sockets, NEW id \in WorkerIds, AcceptWorker(e, id)
  PROVE  SocketsInv'
<1>0. id \in Ids
  BY ConnectionAssumption
<1>1. ConnTypeOK'
  BY <1>0 DEF SocketsInv, ConnTypeOK, Handlers, Phases, Serving, AcceptWorker
<1>2. \A i \in Ids : connections[i] # Nobody => connections[i] \in Sockets \ {e}
  BY Registration DEF Serving, AcceptWorker
<1>3. RoomsAgree'
  BY <1>2 DEF SocketsInv, ConnTypeOK, RoomsAgree, Registered, AcceptWorker
<1>4. ReachableUnlessIdShared'
  BY DEF SocketsInv, ConnTypeOK, ReachableUnlessIdShared, AcceptWorker
<1>5. HandlersHaveIds' /\ NewHaveNoRooms' /\ SharingIsKnown'
  BY <1>0 DEF SocketsInv, ConnTypeOK, HandlersHaveIds, NewHaveNoRooms, SharingIsKnown, Serving, AcceptWorker
<1>6. RegisteredAreLive'
  BY <1>2 DEF SocketsInv, ConnTypeOK, RegisteredAreLive, AcceptWorker
<1>7. DeadAreGone' /\ AwaitedAreTheirs' /\ ClosingAreGone'
  BY DEF SocketsInv, ConnTypeOK, DeadAreGone, AwaitedAreTheirs, ClosingAreGone, Serving, AcceptWorker
<1> QED  BY <1>1, <1>3, <1>4, <1>5, <1>6, <1>7 DEF SocketsInv

\* connect replaces the socket that had the id before; the id is shared from then on.
LEMMA ConnectKeeps ==
  ASSUME SocketsInv, NEW e \in Sockets, Connect(e)
  PROVE  SocketsInv'
<1> DEFINE id == socket[e].id
           entry == [socket[e] EXCEPT !.phase = IF socket[e].joins = {} THEN "open" ELSE "joining"]
<1>1. /\ socket[e].phase = "accepted"
      /\ id \in Ids
      /\ subscribed[e] = {}
  BY DEF SocketsInv, HandlersHaveIds, NewHaveNoRooms, Connect
<1>2. entry \in Handlers /\ socket' = [socket EXCEPT ![e] = entry]
  BY DEF SocketsInv, ConnTypeOK, Handlers, Phases, Serving, Connect
<1>3. /\ connections' = [connections EXCEPT ![id] = e]
      /\ rooms' = [rooms EXCEPT !["all"] = @ \cup {id}]
      /\ UNCHANGED <<peer, subscribed, notice, holder>>
  BY DEF Connect
<1>4. shared \subseteq shared' /\ shared' \subseteq shared \cup {id}
  BY DEF Connect
<1>5. \A f \in Sockets \ {e} : socket[f].phase \in Serving /\ socket[f].id = id => id \in shared'
  BY DEF Connect, Serving
<1>6. ConnTypeOK'
  BY <1>1, <1>2, <1>3, <1>4, HandlerChanges DEF SocketsInv, ConnTypeOK, AllRooms
<1>7. entry.id = id /\ entry.phase \in {"open", "joining"}
  BY <1>2 DEF SocketsInv, ConnTypeOK, Handlers
<1>8. \A f \in Sockets : socket'[f] = IF f = e THEN entry ELSE socket[f]
  BY <1>2 DEF SocketsInv, ConnTypeOK
<1>9. \A i \in Ids : connections'[i] = IF i = id THEN e ELSE connections[i]
  BY <1>1, <1>3 DEF SocketsInv, ConnTypeOK
<1>10. \A i \in Ids : i # id /\ connections[i] # Nobody => connections[i] \in Sockets \ {e}
  BY <1>1, Registration DEF Serving
<1>11. e # Nobody
  BY ConnectionAssumption
<1>12. RoomsAgree'
  <2>1. \A room \in AllRooms : rooms[room] \subseteq rooms'[room]
    BY <1>3 DEF SocketsInv, ConnTypeOK, AllRooms
  <2>2. \A room \in AllRooms : rooms'[room] \subseteq rooms[room] \cup {id}
    BY <1>3 DEF SocketsInv, ConnTypeOK, AllRooms
  <2>3. \A room \in AllRooms : rooms'[room] \subseteq Registered'
    BY <2>2, <1>9, <1>1, <1>11 DEF SocketsInv, ConnTypeOK, RoomsAgree, Registered
  <2>4. ASSUME NEW i \in Ids, connections'[i] # Nobody
        PROVE  /\ socket'[connections'[i]].id = i
               /\ \A room \in subscribed'[connections'[i]] : i \in rooms'[room]
    <3>1. CASE i = id
      BY <3>1, <1>1, <1>3, <1>7, <1>8, <1>9
    <3>2. CASE i # id
      <4>1. connections'[i] = connections[i] /\ connections[i] # Nobody
        BY <3>2, <2>4, <1>9
      <4>2. /\ connections[i] \in Sockets \ {e}
            /\ socket[connections[i]].id = i
            /\ \A room \in subscribed[connections[i]] : i \in rooms[room]
        BY <3>2, <4>1, <1>10, Registration
      <4>3. subscribed[connections[i]] \subseteq AllRooms
        BY <4>2 DEF SocketsInv, ConnTypeOK
      <4> QED  BY <4>1, <4>2, <4>3, <2>1, <1>3, <1>8
    <3> QED  BY <3>1, <3>2
  <2> QED  BY <2>3, <2>4 DEF RoomsAgree, Registered
<1>13. ReachableUnlessIdShared'
  <2>1. ASSUME NEW f \in Sockets, socket'[f].phase \in {"joining", "open"}, peer[f],
               socket'[f].id \notin shared'
        PROVE  connections'[socket'[f].id] = f
    <3>1. CASE f = e
      BY <3>1, <1>1, <1>7, <1>8, <1>9
    <3>2. CASE f # e
      <4>1. socket[f].id # id
        BY <3>2, <2>1, <1>5, <1>8 DEF Serving
      <4>2. socket[f].id \in Ids
        BY <3>2, <2>1, <1>8 DEF SocketsInv, HandlersHaveIds, Serving
      <4> QED  BY <3>2, <2>1, <4>1, <4>2, <1>4, <1>8, <1>9 DEF SocketsInv, ReachableUnlessIdShared
    <3> QED  BY <3>1, <3>2
  <2> QED  BY <2>1, <1>3 DEF ReachableUnlessIdShared
<1>14. HandlersHaveIds' /\ NewHaveNoRooms'
  BY <1>1, <1>3, <1>7, <1>8 DEF SocketsInv, HandlersHaveIds, NewHaveNoRooms, Serving
<1>15. RegisteredAreLive'
  <2>1. ASSUME NEW i \in Ids, connections'[i] # Nobody
        PROVE  socket'[connections'[i]].phase \in Serving
    <3>1. CASE i = id
      BY <3>1, <1>1, <1>7, <1>8, <1>9 DEF Serving
    <3>2. CASE i # id
      BY <3>2, <2>1, <1>8, <1>9, <1>10, Registration
    <3> QED  BY <3>1, <3>2
  <2> QED  BY <2>1 DEF RegisteredAreLive
<1>16. SharingIsKnown'
  <2>1. ASSUME NEW f \in Sockets, NEW g \in Sockets, f # g, socket'[f].phase \in Serving,
               socket'[g].phase \in Serving, socket'[f].id = socket'[g].id
        PROVE  socket'[f].id \in shared'
    <3>1. CASE f = e
      <4>1. socket'[g] = socket[g] /\ socket[g].id = id
        BY <3>1, <2>1, <1>7, <1>8
      <4> QED  BY <3>1, <4>1, <2>1, <1>5
    <3>2. CASE g = e
      BY <3>2, <2>1, <1>5, <1>7, <1>8
    <3>3. CASE f # e /\ g # e
      BY <3>3, <2>1, <1>4, <1>8 DEF SocketsInv, SharingIsKnown
    <3> QED  BY <3>1, <3>2, <3>3
  <2> QED  BY <2>1 DEF SharingIsKnown
<1>17. DeadAreGone'
  BY <1>3, <1>4, <1>7, <1>8 DEF SocketsInv, DeadAreGone, Connect, Condemned
<1>18. AwaitedAreTheirs'
  <2>1. \A n \in Notifiers : notice[n].phase = "awaiting" /\ notice[n].at = id => id \in shared'
    <3>1. \A n \in Notifiers : notice[n].phase = "awaiting" => notice[n].at \in Condemned
      BY DEF Condemned
    <3>2. id \in Condemned => shared' = shared \cup {id}
      BY DEF Connect
    <3> QED  BY <3>1, <3>2
  <2> QED  BY <2>1, <1>3, <1>4, <1>7, <1>8 DEF SocketsInv, AwaitedAreTheirs
<1>19. ClosingAreGone'
  BY <1>3, <1>7, <1>8 DEF SocketsInv, ClosingAreGone
<1> QED  BY <1>6, <1>12, <1>13, <1>14, <1>15, <1>16, <1>17, <1>18, <1>19 DEF SocketsInv

\* subscribe changes the rooms and the list of one client together.
LEMMA SubscribeKeeps ==
  ASSUME SocketsInv, NEW id \in Ids, NEW room \in AllRooms, Subscribe(id, room),
         UNCHANGED <<connections, shared>>
  PROVE  /\ rooms' \in [AllRooms -> SUBSET Ids]
         /\ subscribed' \in [Sockets -> SUBSET AllRooms]
         /\ \A e \in Sockets : socket[e].phase \in {"new", "accepted"} => subscribed'[e] = {}
         /\ \A r \in AllRooms : rooms'[r] \subseteq Registered
         /\ \A i \in Registered : \A r \in subscribed'[connections[i]] : i \in rooms'[r]
<1>1. CASE id \notin Registered
  BY <1>1 DEF Subscribe, SocketsInv, ConnTypeOK, RoomsAgree, NewHaveNoRooms
<1>2. CASE id \in Registered
  <2> DEFINE c == connections[id]
  <2>1. c \in Sockets /\ socket[c].phase \in Serving
    BY <1>2, Registration DEF Registered
  <2>2. \A r \in AllRooms : rooms'[r] = IF r = room THEN rooms[r] \cup {id} ELSE rooms[r]
    BY <1>2 DEF Subscribe, SocketsInv, ConnTypeOK
  <2>3. \A e \in Sockets : subscribed'[e] = IF e = c THEN subscribed[e] \cup {room} ELSE subscribed[e]
    BY <1>2 DEF Subscribe, SocketsInv, ConnTypeOK
  <2>4. rooms' \in [AllRooms -> SUBSET Ids] /\ subscribed' \in [Sockets -> SUBSET AllRooms]
    BY <1>2 DEF Subscribe, SocketsInv, ConnTypeOK
  <2>5. \A e \in Sockets : socket[e].phase \in {"new", "accepted"} => subscribed'[e] = {}
    BY <2>1, <2>3 DEF SocketsInv, NewHaveNoRooms, Serving
  <2>6. \A r \in AllRooms : rooms'[r] \subseteq Registered
    BY <1>2, <2>2 DEF SocketsInv, RoomsAgree
  <2>7. ASSUME NEW i \in Registered, NEW r \in subscribed'[connections[i]]
        PROVE  i \in rooms'[r]
    <3>1. connections[i] \in Sockets /\ \A q \in subscribed[connections[i]] : i \in rooms[q]
      BY Registration DEF Registered
    <3>2. r \in AllRooms
      BY <2>4, <3>1
    <3>3. r \in subscribed[connections[i]] \/ (connections[i] = c /\ r = room)
      BY <2>3, <3>1
    <3>4. connections[i] = c => i = id
      BY OneIdPerSocket DEF Registered
    <3> QED  BY <2>2, <3>1, <3>2, <3>3, <3>4
  <2> QED  BY <2>4, <2>5, <2>6, <2>7
<1> QED  BY <1>1, <1>2

\* A worker's endpoint joins one more room, and is open after the last.
LEMMA JoinKeeps ==
  ASSUME SocketsInv, NEW e \in Sockets, Join(e)
  PROVE  SocketsInv'
<1>1. PICK room \in socket[e].joins :
        /\ Subscribe(socket[e].id, room)
        /\ socket' = [socket EXCEPT ![e].joins = @ \ {room},
                                    ![e].phase = IF socket[e].joins = {room} THEN "open" ELSE @]
  BY DEF Join
<1>2. socket[e].phase = "joining" /\ UNCHANGED <<peer, connections, notice, holder, shared>>
  BY DEF Join
<1>3. socket[e].id \in Ids /\ socket[e] \in Handlers /\ room \in AllRooms
  BY <1>2 DEF SocketsInv, ConnTypeOK, HandlersHaveIds, Serving, Handlers, AllRooms
<1>4. \A f \in Sockets :
        /\ socket'[f].id = socket[f].id
        /\ socket'[f].phase = socket[f].phase
             \/ (f = e /\ socket'[f].phase = "open")
  BY <1>1, <1>3 DEF SocketsInv, ConnTypeOK, Handlers
<1>5. /\ rooms' \in [AllRooms -> SUBSET Ids]
      /\ subscribed' \in [Sockets -> SUBSET AllRooms]
      /\ \A f \in Sockets : socket[f].phase \in {"new", "accepted"} => subscribed'[f] = {}
      /\ \A r \in AllRooms : rooms'[r] \subseteq Registered
      /\ \A i \in Registered : \A r \in subscribed'[connections[i]] : i \in rooms'[r]
  BY <1>1, <1>2, <1>3, SubscribeKeeps
<1>6. socket' \in [Sockets -> Handlers]
  BY <1>1, <1>3 DEF SocketsInv, ConnTypeOK, Handlers, Phases, Serving
<1>7. ConnTypeOK'
  BY <1>2, <1>5, <1>6 DEF SocketsInv, ConnTypeOK
<1>8. RoomsAgree'
  BY <1>2, <1>4, <1>5, Registration DEF RoomsAgree, Registered
<1>9. ReachableUnlessIdShared'
  BY <1>2, <1>4 DEF SocketsInv, ReachableUnlessIdShared
<1>10. HandlersHaveIds' /\ NewHaveNoRooms' /\ SharingIsKnown'
  BY <1>2, <1>4, <1>5 DEF SocketsInv, HandlersHaveIds, NewHaveNoRooms, SharingIsKnown, Serving
<1>11. RegisteredAreLive'
  BY <1>2, <1>4, Registration DEF RegisteredAreLive, Serving
<1>12. DeadAreGone' /\ AwaitedAreTheirs' /\ ClosingAreGone'
  BY <1>2, <1>4 DEF SocketsInv, DeadAreGone, AwaitedAreTheirs, ClosingAreGone, Serving
<1> QED  BY <1>7, <1>8, <1>9, <1>10, <1>11, <1>12 DEF SocketsInv

\* A client subscribes or unsubscribes: only rooms and its own list change.
LEMMA ClientSubscribesKeeps ==
  ASSUME SocketsInv, NEW e \in Sockets, NEW room \in AllRooms, ClientSubscribes(e, room)
  PROVE  SocketsInv'
<1>1. Subscribe(socket[e].id, room) /\ UNCHANGED <<socket, peer, connections, notice, holder, shared>>
  BY DEF ClientSubscribes
<1>2. socket[e].id \in Ids
  BY DEF SocketsInv, HandlersHaveIds, Serving, ClientSubscribes
<1>3. /\ rooms' \in [AllRooms -> SUBSET Ids]
      /\ subscribed' \in [Sockets -> SUBSET AllRooms]
      /\ \A f \in Sockets : socket[f].phase \in {"new", "accepted"} => subscribed'[f] = {}
      /\ \A r \in AllRooms : rooms'[r] \subseteq Registered
      /\ \A i \in Registered : \A r \in subscribed'[connections[i]] : i \in rooms'[r]
  BY <1>1, <1>2, SubscribeKeeps
<1>4. ConnTypeOK' /\ NewHaveNoRooms'
  BY <1>1, <1>3 DEF SocketsInv, ConnTypeOK, NewHaveNoRooms
<1>5. RoomsAgree'
  BY <1>1, <1>3 DEF SocketsInv, RoomsAgree, Registered
<1>6. /\ ReachableUnlessIdShared' /\ HandlersHaveIds' /\ RegisteredAreLive'
      /\ SharingIsKnown' /\ DeadAreGone' /\ AwaitedAreTheirs' /\ ClosingAreGone'
  BY <1>1 DEF SocketsInv, ReachableUnlessIdShared, HandlersHaveIds, RegisteredAreLive, SharingIsKnown,
              DeadAreGone, AwaitedAreTheirs, ClosingAreGone
<1> QED  BY <1>4, <1>5, <1>6 DEF SocketsInv

LEMMA ClientUnsubscribesKeeps ==
  ASSUME SocketsInv, NEW e \in Sockets, NEW room \in AllRooms, ClientUnsubscribes(e, room)
  PROVE  SocketsInv'
<1> DEFINE id == socket[e].id
<1>1. Unsubscribe(id, room) /\ UNCHANGED <<socket, peer, connections, notice, holder, shared>>
  BY DEF ClientUnsubscribes
<1>2. id \in Ids
  BY DEF SocketsInv, HandlersHaveIds, Serving, ClientUnsubscribes
<1>3. \A r \in AllRooms : rooms'[r] = IF r = room THEN rooms[r] \ {id} ELSE rooms[r]
  BY <1>1 DEF Unsubscribe, SocketsInv, ConnTypeOK
<1>4. \A f \in Sockets :
        /\ subscribed'[f] \subseteq subscribed[f]
        /\ id \in Registered /\ f = connections[id] => room \notin subscribed'[f]
  BY <1>1, <1>2, Registration DEF Unsubscribe, SocketsInv, ConnTypeOK, Registered
<1>5. ConnTypeOK'
  BY <1>1 DEF Unsubscribe, SocketsInv, ConnTypeOK
<1>6. RoomsAgree'
  <2>1. \A r \in AllRooms : rooms'[r] \subseteq Registered
    BY <1>3 DEF SocketsInv, RoomsAgree
  <2>2. ASSUME NEW i \in Registered, NEW r \in subscribed'[connections[i]]
        PROVE  i \in rooms'[r]
    <3>1. /\ connections[i] \in Sockets
          /\ \A q \in subscribed[connections[i]] : i \in rooms[q]
      BY Registration DEF Registered
    <3>2. r \in AllRooms
      BY <3>1, <1>5 DEF ConnTypeOK
    <3>3. r \in subscribed[connections[i]] /\ ~(i = id /\ r = room)
      BY <3>1, <1>4
    <3> QED  BY <3>1, <3>2, <3>3, <1>3
  <2> QED  BY <1>1, <2>1, <2>2, Registration DEF RoomsAgree, Registered
<1>7. NewHaveNoRooms'
  BY <1>1, <1>4 DEF SocketsInv, NewHaveNoRooms
<1>8. /\ ReachableUnlessIdShared' /\ HandlersHaveIds' /\ RegisteredAreLive'
      /\ SharingIsKnown' /\ DeadAreGone' /\ AwaitedAreTheirs' /\ ClosingAreGone'
  BY <1>1 DEF SocketsInv, ReachableUnlessIdShared, HandlersHaveIds, RegisteredAreLive, SharingIsKnown,
              DeadAreGone, AwaitedAreTheirs, ClosingAreGone
<1> QED  BY <1>5, <1>6, <1>7, <1>8 DEF SocketsInv

\* A client that leaves only makes two parts easier to keep.
LEMMA PeerLeavesKeeps ==
  ASSUME SocketsInv, NEW e \in Sockets, PeerLeaves(e)
  PROVE  SocketsInv'
<1>1. /\ peer' = [peer EXCEPT ![e] = FALSE]
      /\ UNCHANGED <<socket, connections, subscribed, rooms, notice, holder, shared>>
  BY DEF PeerLeaves
<1>2. ConnTypeOK' /\ RoomsAgree'
  BY <1>1 DEF SocketsInv, ConnTypeOK, RoomsAgree, Registered
<1>3. \A f \in Sockets : peer'[f] => peer[f]
  BY <1>1 DEF SocketsInv, ConnTypeOK
<1>4. ReachableUnlessIdShared' /\ DeadAreGone' /\ AwaitedAreTheirs' /\ ClosingAreGone'
  BY <1>1, <1>3 DEF SocketsInv, ReachableUnlessIdShared, DeadAreGone, AwaitedAreTheirs, ClosingAreGone
<1>5. HandlersHaveIds' /\ RegisteredAreLive' /\ NewHaveNoRooms' /\ SharingIsKnown'
  BY <1>1 DEF SocketsInv, HandlersHaveIds, RegisteredAreLive, NewHaveNoRooms, SharingIsKnown
<1> QED  BY <1>2, <1>4, <1>5 DEF SocketsInv

\* A handler leaves its loop, because the client is gone or because of a message of one that is
\* there.
LEMMA LeaveLoopKeeps ==
  ASSUME SocketsInv, NEW e \in Sockets, NoticeGone(e) \/ BadMessage(e)
  PROVE  SocketsInv'
<1>1. PICK phase \in {"closing", "failing"} :
        /\ socket[e].phase = "open"
        /\ socket' = [socket EXCEPT ![e].phase = phase]
        /\ phase = "closing" => ~peer[e]
  BY DEF NoticeGone, BadMessage
<1>2. UNCHANGED <<peer, connections, subscribed, rooms, notice, holder, shared>>
  BY DEF NoticeGone, BadMessage
<1>3. \A f \in Sockets :
        /\ socket'[f].id = socket[f].id
        /\ socket'[f].phase = IF f = e THEN phase ELSE socket[f].phase
  BY <1>1 DEF SocketsInv, ConnTypeOK, Handlers
<1>4. socket' \in [Sockets -> Handlers]
  BY <1>1 DEF SocketsInv, ConnTypeOK, Handlers, Phases, Serving
<1>5. ConnTypeOK'
  BY <1>2, <1>4 DEF SocketsInv, ConnTypeOK
<1>6. \A f \in Sockets : socket'[f].phase \in Serving <=> socket[f].phase \in Serving
  BY <1>1, <1>3 DEF Serving
<1>7. RoomsAgree' /\ RegisteredAreLive'
  BY <1>2, <1>3, <1>6, Registration DEF RoomsAgree, RegisteredAreLive, Registered, SocketsInv
<1>8. ReachableUnlessIdShared' /\ HandlersHaveIds' /\ NewHaveNoRooms'
  BY <1>1, <1>2, <1>3, <1>6 DEF SocketsInv, ReachableUnlessIdShared, HandlersHaveIds, NewHaveNoRooms
<1>9. SharingIsKnown' /\ DeadAreGone' /\ AwaitedAreTheirs' /\ ClosingAreGone'
  BY <1>1, <1>2, <1>3, <1>6
     DEF SocketsInv, SharingIsKnown, DeadAreGone, AwaitedAreTheirs, ClosingAreGone
<1> QED  BY <1>5, <1>7, <1>8, <1>9 DEF SocketsInv

-----------------------------------------------------------------------------
(* disconnect, by an endpoint or by a notifier *)

\* What disconnect does to the tables keeps them in agreement.
LEMMA DisconnectKeeps ==
  ASSUME SocketsInv, NEW id \in Ids, Disconnect(id)
  PROVE  /\ rooms' \in [AllRooms -> SUBSET Ids]
         /\ connections' \in [Ids -> Sockets \cup {Nobody}]
         /\ \A i \in Ids : connections'[i] = IF i = id THEN Nobody ELSE connections[i]
         /\ \A r \in AllRooms : rooms'[r] = rooms[r] \ {id}
<1>1. CASE id \in Registered
  BY <1>1 DEF Disconnect, Forgotten, SocketsInv, ConnTypeOK
<1>2. CASE id \notin Registered
  <2>1. UNCHANGED <<rooms, connections>>
    BY <1>2 DEF Disconnect
  <2>2. \A r \in AllRooms : id \notin rooms[r]
    BY <1>2 DEF SocketsInv, RoomsAgree
  <2> QED  BY <1>2, <2>1, <2>2 DEF SocketsInv, ConnTypeOK, Registered
<1> QED  BY <1>1, <1>2

\* Another live endpoint with the id that is unregistered shares it.
LEMMA CloseSocketKeeps ==
  ASSUME SocketsInv, NEW e \in Sockets, CloseSocket(e)
  PROVE  SocketsInv'
<1> DEFINE id == socket[e].id
<1>1. /\ socket[e].phase \in {"closing", "failing"} /\ Disconnect(id)
      /\ socket' = [socket EXCEPT ![e] = Without("closed")]
      /\ peer' = [peer EXCEPT ![e] = FALSE]
      /\ subscribed' = [subscribed EXCEPT ![e] = {}]
      /\ UNCHANGED <<notice, holder, shared>>
  BY DEF CloseSocket
<1>2. id \in Ids
  BY <1>1 DEF SocketsInv, HandlersHaveIds, Serving
<1>3. /\ rooms' \in [AllRooms -> SUBSET Ids]
      /\ connections' \in [Ids -> Sockets \cup {Nobody}]
      /\ \A i \in Ids : connections'[i] = IF i = id THEN Nobody ELSE connections[i]
      /\ \A r \in AllRooms : rooms'[r] = rooms[r] \ {id}
  BY <1>1, <1>2, DisconnectKeeps
<1>4. /\ \A f \in Sockets \ {e} :
           socket'[f] = socket[f] /\ subscribed'[f] = subscribed[f] /\ peer'[f] = peer[f]
      /\ socket'[e].phase = "closed" /\ subscribed'[e] = {} /\ ~peer'[e]
  BY <1>1 DEF SocketsInv, ConnTypeOK, Without
<1>5. socket' \in [Sockets -> Handlers]
  BY <1>1 DEF SocketsInv, ConnTypeOK, Handlers, Phases, Serving, Without
<1>6. ConnTypeOK'
  BY <1>1, <1>3, <1>5 DEF SocketsInv, ConnTypeOK
<1>7. \A i \in Ids : connections'[i] # Nobody =>
        i # id /\ connections'[i] = connections[i] /\ connections[i] \in Sockets \ {e}
  BY <1>3, Registration
<1>8. RoomsAgree'
  <2>1. \A r \in AllRooms : rooms'[r] \subseteq Registered'
    BY <1>3 DEF SocketsInv, RoomsAgree, Registered
  <2>2. ASSUME NEW i \in Ids, connections'[i] # Nobody
        PROVE  /\ socket'[connections'[i]].id = i
               /\ \A r \in subscribed'[connections'[i]] : i \in rooms'[r]
    <3>1. /\ i # id /\ connections'[i] = connections[i] /\ connections[i] \in Sockets \ {e}
          /\ connections[i] # Nobody
      BY <2>2, <1>7
    <3>2. /\ socket[connections[i]].id = i
          /\ \A r \in subscribed[connections[i]] : i \in rooms[r]
      BY <3>1, Registration
    <3>3. subscribed[connections[i]] \subseteq AllRooms
      BY <3>1 DEF SocketsInv, ConnTypeOK
    <3> QED  BY <3>1, <3>2, <3>3, <1>3, <1>4
  <2> QED  BY <2>1, <2>2 DEF RoomsAgree, Registered
<1>9. ReachableUnlessIdShared'
  <2>1. ASSUME NEW f \in Sockets, socket'[f].phase \in {"joining", "open"}, peer'[f],
               socket'[f].id \notin shared
        PROVE  connections'[socket'[f].id] = f
    <3>1. f # e /\ socket'[f] = socket[f] /\ peer[f]
      BY <2>1, <1>4
    <3>2. socket[f].id \in Ids /\ connections[socket[f].id] = f
      BY <2>1, <3>1 DEF SocketsInv, HandlersHaveIds, ReachableUnlessIdShared, Serving
    <3>3. socket[f].id # id
      BY <2>1, <3>1, <1>1 DEF SocketsInv, SharingIsKnown, Serving
    <3> QED  BY <3>1, <3>2, <3>3, <1>3
  <2> QED  BY <2>1, <1>1 DEF ReachableUnlessIdShared
<1>10. RegisteredAreLive'
  BY <1>4, <1>7, Registration DEF RegisteredAreLive
<1>11. HandlersHaveIds' /\ NewHaveNoRooms' /\ SharingIsKnown'
  BY <1>1, <1>4 DEF SocketsInv, HandlersHaveIds, NewHaveNoRooms, SharingIsKnown, Serving
<1>12. DeadAreGone' /\ AwaitedAreTheirs' /\ ClosingAreGone'
  BY <1>1, <1>4 DEF SocketsInv, DeadAreGone, AwaitedAreTheirs, ClosingAreGone, Serving
<1> QED  BY <1>6, <1>8, <1>9, <1>10, <1>11, <1>12 DEF SocketsInv

-----------------------------------------------------------------------------
(* The notifiers *)

\* A notifier that changes only its own record, adds no dead id but one that is gone or shared, and
\* waits for no client but the only one that has its id, keeps everything else.
LEMMA NoticeChanges ==
  ASSUME SocketsInv, NEW n \in Notifiers, NEW entry \in Notices,
         notice' = [notice EXCEPT ![n] = entry],
         UNCHANGED <<socket, peer, connections, subscribed, rooms, shared>>,
         holder' \in Notifiers \cup {Nobody},
         \A id \in entry.dead \ notice[n].dead :
           id \notin shared =>
             \A e \in Sockets : socket[e].phase \in Serving /\ socket[e].id = id => ~peer[e],
         entry.phase = "awaiting" =>
           /\ entry.at \in Ids /\ entry.to \in Sockets
           /\ entry.at \notin shared =>
                \A e \in Sockets : socket[e].phase \in Serving /\ socket[e].id = entry.at => e = entry.to
  PROVE  SocketsInv'
<1>1. \A m \in Notifiers : notice'[m] = IF m = n THEN entry ELSE notice[m]
  BY DEF SocketsInv, ConnTypeOK
<1>2. ConnTypeOK'
  BY <1>1 DEF SocketsInv, ConnTypeOK
<1>3. DeadAreGone'
  BY <1>1 DEF SocketsInv, DeadAreGone
<1>4. AwaitedAreTheirs' /\ ClosingAreGone'
  BY <1>1 DEF SocketsInv, AwaitedAreTheirs, ClosingAreGone
<1>5. RoomsAgree' /\ ReachableUnlessIdShared' /\ HandlersHaveIds' /\ RegisteredAreLive'
  BY DEF SocketsInv, RoomsAgree, ReachableUnlessIdShared, HandlersHaveIds, RegisteredAreLive, Registered
<1>6. NewHaveNoRooms' /\ SharingIsKnown'
  BY DEF SocketsInv, NewHaveNoRooms, SharingIsKnown
<1> QED  BY <1>2, <1>3, <1>4, <1>5, <1>6 DEF SocketsInv

LEMMA StartBroadcastKeeps ==
  ASSUME SocketsInv, NEW n \in Notifiers, NEW event, NEW target \in WorkerIds \cup {Nobody},
         StartBroadcast(n, event, target)
  PROVE  SocketsInv'
<1> DEFINE room == RoomOf(event)
           entry == [notice[n] EXCEPT !.phase = "sending", !.target = target, !.left = rooms[room],
                                    !.owed = Clients(room)]
<1>1. /\ notice' = [notice EXCEPT ![n] = entry] /\ room \in AllRooms
      /\ UNCHANGED <<socket, peer, connections, subscribed, rooms, holder, shared>>
  BY DEF StartBroadcast
<1>2. Clients(room) \subseteq Sockets
  BY DEF Clients, Registered, SocketsInv, ConnTypeOK
<1>3. entry \in Notices /\ entry.dead = notice[n].dead /\ entry.phase = "sending"
  BY <1>1, <1>2 DEF SocketsInv, ConnTypeOK, Notices
<1>4. holder' \in Notifiers \cup {Nobody}
  BY <1>1 DEF SocketsInv, ConnTypeOK
<1> QED  BY <1>1, <1>3, <1>4, NoticeChanges

\* The client whose turn comes is the one registered under the id: any other endpoint with that
\* id shares it.
LEMMA BeginSendKeeps ==
  ASSUME SocketsInv, NEW n \in Notifiers, BeginSend(n)
  PROVE  SocketsInv'
<1>1. PICK id \in notice[n].left :
        LET e == connections[id] IN
        \/ /\ e = Nobody
           /\ notice' = [notice EXCEPT ![n].left = @ \ {id}]
        \/ /\ e # Nobody /\ KnownGone(e)
           /\ notice' = [notice EXCEPT ![n].left = @ \ {id}, ![n].dead = @ \cup {id}]
        \/ /\ e # Nobody /\ ~KnownGone(e)
           /\ notice' = [notice EXCEPT ![n].phase = "awaiting", ![n].left = @ \ {id},
                                       ![n].at = id, ![n].to = e]
  BY DEF BeginSend
<1>2. /\ notice[n].phase = "sending"
      /\ UNCHANGED <<socket, peer, connections, subscribed, rooms, holder, shared>>
  BY DEF BeginSend
<1>3. /\ notice \in [Notifiers -> Notices] /\ notice[n] \in Notices
      /\ id \in Ids /\ holder' \in Notifiers \cup {Nobody}
  BY <1>2 DEF SocketsInv, ConnTypeOK, Notices
<1>4. ASSUME connections[id] # Nobody
      PROVE  /\ connections[id] \in Sockets
             /\ socket[connections[id]].phase \in Serving
             /\ socket[connections[id]].id = id
             /\ id \notin shared =>
                  \A e \in Sockets : socket[e].phase \in Serving /\ socket[e].id = id => e = connections[id]
  BY <1>3, <1>4, Registration DEF SocketsInv, SharingIsKnown
<1>5. CASE notice' = [notice EXCEPT ![n].left = @ \ {id}]
  <2> DEFINE entry == [notice[n] EXCEPT !.left = @ \ {id}]
  <2>1. entry \in Notices /\ entry.dead = notice[n].dead /\ entry.phase = "sending"
    BY <1>2, <1>3 DEF Notices
  <2>2. notice' = [notice EXCEPT ![n] = entry]
    BY <1>5
  <2> QED  BY <1>2, <1>3, <2>1, <2>2, NoticeChanges
<1>6. CASE /\ connections[id] # Nobody /\ KnownGone(connections[id])
           /\ notice' = [notice EXCEPT ![n].left = @ \ {id}, ![n].dead = @ \cup {id}]
  <2> DEFINE entry == [notice[n] EXCEPT !.left = @ \ {id}, !.dead = @ \cup {id}]
  <2>1. entry \in Notices /\ entry.dead = notice[n].dead \cup {id} /\ entry.phase = "sending"
    BY <1>2, <1>3 DEF Notices
  <2>2. notice' = [notice EXCEPT ![n] = entry]
    BY <1>3, <1>6
  <2>3. ~peer[connections[id]]
    BY <1>4, <1>6 DEF SocketsInv, ClosingAreGone, KnownGone
  <2>4. \A i \in entry.dead \ notice[n].dead : i = id
    BY <2>1
  <2> HIDE DEF entry
  <2>5. \A i \in entry.dead \ notice[n].dead :
          i \notin shared =>
            \A e \in Sockets : socket[e].phase \in Serving /\ socket[e].id = i => ~peer[e]
    BY <1>4, <1>6, <2>3, <2>4
  <2> QED  BY <1>2, <1>3, <2>1, <2>2, <2>5, NoticeChanges
<1>7. CASE /\ connections[id] # Nobody
           /\ notice' = [notice EXCEPT ![n].phase = "awaiting", ![n].left = @ \ {id},
                                       ![n].at = id, ![n].to = connections[id]]
  <2> DEFINE entry == [notice[n] EXCEPT !.phase = "awaiting", !.left = @ \ {id}, !.at = id,
                                      !.to = connections[id]]
  <2>1. /\ entry \in Notices /\ entry.dead = notice[n].dead
        /\ entry.at = id /\ entry.to = connections[id]
    BY <1>3, <1>4, <1>7 DEF Notices
  <2>2. notice' = [notice EXCEPT ![n] = entry]
    BY <1>3, <1>7
  <2> HIDE DEF entry
  <2>3. /\ entry.at \in Ids /\ entry.to \in Sockets
        /\ entry.at \notin shared =>
             \A e \in Sockets : socket[e].phase \in Serving /\ socket[e].id = entry.at => e = entry.to
    BY <1>3, <1>4, <1>7, <2>1
  <2>4. entry.dead \ notice[n].dead = {}
    BY <2>1
  <2> QED  BY <1>2, <1>3, <2>1, <2>2, <2>3, <2>4, NoticeChanges
<1> QED  BY <1>1, <1>5, <1>6, <1>7

\* A client that a send could not reach is gone, and nobody else has its id unless it is shared.
LEMMA FinishSendKeeps ==
  ASSUME SocketsInv, NEW n \in Notifiers, FinishSend(n)
  PROVE  SocketsInv'
<1>1. /\ notice[n].phase = "awaiting"
      /\ UNCHANGED <<socket, peer, connections, subscribed, rooms, holder, shared>>
  BY DEF FinishSend
<1>2. /\ notice[n] \in Notices /\ holder' \in Notifiers \cup {Nobody}
      /\ notice[n].at \in Ids /\ notice[n].to \in Sockets
  BY <1>1 DEF SocketsInv, ConnTypeOK
<1>3. CASE notice' = [notice EXCEPT ![n] = Sent(n)]
  <2>1. Sent(n) \in Notices /\ Sent(n).dead = notice[n].dead /\ Sent(n).phase = "sending"
    BY <1>2 DEF Sent, Notices
  <2> QED  BY <1>1, <1>2, <1>3, <2>1, NoticeChanges
<1>4. CASE ~peer[notice[n].to] /\ notice' = [notice EXCEPT ![n] = Failed(n)]
  <2>1. /\ Failed(n) \in Notices /\ Failed(n).dead = notice[n].dead \cup {notice[n].at}
        /\ Failed(n).phase = "sending"
    BY <1>2 DEF Failed, Notices
  <2>2. \A i \in Failed(n).dead \ notice[n].dead :
          i \notin shared =>
            \A e \in Sockets : socket[e].phase \in Serving /\ socket[e].id = i => ~peer[e]
    BY <1>1, <1>4, <2>1 DEF SocketsInv, AwaitedAreTheirs
  <2> QED  BY <1>1, <1>2, <1>4, <2>1, <2>2, NoticeChanges
<1> QED  BY <1>3, <1>4 DEF FinishSend

\* Whoever is unregistered for a dead id is gone, or the id is shared.
LEMMA CleanNextKeeps ==
  ASSUME SocketsInv, NEW n \in Notifiers, CleanNext(n)
  PROVE  SocketsInv'
<1>1. PICK id \in notice[n].dead :
        Disconnect(id) /\ notice' = [notice EXCEPT ![n].dead = @ \ {id}]
  BY DEF CleanNext
<1>2. UNCHANGED <<socket, peer, subscribed, holder, shared>>
  BY DEF CleanNext
<1>3. id \in Ids /\ notice[n] \in Notices
  BY DEF SocketsInv, ConnTypeOK, Notices
<1>4. /\ rooms' \in [AllRooms -> SUBSET Ids]
      /\ connections' \in [Ids -> Sockets \cup {Nobody}]
      /\ \A i \in Ids : connections'[i] = IF i = id THEN Nobody ELSE connections[i]
      /\ \A r \in AllRooms : rooms'[r] = rooms[r] \ {id}
  BY <1>1, <1>3, DisconnectKeeps
<1>5. /\ notice' \in [Notifiers -> Notices]
      /\ \A m \in Notifiers :
           /\ notice'[m].dead \subseteq notice[m].dead
           /\ notice'[m].phase = notice[m].phase
           /\ notice'[m].at = notice[m].at /\ notice'[m].to = notice[m].to
  BY <1>1, <1>3 DEF SocketsInv, ConnTypeOK, Notices
<1>6. ConnTypeOK'
  BY <1>2, <1>4, <1>5 DEF SocketsInv, ConnTypeOK
<1>7. RoomsAgree'
  <2>1. \A r \in AllRooms : rooms'[r] \subseteq Registered'
    BY <1>4 DEF SocketsInv, RoomsAgree, Registered
  <2>2. ASSUME NEW i \in Ids, connections'[i] # Nobody
        PROVE  /\ socket'[connections'[i]].id = i
               /\ \A r \in subscribed'[connections'[i]] : i \in rooms'[r]
    <3>1. i # id /\ connections'[i] = connections[i] /\ connections[i] # Nobody
      BY <2>2, <1>4
    <3>2. /\ connections[i] \in Sockets /\ socket[connections[i]].id = i
          /\ \A r \in subscribed[connections[i]] : i \in rooms[r]
      BY <3>1, Registration
    <3>3. subscribed[connections[i]] \subseteq AllRooms
      BY <3>2 DEF SocketsInv, ConnTypeOK
    <3> QED  BY <3>1, <3>2, <3>3, <1>2, <1>4
  <2> QED  BY <2>1, <2>2 DEF RoomsAgree, Registered
<1>8. ReachableUnlessIdShared'
  <2>1. ASSUME NEW f \in Sockets, socket[f].phase \in {"joining", "open"}, peer[f],
               socket[f].id \notin shared
        PROVE  connections'[socket[f].id] = f
    <3>1. socket[f].id \in Ids /\ connections[socket[f].id] = f
      BY <2>1 DEF SocketsInv, HandlersHaveIds, ReachableUnlessIdShared, Serving
    <3>2. socket[f].id # id
      BY <2>1 DEF SocketsInv, DeadAreGone, Serving
    <3> QED  BY <3>1, <3>2, <1>4
  <2> QED  BY <2>1, <1>2 DEF ReachableUnlessIdShared
<1>9. RegisteredAreLive'
  BY <1>2, <1>4, Registration DEF RegisteredAreLive
<1>10. HandlersHaveIds' /\ NewHaveNoRooms' /\ SharingIsKnown'
  BY <1>2 DEF SocketsInv, HandlersHaveIds, NewHaveNoRooms, SharingIsKnown
<1>11. DeadAreGone' /\ AwaitedAreTheirs' /\ ClosingAreGone'
  BY <1>2, <1>5 DEF SocketsInv, DeadAreGone, AwaitedAreTheirs, ClosingAreGone
<1> QED  BY <1>6, <1>7, <1>8, <1>9, <1>10, <1>11 DEF SocketsInv

LEMMA EndBroadcastKeeps ==
  ASSUME SocketsInv, NEW n \in Notifiers, EndBroadcast(n)
  PROVE  SocketsInv'
<1> DEFINE entry == [notice[n] EXCEPT !.phase = IF notice[n].target = Nobody THEN "ended" ELSE "targeting"]
<1>1. /\ notice' = [notice EXCEPT ![n] = entry]
      /\ UNCHANGED <<socket, peer, connections, subscribed, rooms, holder, shared>>
  BY DEF EndBroadcast
<1>2. /\ entry \in Notices /\ entry.dead = notice[n].dead /\ entry.phase # "awaiting"
      /\ holder' \in Notifiers \cup {Nobody}
  BY <1>1 DEF SocketsInv, ConnTypeOK, Notices
<1> QED  BY <1>1, <1>2, NoticeChanges

\* Taking the lock and giving it back change no table.
LEMMA LockKeeps ==
  ASSUME SocketsInv, NEW n \in Notifiers, HoldLock(n) \/ ReleaseLock(n)
  PROVE  SocketsInv'
<1> DEFINE entry == [notice[n] EXCEPT !.phase = "ended", !.target = Nobody]
<1>1. UNCHANGED <<socket, peer, connections, subscribed, rooms, shared>>
  BY DEF HoldLock, ReleaseLock
<1>2. holder' \in Notifiers \cup {Nobody}
  BY DEF HoldLock, ReleaseLock, SocketsInv, ConnTypeOK
<1>3. notice[n] \in Notices /\ entry \in Notices /\ entry.dead = notice[n].dead /\ entry.phase = "ended"
  BY DEF SocketsInv, ConnTypeOK, Notices
<1>4. CASE notice' = [notice EXCEPT ![n].phase = "ended", ![n].target = Nobody]
  <2>1. notice' = [notice EXCEPT ![n] = entry]
    BY <1>4 DEF SocketsInv, ConnTypeOK
  <2> QED  BY <1>1, <1>2, <1>3, <2>1, NoticeChanges
<1>5. CASE notice' = notice
  BY <1>1, <1>2, <1>5 DEF SocketsInv, ConnTypeOK, RoomsAgree, ReachableUnlessIdShared, HandlersHaveIds,
       RegisteredAreLive, Registered, NewHaveNoRooms, SharingIsKnown, DeadAreGone, AwaitedAreTheirs,
       ClosingAreGone
<1> QED  BY <1>4, <1>5 DEF HoldLock, ReleaseLock

-----------------------------------------------------------------------------
(* The invariant *)

LEMMA SocketsInitHolds ==
  ASSUME ConnInit
  PROVE  SocketsInv
<1>1. ConnTypeOK
  BY DEF ConnInit, ConnTypeOK, Handlers, Phases, Serving, Notices, Without, NotStarted, AllRooms
<1>2. RoomsAgree /\ ReachableUnlessIdShared /\ RegisteredAreLive
  BY DEF ConnInit, RoomsAgree, ReachableUnlessIdShared, RegisteredAreLive, Registered, Without
<1>3. /\ HandlersHaveIds /\ NewHaveNoRooms /\ SharingIsKnown
      /\ DeadAreGone /\ AwaitedAreTheirs /\ ClosingAreGone
  BY DEF ConnInit, HandlersHaveIds, NewHaveNoRooms, SharingIsKnown, DeadAreGone, AwaitedAreTheirs,
         ClosingAreGone, Without, Serving, NotStarted
<1> QED  BY <1>1, <1>2, <1>3 DEF SocketsInv

LEMMA StutterKeeps ==
  ASSUME SocketsInv, UNCHANGED connVars
  PROVE  SocketsInv'
<1>1. ConnTypeOK' /\ RoomsAgree' /\ ReachableUnlessIdShared'
  BY DEF connVars, SocketsInv, ConnTypeOK, RoomsAgree, ReachableUnlessIdShared, Registered
<1>2. /\ HandlersHaveIds' /\ RegisteredAreLive' /\ NewHaveNoRooms' /\ SharingIsKnown'
      /\ DeadAreGone' /\ AwaitedAreTheirs' /\ ClosingAreGone'
  BY DEF connVars, SocketsInv, HandlersHaveIds, RegisteredAreLive, NewHaveNoRooms, SharingIsKnown,
         DeadAreGone, AwaitedAreTheirs, ClosingAreGone
<1> QED  BY <1>1, <1>2 DEF SocketsInv

LEMMA SocketsStepKeeps ==
  ASSUME SocketsInv, [ConnNext]_connVars
  PROVE  SocketsInv'
<1>1. ASSUME NEW e \in Sockets, EndpointStep(e)
      PROVE  SocketsInv'
  BY <1>1, ConnectKeeps, JoinKeeps, CloseSocketKeeps DEF EndpointStep
<1>2. ASSUME NEW n \in Notifiers, NotifierStep(n) \/ SendEnds(n)
      PROVE  SocketsInv'
  BY <1>2, BeginSendKeeps, FinishSendKeeps, CleanNextKeeps, EndBroadcastKeeps, LockKeeps
     DEF NotifierStep, SendEnds
<1>3. ASSUME NEW e \in Sockets, NEW id \in Ids, NEW worker \in WorkerIds \cup {Nobody},
             Accept(e, id, worker)
      PROVE  SocketsInv'
  BY <1>3, AcceptKeeps
<1>4. ASSUME NEW e \in Sockets, NEW id \in WorkerIds, AcceptWorker(e, id)
      PROVE  SocketsInv'
  BY <1>4, AcceptWorkerKeeps
<1>5. ASSUME NEW e \in Sockets, NEW room \in Asked,
             ClientSubscribes(e, room) \/ ClientUnsubscribes(e, room)
      PROVE  SocketsInv'
  <2>1. room \in AllRooms
    BY ConnectionAssumption DEF AllRooms
  <2> QED  BY <1>5, <2>1, ClientSubscribesKeeps, ClientUnsubscribesKeeps
<1>6. ASSUME NEW n \in Notifiers, NEW event, NEW target \in WorkerIds \cup {Nobody},
             StartBroadcast(n, event, target)
      PROVE  SocketsInv'
  BY <1>6, StartBroadcastKeeps
<1>7. ASSUME NEW e \in Sockets, PeerStep(e)
      PROVE  SocketsInv'
  BY <1>7, PeerLeavesKeeps, LeaveLoopKeeps DEF PeerStep
<1> QED  BY <1>1, <1>2, <1>3, <1>4, <1>5, <1>6, <1>7, StutterKeeps DEF ConnNext

\* The tables of the manager agree, for any number of sockets, ids, rooms and notifiers, and a
\* client that is there is the one registered under its id, unless it connected while another
\* endpoint had the id or a broadcast was sending to it or about to disconnect it.
THEOREM ConnectionsAgree == ConnSpec => []ConnInv
<1>1. ConnInit => SocketsInv
  BY SocketsInitHolds
<1>2. SocketsInv /\ [ConnNext]_connVars => SocketsInv'
  BY SocketsStepKeeps
<1>3. SocketsInv => ConnInv
  BY DEF SocketsInv, ConnInv
<1> QED  BY <1>1, <1>2, <1>3, PTL DEF ConnSpec

-----------------------------------------------------------------------------
(* What a broadcast owes the clients it was asked to reach *)

\* Nobody is owed a notice who had not connected.
OwedHadConnected ==
  \A n \in Notifiers : \A e \in notice[n].owed : socket[e].phase \notin {"new", "accepted"}

\* A client that is still there and still owed the notice has its turn to come, or it has come.
StillOwed ==
  \A n \in Notifiers : \A e \in notice[n].owed :
    socket[e].phase \in {"joining", "open"} /\ peer[e] /\ socket[e].id \notin shared =>
      \/ socket[e].id \in notice[n].left
      \/ notice[n].phase = "awaiting" /\ notice[n].to = e

\* The list is empty when the loop is over, and only a notifier whose loop is over has the lock.
ListIsDone ==
  \A n \in Notifiers :
    /\ notice[n].phase \in {"targeting", "ended"} => notice[n].left = {}
    /\ holder = n => notice[n].phase = "targeting"

BInv == SocketsInv /\ OwedHadConnected /\ StillOwed /\ ListIsDone

\* The endpoints: a handler connects before it is owed anything, and a client that is found there
\* afterwards was there, under the same id.
LEMMA EndpointsOweNothing ==
  ASSUME BInv, UNCHANGED <<notice, holder>>, shared \subseteq shared',
         \A e \in Sockets :
           socket[e].phase \notin {"new", "accepted"} =>
             /\ socket'[e].phase \notin {"new", "accepted"}
             /\ socket'[e].phase \in {"joining", "open"} =>
                  socket[e].phase \in {"joining", "open"} /\ socket'[e].id = socket[e].id
             /\ peer'[e] => peer[e]
  PROVE  OwedHadConnected' /\ StillOwed' /\ ListIsDone'
<1>1. \A n \in Notifiers : notice[n].owed \subseteq Sockets
  BY DEF BInv, SocketsInv, ConnTypeOK, Notices
<1>2. OwedHadConnected'
  BY <1>1 DEF BInv, OwedHadConnected
<1>3. StillOwed'
  BY <1>1 DEF BInv, OwedHadConnected, StillOwed
<1>4. ListIsDone'
  BY DEF BInv, ListIsDone
<1> QED  BY <1>2, <1>3, <1>4

LEMMA EndpointStepOwesNothing ==
  ASSUME BInv, NEW e \in Sockets,
         \/ EndpointStep(e) \/ PeerStep(e)
         \/ \E id \in Ids, worker \in WorkerIds \cup {Nobody} : Accept(e, id, worker)
         \/ \E id \in WorkerIds : AcceptWorker(e, id)
         \/ \E room \in Asked : ClientSubscribes(e, room) \/ ClientUnsubscribes(e, room)
  PROVE  OwedHadConnected' /\ StillOwed' /\ ListIsDone'
<1> DEFINE Faithful(f) ==
             socket[f].phase \notin {"new", "accepted"} =>
               /\ socket'[f].phase \notin {"new", "accepted"}
               /\ socket'[f].phase \in {"joining", "open"} =>
                    socket[f].phase \in {"joining", "open"} /\ socket'[f].id = socket[f].id
               /\ peer'[f] => peer[f]
           Goal == UNCHANGED <<notice, holder>> /\ shared \subseteq shared'
                     /\ \A f \in Sockets : Faithful(f)
<1>1. ASSUME Connect(e)
      PROVE  Goal
  BY <1>1 DEF Connect, BInv, SocketsInv, ConnTypeOK, Handlers
<1>2. ASSUME Join(e)
      PROVE  Goal
  BY <1>2 DEF Join, BInv, SocketsInv, ConnTypeOK, Handlers
<1>3. ASSUME NoticeGone(e) \/ BadMessage(e)
      PROVE  Goal
  BY <1>3 DEF NoticeGone, BadMessage, BInv, SocketsInv, ConnTypeOK, Handlers
<1>4. ASSUME CloseSocket(e)
      PROVE  Goal
  BY <1>4 DEF CloseSocket, Without, BInv, SocketsInv, ConnTypeOK
<1>5. ASSUME PeerLeaves(e)
      PROVE  Goal
  BY <1>5 DEF PeerLeaves, BInv, SocketsInv, ConnTypeOK
<1>6. ASSUME NEW id \in Ids, NEW worker, Accept(e, id, worker)
      PROVE  Goal
  BY <1>6 DEF Accept, BInv, SocketsInv, ConnTypeOK
<1>7. ASSUME NEW id \in WorkerIds, AcceptWorker(e, id)
      PROVE  Goal
  BY <1>7 DEF AcceptWorker, BInv, SocketsInv, ConnTypeOK
<1>8. ASSUME NEW room \in Asked, ClientSubscribes(e, room) \/ ClientUnsubscribes(e, room)
      PROVE  Goal
  BY <1>8 DEF ClientSubscribes, ClientUnsubscribes
<1>9. Goal
  BY <1>1, <1>2, <1>3, <1>4, <1>5, <1>6, <1>7, <1>8 DEF EndpointStep, PeerStep
<1> QED  BY <1>9, EndpointsOweNothing

\* A notifier changes its own record alone.
LEMMA NotifierOwes ==
  ASSUME BInv, NEW n \in Notifiers, NEW entry \in Notices, notice' = [notice EXCEPT ![n] = entry],
         UNCHANGED <<socket, peer, shared>>,
         \A e \in entry.owed :
           /\ socket[e].phase \notin {"new", "accepted"}
           /\ socket[e].phase \in {"joining", "open"} /\ peer[e] /\ socket[e].id \notin shared =>
                \/ socket[e].id \in entry.left
                \/ entry.phase = "awaiting" /\ entry.to = e,
         entry.phase \in {"targeting", "ended"} => entry.left = {},
         \A m \in Notifiers : holder' = m => notice'[m].phase = "targeting"
  PROVE  OwedHadConnected' /\ StillOwed' /\ ListIsDone'
<1>1. \A m \in Notifiers : notice'[m] = IF m = n THEN entry ELSE notice[m]
  BY DEF BInv, SocketsInv, ConnTypeOK
<1>2. OwedHadConnected'
  BY <1>1 DEF BInv, OwedHadConnected
<1>3. StillOwed'
  BY <1>1 DEF BInv, StillOwed
<1>4. ListIsDone'
  BY <1>1 DEF BInv, ListIsDone
<1> QED  BY <1>2, <1>3, <1>4

LEMMA StartOwes ==
  ASSUME BInv, NEW n \in Notifiers, NEW event, NEW target \in WorkerIds \cup {Nobody},
         StartBroadcast(n, event, target)
  PROVE  OwedHadConnected' /\ StillOwed' /\ ListIsDone'
<1> DEFINE room == RoomOf(event)
           entry == [notice[n] EXCEPT !.phase = "sending", !.target = target, !.left = rooms[room],
                                    !.owed = Clients(room)]
<1>1. /\ notice[n].phase = "new" /\ room \in AllRooms
      /\ notice' = [notice EXCEPT ![n] = entry]
      /\ UNCHANGED <<socket, peer, holder, shared>>
  BY DEF StartBroadcast
<1>2. Clients(room) \subseteq Sockets
  BY DEF Clients, Registered, BInv, SocketsInv, ConnTypeOK
<1>3. /\ entry \in Notices /\ entry.phase = "sending"
      /\ entry.owed = Clients(room) /\ entry.left = rooms[room]
  BY <1>1, <1>2 DEF BInv, SocketsInv, ConnTypeOK, Notices
<1>4. ASSUME NEW e \in Clients(room)
      PROVE  socket[e].phase \in Serving /\ socket[e].id \in rooms[room]
  BY Registration DEF Clients, Registered, BInv
<1>5. \A m \in Notifiers : holder' = m => notice'[m].phase = "targeting"
  BY <1>1 DEF BInv, SocketsInv, ConnTypeOK, ListIsDone
<1>6. \A e \in entry.owed :
        socket[e].phase \notin {"new", "accepted"} /\ socket[e].id \in entry.left
  BY <1>3, <1>4 DEF Serving
<1> QED  BY <1>1, <1>3, <1>5, <1>6, NotifierOwes

\* The id whose turn has come is the one of a client that is there only if that client is the one
\* registered, and then the notifier sends to it.
LEMMA BeginOwes ==
  ASSUME BInv, NEW n \in Notifiers, BeginSend(n)
  PROVE  OwedHadConnected' /\ StillOwed' /\ ListIsDone'
<1>1. PICK id \in notice[n].left :
        LET e == connections[id] IN
        \/ /\ e = Nobody
           /\ notice' = [notice EXCEPT ![n].left = @ \ {id}]
        \/ /\ e # Nobody /\ KnownGone(e)
           /\ notice' = [notice EXCEPT ![n].left = @ \ {id}, ![n].dead = @ \cup {id}]
        \/ /\ e # Nobody /\ ~KnownGone(e)
           /\ notice' = [notice EXCEPT ![n].phase = "awaiting", ![n].left = @ \ {id},
                                       ![n].at = id, ![n].to = e]
  BY DEF BeginSend
<1> DEFINE entry == notice'[n]
<1>2. notice[n].phase = "sending" /\ UNCHANGED <<socket, peer, shared, holder>>
  BY DEF BeginSend
<1>3. notice[n] \in Notices /\ id \in Ids
  BY DEF BInv, SocketsInv, ConnTypeOK, Notices
<1>4. SocketsInv'
  BY BeginSendKeeps DEF BInv
<1>5. notice' = [notice EXCEPT ![n] = entry] /\ entry \in Notices
  BY <1>1, <1>4 DEF BInv, SocketsInv, ConnTypeOK
<1>6. /\ entry.owed = notice[n].owed /\ entry.left = notice[n].left \ {id}
      /\ entry.phase \in {"sending", "awaiting"}
      /\ \/ connections[id] = Nobody
         \/ KnownGone(connections[id])
         \/ entry.phase = "awaiting" /\ entry.to = connections[id]
  BY <1>1, <1>2, <1>3 DEF BInv, SocketsInv, ConnTypeOK, Notices
<1>7. ASSUME NEW e \in notice[n].owed, socket[e].phase \in {"joining", "open"}, peer[e],
             socket[e].id \notin shared, socket[e].id = id
      PROVE  entry.phase = "awaiting" /\ entry.to = e
  <2>1. e \in Sockets
    BY <1>3 DEF Notices
  <2>2. connections[id] = e
    BY <1>7, <2>1 DEF BInv, SocketsInv, ReachableUnlessIdShared
  <2>3. e # Nobody
    BY <2>1, ConnectionAssumption
  <2> QED  BY <1>6, <1>7, <2>2, <2>3 DEF KnownGone
<1>8. \A e \in entry.owed :
        /\ socket[e].phase \notin {"new", "accepted"}
        /\ socket[e].phase \in {"joining", "open"} /\ peer[e] /\ socket[e].id \notin shared =>
             \/ socket[e].id \in entry.left
             \/ entry.phase = "awaiting" /\ entry.to = e
  BY <1>2, <1>6, <1>7 DEF BInv, OwedHadConnected, StillOwed
<1>9. \A m \in Notifiers : holder' = m => notice'[m].phase = "targeting"
  BY <1>2, <1>5 DEF BInv, SocketsInv, ConnTypeOK, ListIsDone
<1> QED  BY <1>2, <1>5, <1>6, <1>8, <1>9, NotifierOwes

\* The client the notifier waited for was sent to, or it is gone.
LEMMA FinishOwes ==
  ASSUME BInv, NEW n \in Notifiers, FinishSend(n)
  PROVE  OwedHadConnected' /\ StillOwed' /\ ListIsDone'
<1> DEFINE entry == notice'[n]
<1>1. notice[n].phase = "awaiting" /\ UNCHANGED <<socket, peer, shared, holder>>
  BY DEF FinishSend
<1>2. notice[n] \in Notices /\ notice \in [Notifiers -> Notices]
  BY DEF BInv, SocketsInv, ConnTypeOK
<1>3. SocketsInv'
  BY FinishSendKeeps DEF BInv
<1>4. notice' = [notice EXCEPT ![n] = entry] /\ entry \in Notices
  BY <1>2, <1>3 DEF FinishSend, SocketsInv, ConnTypeOK
<1>5. /\ entry.phase = "sending" /\ entry.left = notice[n].left
      /\ \/ entry.owed = notice[n].owed \ {notice[n].to}
         \/ entry.owed = notice[n].owed /\ ~peer[notice[n].to]
  <2>1. CASE notice' = [notice EXCEPT ![n] = Sent(n)]
    BY <1>2, <2>1 DEF Sent, Notices
  <2>2. CASE ~peer[notice[n].to] /\ notice' = [notice EXCEPT ![n] = Failed(n)]
    BY <1>2, <2>2 DEF Failed, Notices
  <2> QED  BY <2>1, <2>2 DEF FinishSend
<1>6. \A e \in entry.owed :
        /\ socket[e].phase \notin {"new", "accepted"}
        /\ socket[e].phase \in {"joining", "open"} /\ peer[e] /\ socket[e].id \notin shared =>
             socket[e].id \in entry.left
  BY <1>1, <1>5 DEF BInv, OwedHadConnected, StillOwed
<1>7. \A m \in Notifiers : holder' = m => notice'[m].phase = "targeting"
  BY <1>1, <1>4 DEF BInv, SocketsInv, ConnTypeOK, ListIsDone
<1> QED  BY <1>1, <1>4, <1>5, <1>6, <1>7, NotifierOwes

LEMMA AfterSendingOwes ==
  ASSUME BInv, NEW n \in Notifiers,
         CleanNext(n) \/ EndBroadcast(n) \/ HoldLock(n) \/ ReleaseLock(n)
  PROVE  OwedHadConnected' /\ StillOwed' /\ ListIsDone'
<1> DEFINE entry == notice'[n]
<1>1. notice[n] \in Notices /\ notice \in [Notifiers -> Notices]
  BY DEF BInv, SocketsInv, ConnTypeOK
<1>2. UNCHANGED <<socket, peer, shared>>
  BY DEF CleanNext, EndBroadcast, HoldLock, ReleaseLock
<1>3. notice[n].left = {} /\ notice[n].phase # "awaiting"
  BY DEF CleanNext, EndBroadcast, HoldLock, ReleaseLock, BInv, ListIsDone
<1>4. /\ notice' = [notice EXCEPT ![n] = entry]
      /\ entry.owed = notice[n].owed /\ entry.left = notice[n].left
  BY <1>1 DEF CleanNext, EndBroadcast, HoldLock, ReleaseLock, Notices
<1>5. SocketsInv'
  BY CleanNextKeeps, EndBroadcastKeeps, LockKeeps DEF BInv
<1>6. entry \in Notices
  BY <1>5 DEF SocketsInv, ConnTypeOK
<1>7. \A e \in entry.owed :
        /\ socket[e].phase \notin {"new", "accepted"}
        /\ socket[e].phase \in {"joining", "open"} /\ peer[e] /\ socket[e].id \notin shared =>
             socket[e].id \in entry.left
  BY <1>3, <1>4 DEF BInv, OwedHadConnected, StillOwed
<1>8. \A m \in Notifiers : holder' = m => notice'[m].phase = "targeting"
  BY <1>1, ConnectionAssumption
     DEF CleanNext, EndBroadcast, HoldLock, ReleaseLock, LockFree, Notices, BInv, ListIsDone
<1> QED  BY <1>2, <1>3, <1>4, <1>6, <1>7, <1>8, NotifierOwes

\* A broadcast that is over was sent to everyone who was in the room when it began and is still
\* connected, for any number of clients, rooms and notifiers, and whoever connects, leaves or is
\* disconnected while it waits for a send.
THEOREM BroadcastsReachTheirRoom == ConnSpec => []BroadcastReachesRoom
<1>1. ConnInit => BInv
  <2>1. ConnInit => OwedHadConnected /\ StillOwed /\ ListIsDone
    BY ConnectionAssumption
       DEF ConnInit, OwedHadConnected, StillOwed, ListIsDone, NotStarted
  <2> QED  BY <2>1, SocketsInitHolds DEF BInv
<1>2. BInv /\ [ConnNext]_connVars => BInv'
  <2> SUFFICES ASSUME BInv, [ConnNext]_connVars
               PROVE  OwedHadConnected' /\ StillOwed' /\ ListIsDone'
    BY SocketsStepKeeps DEF BInv
  <2>1. CASE UNCHANGED connVars
    BY <2>1 DEF connVars, BInv, OwedHadConnected, StillOwed, ListIsDone
  <2>2. CASE ConnNext
    BY <2>2, EndpointStepOwesNothing, StartOwes, BeginOwes, FinishOwes, AfterSendingOwes
       DEF ConnNext, NotifierStep, SendEnds
  <2> QED  BY <2>1, <2>2
<1>3. BInv => BroadcastReachesRoom
  BY DEF BInv, StillOwed, ListIsDone, BroadcastReachesRoom
<1> QED  BY <1>1, <1>2, <1>3, PTL DEF ConnSpec

-----------------------------------------------------------------------------
(* A chunk of a job *)

-----------------------------------------------------------------------------
(* Trial division *)

LEMMA TimesGrow ==
  ASSUME NEW a \in Nat, NEW b \in Nat, NEW c \in Nat, NEW d \in Nat, a <= c, b <= d
  PROVE  a * b \in Nat /\ c * d \in Nat /\ a * b <= c * d
<1>1. PICK i \in Nat, j \in Nat : c = a + i /\ d = b + j
  <2>1. c - a \in Nat /\ c = a + (c - a) /\ d - b \in Nat /\ d = b + (d - b)
    OBVIOUS
  <2>2. QED BY <2>1
<1>2. /\ a * b \in Nat /\ a * j \in Nat /\ i * b \in Nat /\ i * j \in Nat /\ c * d \in Nat
  BY <1>1
<1>3. c * d = a * b + a * j + i * b + i * j
  BY <1>1
<1>4. QED BY <1>2, <1>3

\* Every number has a root.
LEMMA RootExists ==
  ASSUME NEW n \in Nat
  PROVE  \E r \in 0 .. n : r * r <= n /\ n < (r + 1) * (r + 1)
<1> DEFINE G == {m \in Nat : \E r \in 0 .. m : r * r <= m /\ m < (r + 1) * (r + 1)}
<1>1. 0 \in G
  OBVIOUS
<1>2. ASSUME NEW m \in Nat, m \in G PROVE m + 1 \in G
  <2>1. PICK r \in 0 .. m : r * r <= m /\ m < (r + 1) * (r + 1)
    BY <1>2
  <2>2. PICK next : next = r + 1
    OBVIOUS
  <2>3. next \in Nat /\ next \in 0 .. m + 1 /\ r \in Nat
    BY <2>2
  <2>4. CASE m + 1 < next * next
    <3>1. r \in 0 .. m + 1 /\ r * r <= m + 1
      <4>1. PICK q : q = r * r
        OBVIOUS
      <4>2. q \in Nat /\ q <= m
        BY <2>1, <2>3, <4>1
      <4>3. QED BY <4>1, <4>2
    <3>2. m + 1 < (r + 1) * (r + 1)
      BY <2>2, <2>4
    <3>3. QED BY <3>1, <3>2
  <2>5. CASE ~(m + 1 < next * next)
    <3>1. PICK q, more : q = next * next /\ more = (next + 1) * (next + 1)
      OBVIOUS
    <3>2. q \in Nat /\ more = q + 2 * next + 1
      BY <2>3, <3>1
    <3>3. m < q
      BY <2>1, <2>2, <3>1
    <3>4. q <= m + 1 /\ m + 1 < more
      BY <2>3, <2>5, <3>1, <3>2, <3>3
    <3>5. next * next <= m + 1 /\ m + 1 < (next + 1) * (next + 1)
      BY <3>1, <3>4
    <3>6. QED BY <2>3, <3>5
  <2>6. QED BY <2>4, <2>5
<1>3. HIDE DEF G
<1>4. Nat \subseteq G
  BY <1>1, <1>2, NumberInduction
<1>5. QED BY <1>4 DEF G

LEMMA RootFits ==
  ASSUME NEW n \in Nat
  PROVE  /\ Root(n) \in 0 .. n
         /\ Root(n) * Root(n) <= n
         /\ \A m \in Nat : m * m <= n => m <= Root(n)
<1>1. PICK r : r = Root(n)
  OBVIOUS
<1>2. r \in 0 .. n /\ r * r <= n /\ n < (r + 1) * (r + 1)
  BY <1>1, RootExists DEF Root
<1>3. ASSUME NEW m \in Nat, m * m <= n, ~(m <= r) PROVE FALSE
  <2>1. r \in Nat /\ r + 1 \in Nat /\ r + 1 <= m
    BY <1>2, <1>3
  <2>2. PICK p : p = r + 1
    OBVIOUS
  <2>3. p \in Nat /\ p <= m
    BY <2>1, <2>2
  <2>4. p * p <= m * m /\ p * p \in Nat /\ m * m \in Nat
    BY <2>3, TimesGrow
  <2>5. n < p * p
    BY <1>2, <2>2
  <2>6. QED BY <1>3, <2>4, <2>5
<1>4. QED BY <1>1, <1>2, <1>3

\* A divisor has a cofactor.
LEMMA Cofactor ==
  ASSUME NEW n \in Nat, NEW k \in Nat \ {0}, n % k = 0
  PROVE  \E q \in Nat : n = k * q
<1>1. PICK q : q = n \div k
  OBVIOUS
<1>2. q \in Int /\ n = k * q + (n % k)
  BY <1>1
<1>3. n = k * q
  BY <1>2
<1>4. q >= 0
  <2>1. ASSUME q < 0 PROVE FALSE
    <3>1. PICK p : p = -q
      OBVIOUS
    <3>2. p \in Nat /\ 1 <= p /\ 1 \in Nat /\ k \in Nat /\ 1 <= k
      BY <1>2, <2>1, <3>1
    <3>3. 1 * 1 <= k * p
      BY <3>2, TimesGrow
    <3>4. k * q = -(k * p)
      BY <1>2, <3>1
    <3>5. PICK z : z = k * p
      OBVIOUS
    <3>6. z \in Nat /\ z >= 1 /\ n = -z
      BY <1>3, <3>2, <3>3, <3>4, <3>5
    <3>7. QED BY <3>6
  <2>2. QED BY <1>2, <2>1
<1>5. q \in Nat
  BY <1>2, <1>4
<1>6. QED BY <1>3, <1>5

\* The factors of a product divide it.
LEMMA FactorDivides ==
  ASSUME NEW k \in Nat \ {0}, NEW q \in Nat
  PROVE  (k * q) % k = 0 /\ (q * k) % k = 0
<1>1. k * q = q * k /\ k * q \in Nat
  OBVIOUS
<1>2. PICK n : n = k * q
  OBVIOUS
<1>3. PICK d, m : d = n \div k /\ m = n % k
  OBVIOUS
<1>4. d \in Int /\ m \in Nat /\ m < k /\ n = k * d + m
  BY <1>1, <1>2, <1>3
<1>5. PICK e : e = q - d
  OBVIOUS
<1>6. e \in Int /\ q = d + e
  BY <1>4, <1>5
<1>7. k * q = k * d + k * e
  BY <1>4, <1>6
<1>8. m = k * e
  <2>1. PICK x, y, z : x = k * q /\ y = k * d /\ z = k * e
    OBVIOUS
  <2>2. x \in Int /\ y \in Int /\ z \in Int /\ x = y + z /\ x = y + m
    BY <1>2, <1>4, <1>6, <1>7, <2>1
  <2>3. QED BY <1>4, <2>1, <2>2
<1>9. e <= 0
  <2>1. ASSUME e > 0 PROVE FALSE
    <3>1. e \in Nat /\ 1 <= e /\ k <= k /\ 1 \in Nat
      BY <1>6, <2>1
    <3>2. k * 1 <= k * e
      BY <3>1, TimesGrow
    <3>3. QED BY <1>4, <1>8, <3>2
  <2>2. QED BY <1>6, <2>1
<1>10. e >= 0
  <2>1. ASSUME e < 0 PROVE FALSE
    <3>1. PICK f : f = -e
      OBVIOUS
    <3>2. f \in Nat /\ 1 <= f /\ k <= k /\ 1 \in Nat
      BY <1>6, <2>1, <3>1
    <3>3. k * 1 <= k * f
      BY <3>2, TimesGrow
    <3>4. k * e = -(k * f)
      BY <1>6, <3>1
    <3>5. PICK z : z = k * f
      OBVIOUS
    <3>6. z \in Int /\ z >= 1 /\ m = -z
      BY <1>8, <3>2, <3>3, <3>4, <3>5
    <3>7. QED BY <1>4, <3>6
  <2>2. QED BY <1>6, <2>1
<1>11. e = 0
  BY <1>6, <1>9, <1>10
<1>12. m = 0
  BY <1>8, <1>11
<1>13. QED BY <1>1, <1>2, <1>3, <1>12

LEMMA OddOrEven == ASSUME NEW n \in Nat PROVE n % 2 = 0 \/ n % 2 = 1
  OBVIOUS

\* Of two factors, one is at most the root; the other factor goes with it.
LEMMA SmallFactor ==
  ASSUME NEW n \in Nat, NEW k \in Nat, NEW q \in Nat, n = k * q, 2 <= k, 2 <= q
  PROVE  \E m \in Nat, o \in Nat : 2 <= m /\ n = m * o /\ m <= Root(n)
<1>1. CASE k <= q
  <2>1. k * k <= k * q
    BY <1>1, TimesGrow
  <2>2. k <= Root(n)
    BY <2>1, RootFits
  <2>3. QED BY <2>2
<1>2. CASE q <= k
  <2>1. q * q <= k * q
    BY <1>2, TimesGrow
  <2>2. q <= Root(n)
    BY <2>1, RootFits
  <2>3. n = q * k
    OBVIOUS
  <2>4. QED BY <2>2, <2>3
<1>3. QED BY <1>1, <1>2

\* is_prime tries the odd numbers up to the root, and that is enough.
LEMMA TrialDivision == ASSUME NEW n \in Nat PROVE IsPrime(n) <=> Prime(n)
<1>1. CASE n <= 1
  BY <1>1 DEF IsPrime, Prime
<1>2. CASE n = 2
  BY <1>2 DEF IsPrime, Prime
<1>3. CASE n > 2
  <2>1. ASSUME Prime(n) PROVE IsPrime(n)
    <3>1. \A k \in 2 .. n - 1 : n % k # 0
      BY <2>1 DEF Prime
    <3>2. n % 2 # 0
      BY <1>3, <3>1
    <3>3. ASSUME NEW i \in 3 .. Root(n) PROVE n % i # 0
      <4>1. PICK r \in Nat : r = Root(n) /\ r * r <= n
        BY RootFits
      <4>2. 3 \in Nat /\ 3 <= r /\ i \in Nat /\ i <= r /\ 3 <= i
        BY <3>3, <4>1
      <4>3. 3 * r <= r * r /\ r * r \in Nat
        BY <4>1, <4>2, TimesGrow
      <4>4. r <= n - 1
        BY <4>1, <4>2, <4>3
      <4>5. i \in 2 .. n - 1
        BY <4>2, <4>4
      <4>6. QED BY <3>1, <4>5
    <3>4. QED BY <1>3, <3>2, <3>3 DEF IsPrime
  <2>2. ASSUME IsPrime(n), NEW k \in 2 .. n - 1, n % k = 0 PROVE FALSE
    <3>1. n % 2 # 0 /\ \A i \in 3 .. Root(n) : i % 2 = 1 => n % i # 0
      BY <1>3, <2>2 DEF IsPrime
    <3>2. k \in Nat \ {0} /\ 2 <= k /\ k <= n - 1
      BY <2>2
    <3>3. PICK q \in Nat : n = k * q
      BY <2>2, <3>2, Cofactor
    <3>4. 2 <= q
      <4>1. q # 0 /\ q # 1
        BY <1>3, <3>2, <3>3
      <4>2. QED BY <4>1
    <3>5. PICK m \in Nat, o \in Nat : 2 <= m /\ n = m * o /\ m <= Root(n)
      BY <3>2, <3>3, <3>4, SmallFactor
    <3>6. m \in Nat \ {0} /\ (m * o) % m = 0
      BY <3>5, FactorDivides
    <3>7. n % m = 0
      BY <3>5, <3>6
    <3>8. CASE m % 2 = 0
      <4>1. 2 \in Nat \ {0}
        OBVIOUS
      <4>2. PICK h \in Nat : m = 2 * h
        BY <3>8, <4>1, Cofactor
      <4>3. PICK p \in Nat : p = h * o
        OBVIOUS
      <4>4. n = 2 * p
        BY <3>5, <4>2, <4>3
      <4>5. (2 * p) % 2 = 0
        BY <4>1, FactorDivides
      <4>6. QED BY <3>1, <4>4, <4>5
    <3>9. CASE m % 2 = 1
      <4>1. m # 2
        BY <3>9
      <4>2. m \in 3 .. Root(n)
        BY <3>5, <4>1, RootFits
      <4>3. QED BY <3>1, <3>7, <3>9, <4>2
    <3>10. QED BY <3>8, <3>9, OddOrEven
  <2>3. ASSUME IsPrime(n) PROVE Prime(n)
    BY <1>3, <2>2, <2>3 DEF Prime
  <2>4. QED BY <2>1, <2>3
<1>4. QED BY <1>1, <1>2, <1>3

-----------------------------------------------------------------------------
(* The inductive invariant *)

Kinds == {"plain", "short", "broken"}

Replies == Labels \cup {"text", "note", "error"}

ReplyRow == [of : Nat, answer : Replies]

Steps == {"none", "load", "loaded", "run", "result", "dead"}

ChunkRow ==
  [type : GpuTypes \cup ChunkTypes \cup {"none"}, items : Seq(Kinds), language : Languages \cup {"none"},
   bounds : Nat \X Nat, next : Nat, results : Seq(ReplyRow), count : Nat, step : Steps]

Primes(bounds) == {n \in bounds[1] .. bounds[2] - 1 : IsPrime(n)}

\* There is one reply for every item passed, in their order.
Followed(c) ==
  /\ c.next \in 1 .. Len(c.items) + 1
  /\ Len(c.results) = c.next - 1
  /\ \A i \in 1 .. Len(c.results) :
       /\ c.results[i].of = i
       /\ c.type = "sentiment_analysis" => c.results[i].answer \in Labels

\* Only a chunk of primes that is done has counted any.
Counted(c) ==
  /\ c.count = IF c.type = "prime_count" /\ c.step = "result" THEN Cardinality(Primes(c.bounds)) ELSE 0
  /\ c.type = "prime_count" => c.items = << >>
  /\ c.type # "prime_count" => c.bounds = <<0, 0>>

ChunkOK(c) ==
  /\ c \in ChunkRow
  /\ Followed(c) /\ Counted(c)
  /\ c.step = "result" => c.next = Len(c.items) + 1

WithoutTokenizer == {GetEmbeddingModel.key, GetZeroShotClassifier.key, GetStableDiffusion.key}

\* A model is only run, and only loaded after its tokenizer, when it is where it belongs.
CachesOK ==
  engine = "gpu" =>
    /\ models \subseteq tokenizers \cup WithoutTokenizer
    /\ chunk.step = "run" => Needed.key \in models
    /\ chunk.step = "loaded" => Needed.key \in tokenizers

ChunkInv ==
  /\ engine \in {"gpu", "cpu", "rules"}
  /\ tokenizers # {} => engine = "gpu"
  /\ served \in 0 .. MaxServed /\ faults \in 0 .. MaxFaults
  /\ ChunkOK(chunk)
  /\ chunk.step # "none" => chunk.type \in IF engine = "gpu" THEN GpuTypes ELSE ChunkTypes
  /\ chunk.step \in {"load", "loaded"} => engine = "gpu"
  /\ CachesOK

-----------------------------------------------------------------------------
(* Handlers *)

\* What a handler loads depends on the type and the language of the chunk only.
LEMMA LoaderSame ==
  ASSUME NEW c, NEW d, d.type = c.type, d.language = c.language, c.type \in GpuTypes
  PROVE  TaskHandler(d).loader = TaskHandler(c).loader
  BY DEF TaskHandler, GpuTypes, Handler, HandleSentimentAnalysis, HandleEmbeddings,
         HandleTextGeneration, HandleTranslation, HandleSummarization, HandleImageClassification,
         HandleZeroShotClassification, HandleImageGeneration, HandleTranscription

LEMMA LoadersWithoutTokenizer ==
  ASSUME NEW c, c.type \in GpuTypes, ~TaskHandler(c).loader.tokenizer
  PROVE  TaskHandler(c).loader.key \in WithoutTokenizer
  BY DEF TaskHandler, GpuTypes, Handler, HandleSentimentAnalysis, HandleEmbeddings,
         HandleTextGeneration, HandleTranslation, HandleSummarization, HandleImageClassification,
         HandleZeroShotClassification, HandleImageGeneration, HandleTranscription, Loader,
         GetSentimentModel, GetEmbeddingModel, GetLlmModel, GetTranslationModel,
         GetSummarizationModel, GetImageClassifier, GetZeroShotClassifier, GetStableDiffusion,
         GetWhisper, WithoutTokenizer

LEMMA BatchesAreSome ==
  ASSUME NEW c \in ChunkRow, c.type \in GpuTypes, Len(c.items) \in Nat \ {0}
  PROVE  TaskHandler(c).batch \in Nat \ {0}
  BY ExecutionAssumption
  DEF TaskHandler, GpuTypes, Handler, HandleSentimentAnalysis, HandleEmbeddings,
      HandleTextGeneration, HandleTranslation, HandleSummarization, HandleImageClassification,
      HandleZeroShotClassification, HandleImageGeneration, HandleTranscription

LEMMA SentimentIsScored ==
  ASSUME NEW c, c.type = "sentiment_analysis", NEW kind \in Kinds
  PROVE  TaskHandler(c).answers[kind] = Labels
  BY DEF TaskHandler, Handler, HandleSentimentAnalysis, Scored, Kinds

LEMMA NoChunkOK == ChunkOK(NoChunk) /\ NoChunk.step = "none"
<1>1. << >> \in Seq(Kinds) /\ << >> \in Seq(ReplyRow) /\ Len(<< >>) = 0
  BY EmptySeq
<1>2. NoChunk \in ChunkRow
  BY <1>1 DEF NoChunk, ChunkRow, Steps
<1>3. Followed(NoChunk) /\ Counted(NoChunk) /\ NoChunk.step = "none"
  BY <1>1 DEF NoChunk, Followed, Counted
<1>4. QED BY <1>2, <1>3 DEF ChunkOK

\* The items of a new chunk.
LEMMA WantedItems ==
  ASSUME NEW type, NEW items \in Seq(Kinds)
  PROVE  Wanted(type, items) \in Seq(Kinds)
<1>1. \A k \in Nat : SubSeq(items, 1, Fewer(Len(items), k)) \in Seq(Kinds)
  <2>1. SUFFICES ASSUME NEW k \in Nat PROVE SubSeq(items, 1, Fewer(Len(items), k)) \in Seq(Kinds)
    OBVIOUS
  <2>2. Len(items) \in Nat
    BY LenProperties
  <2>3. PICK n : n = Fewer(Len(items), k)
    OBVIOUS
  <2>4. n \in Nat /\ n <= Len(items)
    BY <2>2, <2>3 DEF Fewer
  <2>5. \A i \in 1 .. n : items[i] \in Kinds
    BY <2>2, <2>4, ElementOfSeq
  <2>6. SubSeq(items, 1, n) \in Seq(Kinds)
    BY <2>4, <2>5, SubSeqProperties
  <2>7. QED BY <2>3, <2>6
<1>2. SubSeq(items, 1, Fewer(Len(items), MaxImages)) \in Seq(Kinds)
  BY <1>1 DEF MaxImages
<1>3. SubSeq(items, 1, Fewer(Len(items), 1)) \in Seq(Kinds)
  BY <1>1
<1>4. QED BY <1>2, <1>3 DEF Wanted

-----------------------------------------------------------------------------
(* Replies *)

\* What Give makes of a chunk.
Given(c, answers) ==
  [c EXCEPT !.results = @ \o [i \in DOMAIN answers |-> [of |-> c.next + i - 1, answer |-> answers[i]]],
            !.next = @ + Len(answers)]

\* Replies to the next items keep the count and the order.
LEMMA GivenOK ==
  ASSUME NEW c, ChunkOK(c), c.step = "run", NEW answers \in Seq(Replies),
         Len(answers) <= Len(c.items) - c.next + 1,
         c.type = "sentiment_analysis" => \A i \in 1 .. Len(answers) : answers[i] \in Labels,
         NEW d, d = Given(c, answers)
  PROVE  /\ ChunkOK(d) /\ d.type = c.type /\ d.items = c.items /\ d.language = c.language
         /\ d.step = "run"
<1>1. PICK n, m : n = Len(answers) /\ m = Len(c.results)
  OBVIOUS
<1>2. /\ c \in ChunkRow /\ Followed(c) /\ Counted(c)
      /\ c.results \in Seq(ReplyRow) /\ c.items \in Seq(Kinds)
  BY DEF ChunkOK, ChunkRow
<1>3. /\ n \in Nat /\ m \in Nat /\ DOMAIN answers = 1 .. n /\ Len(c.items) \in Nat
      /\ \A i \in 1 .. n : answers[i] \in Replies
  BY <1>1, <1>2, LenProperties, ElementOfSeq
<1>4. c.next \in Nat /\ c.next = m + 1 /\ c.next + n <= Len(c.items) + 1
  BY <1>1, <1>2, <1>3 DEF Followed, ChunkRow
<1>5. PICK new : new = [i \in DOMAIN answers |-> [of |-> c.next + i - 1, answer |-> answers[i]]]
  OBVIOUS
<1>6. /\ new = [i \in 1 .. n |-> [of |-> c.next + i - 1, answer |-> answers[i]]]
      /\ \A i \in 1 .. n : new[i] \in ReplyRow /\ new[i].of = m + i /\ new[i].answer = answers[i]
  BY <1>3, <1>4, <1>5 DEF ReplyRow
<1>7. new \in Seq(ReplyRow) /\ Len(new) = n
  BY <1>3, <1>6
<1>8. PICK old, all : old = c.results /\ all = old \o new
  OBVIOUS
<1>9. /\ all \in Seq(ReplyRow) /\ Len(all) = m + n
      /\ \A i \in 1 .. m + n : all[i] = IF i <= m THEN c.results[i] ELSE new[i - m]
  <2>1. old \in Seq(ReplyRow) /\ Len(old) = m
    BY <1>1, <1>2, <1>8
  <2>2. /\ old \o new \in Seq(ReplyRow)
        /\ Len(old \o new) = Len(old) + Len(new)
        /\ \A i \in 1 .. Len(old) + Len(new) :
             (old \o new)[i] = IF i <= Len(old) THEN old[i] ELSE new[i - Len(old)]
    BY <1>7, <2>1, ConcatProperties
  <2>3. QED BY <1>7, <1>8, <2>1, <2>2
<1>10. /\ d.results = all /\ d.next = c.next + n
       /\ d.type = c.type /\ d.items = c.items /\ d.language = c.language /\ d.step = c.step
       /\ d.bounds = c.bounds /\ d.count = c.count /\ d \in ChunkRow
  <2>1. d = [c EXCEPT !.results = all, !.next = c.next + n]
    BY <1>1, <1>5, <1>8 DEF Given
  <2>2. c.next + n \in Nat
    BY <1>3, <1>4
  <2>3. QED BY <1>2, <1>9, <2>1, <2>2 DEF ChunkRow
<1>11. ASSUME NEW i \in 1 .. m + n
       PROVE  all[i].of = i /\ (c.type = "sentiment_analysis" => all[i].answer \in Labels)
  <2>1. CASE i <= m
    <3>1. i \in 1 .. Len(c.results) /\ all[i] = c.results[i]
      BY <1>1, <1>3, <1>9, <1>11, <2>1
    <3>2. QED BY <1>2, <3>1 DEF Followed
  <2>2. CASE ~(i <= m)
    <3>1. PICK j : j = i - m
      OBVIOUS
    <3>2. j \in 1 .. n /\ i = m + j /\ all[i] = new[j]
      BY <1>3, <1>9, <1>11, <2>2, <3>1
    <3>3. QED BY <1>1, <1>6, <3>2
  <2>3. QED BY <2>1, <2>2
<1>12. Followed(d)
  BY <1>3, <1>4, <1>9, <1>10, <1>11 DEF Followed
<1>13. Counted(d)
  BY <1>2, <1>10 DEF Counted
<1>14. QED BY <1>10, <1>12, <1>13 DEF ChunkOK

\* One item gets one answer.
LEMMA OneGiven ==
  ASSUME NEW c, ChunkOK(c), c.step = "run", NEW reply \in Replies, Len(c.items) - c.next + 1 > 0,
         c.type = "sentiment_analysis" => reply \in Labels,
         NEW d, d = Given(c, <<reply>>)
  PROVE  /\ ChunkOK(d) /\ d.type = c.type /\ d.items = c.items /\ d.language = c.language
         /\ d.step = "run"
<1>1. PICK answers : answers = <<reply>>
  OBVIOUS
<1>2. answers \in Seq(Replies) /\ Len(answers) = 1 /\ answers[1] = reply
  BY <1>1
<1>3. c.items \in Seq(Kinds) /\ c.next \in Nat
  BY DEF ChunkOK, ChunkRow
<1>4. Len(c.items) \in Nat
  BY <1>3, LenProperties
<1>5. Len(answers) <= Len(c.items) - c.next + 1
  BY <1>2, <1>3, <1>4
<1>6. \A i \in 1 .. Len(answers) : answers[i] = reply
  BY <1>2
<1>7. d = Given(c, answers)
  BY <1>1
<1>8. QED BY <1>2, <1>5, <1>6, <1>7, GivenOK

-----------------------------------------------------------------------------
(* The steps *)

\* A chunk that goes on to another step.
LEMMA MovedOK ==
  ASSUME NEW c, ChunkOK(c), c.step # "result", NEW step \in Steps,
         step = "result" => c.type # "prime_count" /\ c.next = Len(c.items) + 1,
         NEW d, d = [c EXCEPT !.step = step]
  PROVE  /\ ChunkOK(d) /\ d.type = c.type /\ d.items = c.items /\ d.language = c.language
         /\ d.step = step
<1>1. c \in ChunkRow
  BY DEF ChunkOK
<1>2. /\ d \in ChunkRow /\ d.type = c.type /\ d.items = c.items /\ d.language = c.language
      /\ d.step = step /\ d.next = c.next /\ d.results = c.results /\ d.bounds = c.bounds
      /\ d.count = c.count
  BY <1>1 DEF ChunkRow
<1>3. Followed(d)
  BY <1>2 DEF ChunkOK, Followed
<1>4. Counted(d)
  BY <1>2 DEF ChunkOK, Counted
<1>5. QED BY <1>2, <1>3, <1>4 DEF ChunkOK

LEMMA FaultsBounded ==
  ASSUME ChunkInv, UNCHANGED faults \/ Fault
  PROVE  faults' \in 0 .. MaxFaults
  BY ExecutionAssumption DEF ChunkInv, Fault

\* A step within a chunk.
LEMMA ChunkStep ==
  ASSUME ChunkInv, UNCHANGED <<engine, served>>, faults' \in 0 .. MaxFaults, chunk.step # "none",
         ChunkOK(chunk'), chunk'.type = chunk.type,
         chunk'.step = "loaded" => engine = "gpu",
         chunk'.step # "load",
         tokenizers' # {} => engine = "gpu",
         CachesOK'
  PROVE  ChunkInv'
  BY DEF ChunkInv

LEMMA ReceiveKeeps ==
  ASSUME ChunkInv, NEW type \in IF engine = "gpu" THEN GpuTypes ELSE ChunkTypes,
         NEW items \in Seq(Kinds), NEW language \in Languages \cup {"none"}, NEW bounds \in Nat \X Nat,
         type = "prime_count" => items = << >>, type # "prime_count" => bounds = <<0, 0>>,
         Receive(type, items, language, bounds)
  PROVE  ChunkInv'
<1>1. PICK wanted, step : wanted = Wanted(type, items) /\ step = IF engine = "gpu" THEN "load" ELSE "run"
  OBVIOUS
<1>2. wanted \in Seq(Kinds) /\ Len(wanted) \in Nat
  BY <1>1, WantedItems, LenProperties
<1>3. type = "prime_count" => wanted = << >>
  BY <1>1 DEF Wanted
<1>4. << >> \in Seq(ReplyRow) /\ Len(<< >>) = 0
  BY EmptySeq
<1>5. type \in GpuTypes \cup ChunkTypes
  OBVIOUS
<1>6. PICK c : c = [type |-> type, items |-> wanted, language |-> language, bounds |-> bounds,
                    next |-> 1, results |-> << >>, count |-> 0, step |-> step]
  OBVIOUS
<1>7. chunk' = c
  <2>1. PICK blank : blank = NoChunk
    OBVIOUS
  <2>2. chunk' = [blank EXCEPT !.type = type, !.items = wanted, !.language = language, !.bounds = bounds,
                               !.step = step]
    BY <1>1, <2>1 DEF Receive
  <2>3. blank = [type |-> "none", items |-> << >>, language |-> "none", bounds |-> <<0, 0>>,
                 next |-> 1, results |-> << >>, count |-> 0, step |-> "none"]
    BY <2>1 DEF NoChunk
  <2>4. /\ DOMAIN chunk' = DOMAIN blank
        /\ \A x \in DOMAIN blank : chunk'[x] =
             CASE x = "type" -> type [] x = "items" -> wanted [] x = "language" -> language
               [] x = "bounds" -> bounds [] x = "step" -> step [] OTHER -> blank[x]
    BY <2>2, <2>3
  <2>5. chunk' = [x \in DOMAIN blank |-> chunk'[x]]
    BY <2>2
  <2>6. DOMAIN c = DOMAIN blank /\ \A x \in DOMAIN blank : chunk'[x] = c[x]
    BY <1>6, <2>3, <2>4
  <2>7. c = [x \in DOMAIN c |-> c[x]]
    BY <1>6
  <2>8. QED BY <2>5, <2>6, <2>7
<1>8. c \in ChunkRow
  BY <1>1, <1>2, <1>4, <1>5, <1>6 DEF ChunkRow, Steps
<1>9. Followed(c)
  BY <1>2, <1>4, <1>6 DEF Followed
<1>10. Counted(c)
  BY <1>1, <1>3, <1>6 DEF Counted
<1>11. ChunkOK(c)
  BY <1>1, <1>6, <1>8, <1>9, <1>10 DEF ChunkOK
<1>12. /\ c.step = step /\ c.type = type
       /\ step = "load" <=> engine = "gpu"
       /\ step = "run" <=> engine # "gpu"
  BY <1>1, <1>6
<1>13. UNCHANGED <<engine, models, tokenizers, faults>> /\ served' \in 0 .. MaxServed
  BY ExecutionAssumption DEF Receive, ChunkInv
<1>14. CachesOK'
  BY <1>1, <1>7, <1>12, <1>13 DEF ChunkInv, CachesOK
<1>15. QED BY <1>1, <1>7, <1>11, <1>12, <1>13, <1>14 DEF ChunkInv

LEMMA UseCachedKeeps == ASSUME ChunkInv, UseCached PROVE ChunkInv'
<1>1. ChunkOK(chunk) /\ chunk.step = "load" /\ engine = "gpu" /\ chunk.type \in GpuTypes
  BY DEF ChunkInv, UseCached
<1>2. PICK c : c = [chunk EXCEPT !.step = "run"]
  OBVIOUS
<1>3. chunk' = c /\ UNCHANGED <<engine, models, tokenizers, served, faults>>
  BY <1>2 DEF UseCached, Goto
<1>4. "run" \in Steps
  BY DEF Steps
<1>5. ChunkOK(c) /\ c.type = chunk.type /\ c.language = chunk.language /\ c.step = "run"
  BY <1>1, <1>2, <1>4, MovedOK
<1>6. TaskHandler(c).loader = Needed
  BY <1>1, <1>5, LoaderSame DEF Needed
<1>7. CachesOK'
  BY <1>3, <1>5, <1>6 DEF ChunkInv, CachesOK, UseCached, Needed
<1>8. QED BY <1>1, <1>3, <1>5, <1>7, ChunkStep DEF ChunkInv

LEMMA LoadTokenizerKeeps == ASSUME ChunkInv, LoadTokenizer PROVE ChunkInv'
<1>1. ChunkOK(chunk) /\ chunk.step = "load" /\ engine = "gpu" /\ chunk.type \in GpuTypes
  BY DEF ChunkInv, LoadTokenizer
<1>2. PICK c : c = [chunk EXCEPT !.step = "loaded"]
  OBVIOUS
<1>3. chunk' = c /\ UNCHANGED <<engine, models, served, faults>>
      /\ tokenizers' = tokenizers \cup {Needed.key}
  BY <1>2 DEF LoadTokenizer, Goto
<1>4. "loaded" \in Steps
  BY DEF Steps
<1>5. ChunkOK(c) /\ c.type = chunk.type /\ c.language = chunk.language /\ c.step = "loaded"
  BY <1>1, <1>2, <1>4, MovedOK
<1>6. TaskHandler(c).loader = Needed
  BY <1>1, <1>5, LoaderSame DEF Needed
<1>7. CachesOK'
  BY <1>3, <1>5, <1>6 DEF ChunkInv, CachesOK, Needed
<1>8. QED BY <1>1, <1>3, <1>5, <1>7, ChunkStep DEF ChunkInv

LEMMA LoadModelKeeps == ASSUME ChunkInv, LoadModel PROVE ChunkInv'
<1>1. /\ ChunkOK(chunk) /\ chunk.step \in {"load", "loaded"} /\ engine = "gpu"
      /\ chunk.type \in GpuTypes
  BY DEF ChunkInv, LoadModel
<1>2. PICK c : c = [chunk EXCEPT !.step = "run"]
  OBVIOUS
<1>3. chunk' = c /\ UNCHANGED <<engine, tokenizers, served, faults>>
      /\ models' = models \cup {Needed.key}
  BY <1>2 DEF LoadModel, Goto
<1>4. "run" \in Steps /\ chunk.step # "result"
  BY <1>1 DEF Steps
<1>5. ChunkOK(c) /\ c.type = chunk.type /\ c.language = chunk.language /\ c.step = "run"
  BY <1>1, <1>2, <1>4, MovedOK
<1>6. TaskHandler(c).loader = Needed
  BY <1>1, <1>5, LoaderSame DEF Needed
<1>7. Needed.key \in tokenizers \cup WithoutTokenizer
  <2>1. CASE Needed.tokenizer
    BY <1>1, <2>1 DEF LoadModel, ChunkInv, CachesOK
  <2>2. CASE ~Needed.tokenizer
    BY <1>1, <2>2, LoadersWithoutTokenizer DEF Needed
  <2>3. QED BY <2>1, <2>2
<1>8. CachesOK'
  BY <1>1, <1>3, <1>5, <1>6, <1>7 DEF ChunkInv, CachesOK, Needed
<1>9. QED BY <1>1, <1>3, <1>5, <1>8, ChunkStep DEF ChunkInv

\* Loading or running fails: the chunk becomes a dead letter, the caches stay.
LEMMA DeadKeeps ==
  ASSUME ChunkInv, chunk.step \notin {"none", "result"}, Goto("dead"),
         UNCHANGED faults \/ Fault, UNCHANGED <<engine, models, tokenizers, served>>
  PROVE  ChunkInv'
<1>1. ChunkOK(chunk)
  BY DEF ChunkInv
<1>2. PICK c : c = [chunk EXCEPT !.step = "dead"]
  OBVIOUS
<1>3. chunk' = c
  BY <1>2 DEF Goto
<1>4. "dead" \in Steps
  BY DEF Steps
<1>5. ChunkOK(c) /\ c.type = chunk.type /\ c.step = "dead"
  BY <1>1, <1>2, <1>4, MovedOK
<1>6. CachesOK'
  BY <1>3, <1>5 DEF ChunkInv, CachesOK
<1>7. QED BY <1>3, <1>5, <1>6, FaultsBounded, ChunkStep DEF ChunkInv

\* Replies are given: the caches stay.
LEMMA RepliesKeep ==
  ASSUME ChunkInv, chunk.step = "run", NEW answers \in Seq(Replies), Give(answers),
         Len(answers) <= ItemsLeft,
         chunk.type = "sentiment_analysis" => \A i \in 1 .. Len(answers) : answers[i] \in Labels,
         UNCHANGED faults \/ Fault, UNCHANGED <<engine, models, tokenizers, served>>
  PROVE  ChunkInv'
<1>1. ChunkOK(chunk)
  BY DEF ChunkInv
<1>2. PICK c, d : c = chunk /\ d = Given(c, answers)
  OBVIOUS
<1>3. chunk' = d
  BY <1>2 DEF Give, Given
<1>4. ChunkOK(d) /\ d.type = c.type /\ d.language = c.language /\ d.step = "run"
  <2>1. Len(answers) <= Len(c.items) - c.next + 1
    BY <1>2 DEF ItemsLeft
  <2>2. QED BY <1>1, <1>2, <2>1, GivenOK
<1>5. CachesOK'
  <2>1. CASE engine = "gpu"
    <3>1. c.type \in GpuTypes
      BY <1>2, <2>1 DEF ChunkInv
    <3>2. TaskHandler(d).loader = TaskHandler(c).loader
      BY <1>4, <3>1, LoaderSame
    <3>3. QED BY <1>2, <1>3, <1>4, <3>2 DEF ChunkInv, CachesOK, Needed
  <2>2. CASE engine # "gpu"
    BY <2>2 DEF CachesOK
  <2>3. QED BY <2>1, <2>2
<1>6. QED BY <1>2, <1>3, <1>4, <1>5, FaultsBounded, ChunkStep DEF ChunkInv

LEMMA OneReplyKeeps ==
  ASSUME ChunkInv, chunk.step = "run", ItemsLeft > 0, NEW reply \in Replies, Give(<<reply>>),
         chunk.type = "sentiment_analysis" => reply \in Labels,
         UNCHANGED faults \/ Fault, UNCHANGED <<engine, models, tokenizers, served>>
  PROVE  ChunkInv'
<1>1. PICK answers : answers = <<reply>>
  OBVIOUS
<1>2. answers \in Seq(Replies) /\ Len(answers) = 1 /\ answers[1] = reply
  BY <1>1
<1>3. chunk.items \in Seq(Kinds) /\ chunk.next \in Nat
  BY DEF ChunkInv, ChunkOK, ChunkRow
<1>4. Len(chunk.items) \in Nat
  BY <1>3, LenProperties
<1>5. Len(answers) <= ItemsLeft
  BY <1>2, <1>3, <1>4 DEF ItemsLeft
<1>6. \A i \in 1 .. Len(answers) : answers[i] = reply
  BY <1>2
<1>7. Give(answers)
  BY <1>1
<1>8. QED BY <1>2, <1>5, <1>6, <1>7, RepliesKeep

LEMMA RunBatchKeeps == ASSUME ChunkInv, RunBatch PROVE ChunkInv'
<1>1. /\ ChunkOK(chunk) /\ chunk.step = "run" /\ engine = "gpu" /\ ItemsLeft > 0
      /\ chunk.type \in GpuTypes
  BY DEF ChunkInv, RunBatch, Running
<1>2. PICK answers \in [DOMAIN Batch -> Labels \cup {"text", "note"}] :
        /\ \A i \in DOMAIN Batch : answers[i] \in TaskHandler(chunk).answers[Batch[i]]
        /\ Give(answers)
  BY DEF RunBatch
<1>3. PICK items, next, size, batch : /\ items = chunk.items /\ next = chunk.next
                                      /\ size = Fewer(TaskHandler(chunk).batch, ItemsLeft)
                                      /\ batch = Batch
  OBVIOUS
<1>4. chunk \in ChunkRow /\ items \in Seq(Kinds) /\ next \in Nat \ {0} /\ Len(items) \in Nat
  BY <1>1, <1>3, LenProperties DEF ChunkOK, ChunkRow, Followed
<1>5. ItemsLeft = Len(items) - next + 1
  BY <1>3 DEF ItemsLeft
<1>6. TaskHandler(chunk).batch \in Nat \ {0}
  BY <1>1, <1>3, <1>4, <1>5, BatchesAreSome
<1>7. size \in Nat \ {0} /\ size <= ItemsLeft /\ next + size - 1 <= Len(items)
  BY <1>1, <1>3, <1>4, <1>5, <1>6 DEF Fewer
<1>8. batch \in Seq(Kinds) /\ Len(batch) = size
  <2>1. PICK last : last = next + size - 1
    OBVIOUS
  <2>2. last \in Int /\ next <= last /\ last - next + 1 = size
    BY <1>4, <1>7, <2>1
  <2>3. \A i \in next .. last : items[i] \in Kinds
    BY <1>4, <1>7, <2>1, ElementOfSeq
  <2>4. batch = SubSeq(items, next, last)
    BY <1>3, <2>1 DEF Batch
  <2>5. SubSeq(items, next, last) \in Seq(Kinds) /\ Len(SubSeq(items, next, last)) = size
    BY <1>4, <2>2, <2>3, SubSeqProperties
  <2>6. QED BY <2>4, <2>5
<1>9. DOMAIN batch = 1 .. size /\ \A i \in 1 .. size : batch[i] \in Kinds
  BY <1>8, LenProperties, ElementOfSeq
<1>10. answers \in [1 .. size -> Replies]
  BY <1>2, <1>3, <1>9 DEF Replies
<1>11. answers \in Seq(Replies) /\ Len(answers) = size
  BY <1>7, <1>10
<1>12. ASSUME chunk.type = "sentiment_analysis", NEW i \in 1 .. size PROVE answers[i] \in Labels
  <2>1. answers[i] \in TaskHandler(chunk).answers[batch[i]]
    BY <1>2, <1>3, <1>9, <1>12
  <2>2. QED BY <1>9, <1>12, <2>1, SentimentIsScored
<1>13. UNCHANGED <<engine, models, tokenizers, served, faults>>
  BY DEF RunBatch
<1>14. Len(answers) <= ItemsLeft
  BY <1>7, <1>11
<1>15. QED BY <1>1, <1>2, <1>11, <1>12, <1>13, <1>14, RepliesKeep

LEMMA EndItemsKeeps == ASSUME ChunkInv, EndItems PROVE ChunkInv'
<1>1. ChunkOK(chunk) /\ chunk.step = "run" /\ chunk.type # "prime_count" /\ ItemsLeft = 0
  BY DEF ChunkInv, EndItems
<1>2. PICK c : c = [chunk EXCEPT !.step = "result"]
  OBVIOUS
<1>3. chunk' = c /\ UNCHANGED <<engine, models, tokenizers, served, faults>>
  BY <1>2 DEF EndItems, Goto
<1>4. chunk.items \in Seq(Kinds) /\ chunk.next \in Nat
  BY <1>1 DEF ChunkOK, ChunkRow
<1>5. chunk.next = Len(chunk.items) + 1
  BY <1>1, <1>4, LenProperties DEF ItemsLeft
<1>6. "result" \in Steps
  BY DEF Steps
<1>7. ChunkOK(c) /\ c.type = chunk.type /\ c.step = "result"
  BY <1>1, <1>2, <1>5, <1>6, MovedOK
<1>8. CachesOK'
  BY <1>3, <1>7 DEF ChunkInv, CachesOK
<1>9. QED BY <1>1, <1>3, <1>7, <1>8, ChunkStep DEF ChunkInv

LEMMA PrimesAreFinite ==
  ASSUME NEW bounds \in Nat \X Nat
  PROVE  Cardinality(Primes(bounds)) \in Nat
<1>1. PICK a, b : a = bounds[1] /\ b = bounds[2] - 1
  OBVIOUS
<1>2. a \in Int /\ b \in Int
  BY <1>1
<1>3. IsFiniteSet(a .. b)
  BY <1>2, FS_Interval
<1>4. Primes(bounds) \subseteq a .. b
  BY <1>1 DEF Primes
<1>5. QED BY <1>3, <1>4, FS_Subset, FS_CardinalityType

LEMMA PrimeCountKeeps == ASSUME ChunkInv, PrimeCount PROVE ChunkInv'
<1>1. /\ ChunkOK(chunk) /\ chunk.step = "run" /\ engine # "gpu" /\ chunk.type = "prime_count"
  BY DEF ChunkInv, PrimeCount, Running, CpuKinds
<1>2. PICK total : total = Cardinality(Primes(chunk.bounds))
  OBVIOUS
<1>3. PICK c : c = [chunk EXCEPT !.step = "result", !.count = total]
  OBVIOUS
<1>4. chunk' = c /\ UNCHANGED <<engine, models, tokenizers, served, faults>>
  BY <1>2, <1>3 DEF PrimeCount, Primes
<1>5. chunk \in ChunkRow /\ chunk.bounds \in Nat \X Nat
  BY <1>1 DEF ChunkOK, ChunkRow
<1>6. total \in Nat
  BY <1>2, <1>5, PrimesAreFinite
<1>7. /\ c \in ChunkRow /\ c.type = chunk.type /\ c.items = chunk.items /\ c.bounds = chunk.bounds
      /\ c.next = chunk.next /\ c.results = chunk.results /\ c.step = "result" /\ c.count = total
  BY <1>3, <1>5, <1>6 DEF ChunkRow, Steps
<1>8. Followed(c)
  BY <1>1, <1>7 DEF ChunkOK, Followed
<1>9. Counted(c)
  BY <1>1, <1>2, <1>7 DEF ChunkOK, Counted
<1>10. c.next = Len(c.items) + 1
  <2>1. c.items = << >>
    BY <1>1, <1>7, <1>9 DEF Counted
  <2>2. Len(c.items) = 0
    BY <2>1, EmptySeq
  <2>3. QED BY <1>8, <2>2 DEF Followed
<1>11. ChunkOK(c)
  BY <1>7, <1>8, <1>9, <1>10 DEF ChunkOK
<1>12. CachesOK'
  BY <1>1, <1>4 DEF CachesOK
<1>13. QED BY <1>1, <1>4, <1>7, <1>11, <1>12, ChunkStep DEF ChunkInv

LEMMA GetModelKeeps == ASSUME ChunkInv, GetModel PROVE ChunkInv'
<1>1. UNCHANGED <<engine, tokenizers, chunk, served, faults>> /\ engine # "gpu"
  BY DEF GetModel, Running, CpuKinds
<1>2. CachesOK'
  BY <1>1 DEF CachesOK
<1>3. QED BY <1>1, <1>2 DEF ChunkInv

\* A pipeline of the CPU worker, or the answer for an image that raises, gives one reply.
LEMMA OneItemKeeps ==
  ASSUME ChunkInv, RunPipeline \/ ImageFails PROVE ChunkInv'
<1>1. chunk.step = "run" /\ ItemsLeft > 0 /\ UNCHANGED <<engine, models, tokenizers, served>>
  BY DEF RunPipeline, ImageFails, Running
<1>2. PICK reply \in Replies : /\ Give(<<reply>>)
                               /\ chunk.type = "sentiment_analysis" => reply \in Labels
  <2>1. CASE ImageFails
    BY <2>1 DEF ImageFails, Replies
  <2>2. CASE RunPipeline
    BY <2>2 DEF RunPipeline, ByRules, Unsupported, AnalyzeSentimentSimple, AnalyzeSentimentAi,
                TranslateText, SummarizeText, ClassifyImage, GenerateText, AnswerQuestion, Replies
  <2>3. QED BY <2>1, <2>2
<1>3. UNCHANGED faults \/ Fault
  BY DEF RunPipeline, ImageFails
<1>4. QED BY <1>1, <1>2, <1>3, OneReplyKeeps

LEMMA PipelineFailsKeeps == ASSUME ChunkInv, PipelineFails PROVE ChunkInv'
<1>1. /\ chunk.step = "run" /\ ItemsLeft > 0 /\ UNCHANGED <<engine, models, tokenizers, served>>
      /\ Fault
  BY DEF PipelineFails, Running
<1>2. CASE chunk.type = "sentiment_analysis"
  <2>1. PICK reply \in Labels : Give(<<reply>>)
    BY <1>2 DEF PipelineFails, AnalyzeSentimentSimple
  <2>2. reply \in Replies
    BY DEF Replies
  <2>3. QED BY <1>1, <2>1, <2>2, OneReplyKeeps
<1>3. CASE chunk.type # "sentiment_analysis"
  <2>1. Goto("dead")
    BY <1>3 DEF PipelineFails
  <2>2. QED BY <1>1, <2>1, DeadKeeps
<1>4. QED BY <1>2, <1>3

LEMMA LoadFailsKeeps == ASSUME ChunkInv, LoadFails PROVE ChunkInv'
  BY DeadKeeps DEF LoadFails, Fault

LEMMA RunFailsKeeps == ASSUME ChunkInv, RunFails PROVE ChunkInv'
  BY DeadKeeps DEF RunFails, Running

-----------------------------------------------------------------------------
(* Every step keeps the invariant *)

LEMMA ExecutionStarts == ASSUME ExecutionInit PROVE ChunkInv
<1>1. ChunkOK(chunk) /\ chunk.step = "none"
  BY NoChunkOK DEF ExecutionInit
<1>2. CachesOK
  BY <1>1 DEF ExecutionInit, CachesOK
<1>3. QED BY <1>1, <1>2, ExecutionAssumption DEF ExecutionInit, ChunkInv

LEMMA ReceivesKeep ==
  ASSUME ChunkInv, NEW items \in Payloads,
         \/ \E type \in (IF engine = "gpu" THEN GpuTypes ELSE ChunkTypes) \ {"translation", "prime_count"} :
              Receive(type, items, "none", <<0, 0>>)
         \/ \E language \in Languages : Receive("translation", items, language, <<0, 0>>)
  PROVE  ChunkInv'
<1>1. items \in Seq(Kinds) /\ <<0, 0>> \in Nat \X Nat
  BY ExecutionAssumption DEF Kinds
<1>2. "translation" \in IF engine = "gpu" THEN GpuTypes ELSE ChunkTypes
  BY DEF GpuTypes, ChunkTypes
<1>3. ASSUME NEW type \in (IF engine = "gpu" THEN GpuTypes ELSE ChunkTypes) \ {"prime_count"},
             NEW language \in Languages \cup {"none"}, Receive(type, items, language, <<0, 0>>)
      PROVE  ChunkInv'
  BY <1>1, <1>3, ReceiveKeeps
<1>4. QED BY <1>2, <1>3

LEMMA PrimesReceived ==
  ASSUME ChunkInv, NEW bounds \in Ranges, engine # "gpu", Receive("prime_count", << >>, "none", bounds)
  PROVE  ChunkInv'
<1>1. << >> \in Seq(Kinds) /\ bounds \in Nat \X Nat
  BY ExecutionAssumption, EmptySeq
<1>2. "prime_count" \in IF engine = "gpu" THEN GpuTypes ELSE ChunkTypes
  BY DEF ChunkTypes
<1>3. QED BY <1>1, <1>2, ReceiveKeeps

LEMMA ExecutionStep == ASSUME ChunkInv, ExecutionNext PROVE ChunkInv'
<1>1. CASE \E items \in Payloads :
             \/ \E type \in (IF engine = "gpu" THEN GpuTypes ELSE ChunkTypes) \ {"translation", "prime_count"} :
                  Receive(type, items, "none", <<0, 0>>)
             \/ \E language \in Languages : Receive("translation", items, language, <<0, 0>>)
  BY <1>1, ReceivesKeep
<1>2. CASE \E bounds \in Ranges : engine # "gpu" /\ Receive("prime_count", << >>, "none", bounds)
  BY <1>2, PrimesReceived
<1>3. CASE UseCached \/ LoadTokenizer \/ LoadModel \/ LoadFails
  BY <1>3, UseCachedKeeps, LoadTokenizerKeeps, LoadModelKeeps, LoadFailsKeeps
<1>4. CASE RunBatch \/ RunFails \/ EndItems
  BY <1>4, RunBatchKeeps, RunFailsKeeps, EndItemsKeeps
<1>5. CASE GetModel \/ RunPipeline \/ ImageFails
  BY <1>5, GetModelKeeps, OneItemKeeps
<1>6. CASE PipelineFails \/ PrimeCount
  BY <1>6, PipelineFailsKeeps, PrimeCountKeeps
<1>7. QED BY <1>1, <1>2, <1>3, <1>4, <1>5, <1>6 DEF ExecutionNext

LEMMA ExecutionKept == ASSUME ChunkInv, [ExecutionNext]_executionVars PROVE ChunkInv'
<1>1. CASE ExecutionNext
  BY <1>1, ExecutionStep
<1>2. CASE UNCHANGED executionVars
  <2>1. UNCHANGED <<engine, models, tokenizers, chunk, served, faults>>
    BY <1>2 DEF executionVars
  <2>2. CachesOK'
    BY <2>1 DEF ChunkInv, CachesOK, Needed
  <2>3. QED BY <2>1, <2>2 DEF ChunkInv
<1>3. QED BY <1>1, <1>2

-----------------------------------------------------------------------------
(* What the invariant says of a result *)

\* The three labels split the replies of a sentiment chunk.
LEMMA LabelsAddUp ==
  ASSUME ChunkOK(chunk), chunk.type = "sentiment_analysis"
  PROVE  Tally("positive") + Tally("negative") + Tally("neutral") = Len(chunk.results)
<1> DEFINE Of(label) == {i \in DOMAIN chunk.results : chunk.results[i].answer = label}
<1>1. PICK n, all : n = Len(chunk.results) /\ all = DOMAIN chunk.results
  OBVIOUS
<1>2. n \in Nat /\ all = 1 .. n
  BY <1>1, LenProperties DEF ChunkOK, ChunkRow
<1>3. \A i \in all : chunk.results[i].answer \in Labels
  BY <1>1, <1>2 DEF ChunkOK, Followed
<1>4. IsFiniteSet(all) /\ Cardinality(all) = n
  BY <1>2, FS_Interval
<1>5. PICK p, g, u : p = Of("positive") /\ g = Of("negative") /\ u = Of("neutral")
  OBVIOUS
<1>6. p \in SUBSET all /\ g \in SUBSET all /\ u \in SUBSET all
  BY <1>1, <1>5
<1>7. IsFiniteSet(p) /\ IsFiniteSet(g) /\ IsFiniteSet(u)
  BY <1>4, <1>6, FS_Subset
<1>8. PICK pg : pg = p \cup g
  OBVIOUS
<1>9. /\ p \cap g = {} /\ pg \cap u = {} /\ pg \cup u = all
  BY <1>1, <1>3, <1>5, <1>6, <1>8 DEF Labels
<1>10. /\ Cardinality(p) \in Nat /\ Cardinality(g) \in Nat /\ Cardinality(u) \in Nat
       /\ Cardinality({}) = 0
  BY <1>7, FS_CardinalityType, FS_EmptySet
<1>11. Cardinality(all) = Cardinality(p) + Cardinality(g) + Cardinality(u)
  <2>1. IsFiniteSet(pg) /\ Cardinality(pg) = Cardinality(p) + Cardinality(g) - Cardinality(p \cap g)
    BY <1>7, <1>8, FS_Union
  <2>2. Cardinality(pg \cup u) = Cardinality(pg) + Cardinality(u) - Cardinality(pg \cap u)
    BY <1>7, <2>1, FS_Union
  <2>3. Cardinality(p \cap g) = 0 /\ Cardinality(pg \cap u) = 0 /\ Cardinality(pg \cup u) = Cardinality(all)
    BY ONLY <1>9, <1>10, Zenon
  <2>4. QED BY <1>10, <2>1, <2>2, <2>3
<1>12. /\ Tally("positive") = Cardinality(p) /\ Tally("negative") = Cardinality(g)
       /\ Tally("neutral") = Cardinality(u)
  BY <1>5 DEF Tally
<1>13. QED BY <1>1, <1>4, <1>10, <1>11, <1>12

\* is_prime finds the primes of every range.
LEMMA PrimesAreThePrimes ==
  ASSUME NEW bounds \in Nat \X Nat
  PROVE  Primes(bounds) = {n \in bounds[1] .. bounds[2] - 1 : Prime(n)}
<1>1. bounds[1] \in Nat /\ bounds[2] \in Nat
  OBVIOUS
<1>2. \A n \in bounds[1] .. bounds[2] - 1 : n \in Nat
  BY <1>1
<1>3. \A n \in bounds[1] .. bounds[2] - 1 : IsPrime(n) <=> Prime(n)
  BY <1>2, TrialDivision
<1>4. QED BY <1>3 DEF Primes

LEMMA ResultsFollow == ASSUME ChunkInv PROVE ResultsFollowItems
<1>1. SUFFICES ASSUME chunk.step = "result" PROVE ResultsFollowItems
  BY DEF ResultsFollowItems
<1>2. /\ ChunkOK(chunk) /\ chunk \in ChunkRow /\ Followed(chunk) /\ Counted(chunk)
      /\ chunk.next = Len(chunk.items) + 1
  BY <1>1 DEF ChunkInv, ChunkOK
<1>3. Len(chunk.items) \in Nat /\ DOMAIN chunk.results = 1 .. Len(chunk.results)
  BY <1>2, LenProperties DEF ChunkRow
<1>4. Len(chunk.results) = Len(chunk.items)
  BY <1>2, <1>3 DEF Followed
<1>5. \A i \in DOMAIN chunk.results : chunk.results[i].of = i
  BY <1>2, <1>3 DEF Followed
<1>6. chunk.type = "sentiment_analysis" =>
        Tally("positive") + Tally("negative") + Tally("neutral") = Len(chunk.items)
  BY <1>2, <1>4, LabelsAddUp
<1>7. chunk.count = Cardinality(Primes(chunk.bounds))
  <2>1. CASE chunk.type = "prime_count"
    BY <1>1, <1>2, <2>1 DEF Counted
  <2>2. CASE chunk.type # "prime_count"
    <3>1. chunk.count = 0 /\ chunk.bounds = <<0, 0>>
      BY <1>2, <2>2 DEF Counted
    <3>2. Primes(chunk.bounds) = {}
      BY <3>1 DEF Primes
    <3>3. QED BY <3>1, <3>2, FS_EmptySet
  <2>3. QED BY <2>1, <2>2
<1>8. Primes(chunk.bounds) = {n \in chunk.bounds[1] .. chunk.bounds[2] - 1 : Prime(n)}
  BY <1>2, PrimesAreThePrimes DEF ChunkRow
<1>9. QED BY <1>4, <1>5, <1>6, <1>7, <1>8 DEF ResultsFollowItems

LEMMA ExecutionHolds == ASSUME ChunkInv PROVE ExecutionInv
<1>1. ExecutionTypeOK
  BY DEF ChunkInv, ExecutionTypeOK, ChunkOK, Followed, ChunkRow, Steps
<1>2. ModelNeedsTokenizer
  BY DEF ChunkInv, CachesOK, ModelNeedsTokenizer, WithoutTokenizer
<1>3. QED BY <1>1, <1>2 DEF ExecutionInv

\* Whatever raises while a chunk is served, by the GPU worker or the CPU worker: the chunk in
\* hand stays well formed, and a GPU worker runs no model it has not loaded and caches none
\* before its tokenizer.
THEOREM ModelsAreReady == ExecutionSpec => []ExecutionInv
<1>1. ExecutionInit => ChunkInv
  BY ExecutionStarts
<1>2. ChunkInv /\ [ExecutionNext]_executionVars => ChunkInv'
  BY ExecutionKept
<1>3. ChunkInv => ExecutionInv
  BY ExecutionHolds
<1>4. QED BY <1>1, <1>2, <1>3, PTL DEF ExecutionSpec

\* Every result a worker sends has one answer for each item, in their order; the labels of a
\* sentiment chunk add up to its texts; and what is counted of a range are its primes.
THEOREM EveryItemIsAnswered == ExecutionSpec => []ResultsFollowItems
<1>1. ExecutionInit => ChunkInv
  BY ExecutionStarts
<1>2. ChunkInv /\ [ExecutionNext]_executionVars => ChunkInv'
  BY ExecutionKept
<1>3. ChunkInv => ResultsFollowItems
  BY ResultsFollow
<1>4. QED BY <1>1, <1>2, <1>3, PTL DEF ExecutionSpec

=============================================================================
