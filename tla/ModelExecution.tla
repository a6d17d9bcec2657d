--------------------------- MODULE ModelExecution ---------------------------
(***************************************************************************)
(* What one worker of the job API does with a chunk between taking it from *)
(* its topic and sending a result or a dead letter (JobPipeline has the    *)
(* rest): it loads the model when it is not cached yet, and works through  *)
(* the items, some in batches, some one by one.  The GPU worker            *)
(* (services/gpu_worker/worker.py) loads a tokenizer and then a model, and *)
(* does so before the first item; the CPU worker                           *)
(* (services/cpu_worker/worker.py) loads a pipeline at the first item that *)
(* needs it, and scores sentiment by rules when that fails.                *)
(*                                                                         *)
(* Abstractions.  An item is plain, short (a text of less than 100         *)
(* characters) or broken (an image or recording that cannot be fetched).   *)
(* A result is the position of its item and what kind of answer it is;     *)
(* scores are left out.  The libraries are external: loading a model, or   *)
(* running it, succeeds or raises, and its answer is any.                  *)
(***************************************************************************)
EXTENDS Integers, Sequences, FiniteSets

CONSTANTS
  Payloads,       \* bound: sequences of items a chunk may have
  Ranges,         \* bound: start and end of prime_count chunks
  Languages,      \* target languages; "xx" has no model
  BatchSize,      \* BATCH_SIZE of the GPU worker
  MaxServed,      \* bound: chunks
  MaxFaults       \* bound: exceptions the libraries raise

ASSUME ExecutionAssumption ==
  /\ Payloads \subseteq Seq({"plain", "short", "broken"})
  /\ Ranges \subseteq Nat \X Nat
  /\ BatchSize \in Nat \ {0}
  /\ MaxServed \in Nat /\ MaxFaults \in Nat

VARIABLES
  engine,         \* "gpu", "cpu" or, for a CPU worker without USE_AI_MODELS, "rules"
  models,         \* keys of _models
  tokenizers,     \* keys of _tokenizers
  chunk,          \* the chunk in hand: its items, the next one, and the results so far
  served,         \* chunks so far (bound)
  faults          \* exceptions so far (bound)

executionVars == <<engine, models, tokenizers, chunk, served, faults>>

MaxImages == 4

Fewer(a, b) == IF a <= b THEN a ELSE b

-----------------------------------------------------------------------------
(* The loaders of the GPU worker *)

Loader(key, tokenizer) == [key |-> key, tokenizer |-> tokenizer]

GetSentimentModel == Loader(<<"sentiment">>, TRUE)
GetEmbeddingModel == Loader(<<"embedding">>, FALSE)
GetLlmModel == Loader(<<"llm">>, TRUE)
GetTranslationModel(language) == Loader(<<"translation", language>>, TRUE)
GetSummarizationModel == Loader(<<"summarization">>, TRUE)
GetImageClassifier == Loader(<<"image_classifier">>, TRUE)
GetZeroShotClassifier == Loader(<<"zero_shot">>, FALSE)
GetStableDiffusion == Loader(<<"sd">>, FALSE)
GetWhisper == Loader(<<"whisper">>, TRUE)

-----------------------------------------------------------------------------
(* The handlers: what they load, how many items they give the model at once, the answers an   *)
(* item may get, and whether an exception costs the chunk or is the answer of the item.       *)

Labels == {"positive", "negative", "neutral"}

Handler(loader, batch, answers, caught) ==
  [loader |-> loader, batch |-> batch, answers |-> answers, caught |-> caught]

Texts == [plain |-> {"text"}, short |-> {"text"}, broken |-> {"text"}]

\* A broken item has no answer: reading it raises.
Fetched == [plain |-> {"text"}, short |-> {"text"}, broken |-> {}]

\* "Text too short"
Summaries == [plain |-> {"text"}, short |-> {"note"}, broken |-> {"text"}]

Scored == [plain |-> Labels, short |-> Labels, broken |-> Labels]

HandleSentimentAnalysis == Handler(GetSentimentModel, BatchSize, Scored, FALSE)
\* model.encode takes all texts.
HandleEmbeddings(items) == Handler(GetEmbeddingModel, Len(items), Texts, FALSE)
HandleTextGeneration == Handler(GetLlmModel, 1, Texts, FALSE)
HandleTranslation(language) == Handler(GetTranslationModel(language), BatchSize, Texts, FALSE)
HandleSummarization == Handler(GetSummarizationModel, 1, Summaries, FALSE)
\* The exception of an image is the answer for that image.
HandleImageClassification == Handler(GetImageClassifier, 1, Fetched, TRUE)
HandleZeroShotClassification == Handler(GetZeroShotClassifier, 1, Texts, FALSE)
\* One picture after the other, each with the next seed.
HandleImageGeneration == Handler(GetStableDiffusion, 1, Texts, FALSE)
HandleTranscription == Handler(GetWhisper, 1, Fetched, FALSE)

GpuTypes ==
  {"sentiment_analysis", "embeddings", "text_generation", "translation", "summarization",
   "image_classification", "zero_shot_classification", "image_generation", "transcription"}

TaskHandler(c) ==
  CASE c.type = "sentiment_analysis" -> HandleSentimentAnalysis
    [] c.type = "embeddings" -> HandleEmbeddings(c.items)
    [] c.type = "text_generation" -> HandleTextGeneration
    [] c.type = "translation" -> HandleTranslation(c.language)
    [] c.type = "summarization" -> HandleSummarization
    [] c.type = "image_classification" -> HandleImageClassification
    [] c.type = "zero_shot_classification" -> HandleZeroShotClassification
    [] c.type = "image_generation" -> HandleImageGeneration
    [] c.type = "transcription" -> HandleTranscription

\* The items a handler goes through: at most four pictures, the one recording.
Wanted(type, items) ==
  CASE type = "image_generation" -> SubSeq(items, 1, Fewer(Len(items), MaxImages))
    [] type = "transcription" -> SubSeq(items, 1, Fewer(Len(items), 1))
    [] OTHER -> items

\* No texts make an array without a second dimension; no recording is refused.
NeedsItems == {"embeddings", "transcription"}

-----------------------------------------------------------------------------
(* One chunk *)

NoChunk ==
  [type |-> "none", items |-> <<>>, language |-> "none", bounds |-> <<0, 0>>,
   next |-> 1, results |-> <<>>, count |-> 0, step |-> "none"]

Receive(type, items, language, bounds) ==
  /\ chunk.step \in {"none", "result", "dead"}
  /\ served < MaxServed
  /\ served' = served + 1
  /\ chunk' = [NoChunk EXCEPT !.type = type, !.items = Wanted(type, items), !.language = language,
                              !.bounds = bounds, !.step = IF engine = "gpu" THEN "load" ELSE "run"]
  /\ UNCHANGED <<engine, models, tokenizers, faults>>

Goto(step) == chunk' = [chunk EXCEPT !.step = step]

\* The items k .. k + Len(answers) - 1 get these answers.
Give(answers) ==
  chunk' = [chunk EXCEPT
              !.results = @ \o [i \in DOMAIN answers |-> [of |-> chunk.next + i - 1, answer |-> answers[i]]],
              !.next = @ + Len(answers)]

\* The libraries raise where nothing in the chunk makes them.
Fault == faults < MaxFaults /\ faults' = faults + 1

ItemsLeft == Len(chunk.items) - chunk.next + 1

Item == chunk.items[chunk.next]

Running(kinds) == chunk.step = "run" /\ engine \in kinds

\* The loop over the items is over.
EndItems ==
  /\ chunk.step = "run" /\ chunk.type # "prime_count"
  /\ ItemsLeft = 0
  /\ engine = "gpu" /\ chunk.items = <<>> => chunk.type \notin NeedsItems
  /\ Goto("result")
  /\ UNCHANGED <<engine, models, tokenizers, served, faults>>

-----------------------------------------------------------------------------
(* The GPU worker *)

Needed == TaskHandler(chunk).loader

UseCached ==
  /\ chunk.step = "load"
  /\ Needed.key \in models
  /\ Goto("run")
  /\ UNCHANGED <<engine, models, tokenizers, served, faults>>

\* Mutant: the model is put into the cache before its tokenizer is loaded.
LoadModelFirst ==
  /\ chunk.step = "load" /\ Needed.tokenizer
  /\ Needed.key \notin models /\ chunk.language # "xx"
  /\ models' = models \cup {Needed.key}
  /\ Goto("loaded")
  /\ UNCHANGED <<engine, tokenizers, served, faults>>

LoadTokenizer ==
  /\ chunk.step = "load" /\ Needed.tokenizer
  /\ Needed.key \notin models /\ chunk.language # "xx"
  /\ tokenizers' = tokenizers \cup {Needed.key}
  /\ Goto("loaded")
  /\ UNCHANGED <<engine, models, served, faults>>

LoadModel ==
  /\ chunk.step \in {"load", "loaded"}
  /\ chunk.step = IF Needed.tokenizer THEN "loaded" ELSE "load"
  /\ Needed.key \notin models
  /\ models' = models \cup {Needed.key}
  /\ Goto("run")
  /\ UNCHANGED <<engine, tokenizers, served, faults>>

\* No model is cached, at most its tokenizer, and the next chunk tries again.
LoadFails ==
  /\ chunk.step \in {"load", "loaded"}
  /\ Needed.key \notin models
  /\ IF chunk.language = "xx" THEN UNCHANGED faults ELSE Fault
  /\ Goto("dead")
  /\ UNCHANGED <<engine, models, tokenizers, served>>

\* The items of one pass of the model.
Batch ==
  LET size == Fewer(TaskHandler(chunk).batch, ItemsLeft) IN
  SubSeq(chunk.items, chunk.next, chunk.next + size - 1)

\* One pass of the model: every item of the batch gets an answer it may get.
RunBatch ==
  /\ Running({"gpu"}) /\ ItemsLeft > 0
  /\ \E answers \in [DOMAIN Batch -> Labels \cup {"text", "note"}] :
       /\ \A i \in DOMAIN Batch : answers[i] \in TaskHandler(chunk).answers[Batch[i]]
       /\ Give(answers)
  /\ UNCHANGED <<engine, models, tokenizers, served, faults>>

\* The model raises, a recording cannot be fetched, or there is no item and there must be one.
RunFails ==
  /\ Running({"gpu"}) /\ ~TaskHandler(chunk).caught
  /\ \/ chunk.items = <<>> /\ chunk.type \in NeedsItems /\ UNCHANGED faults
     \/ ItemsLeft > 0 /\ TaskHandler(chunk).answers[Item] = {} /\ UNCHANGED faults
     \/ ItemsLeft > 0 /\ Fault
  /\ Goto("dead")
  /\ UNCHANGED <<engine, models, tokenizers, served>>

-----------------------------------------------------------------------------
(* The CPU worker *)

CpuKinds == {"cpu", "rules"}

ChunkTypes ==
  {"prime_count", "sentiment_analysis", "translation", "summarization", "image_classification",
   "text_generation", "question_answering"}

\* The argument of get_model: one per language for translations.
ModelType == IF chunk.type = "translation" THEN <<chunk.type, chunk.language>> ELSE <<chunk.type>>

\* Sentiment without USE_AI_MODELS, and texts in a language without a model.
ByRules == chunk.type = "sentiment_analysis" /\ engine = "rules"
Unsupported == chunk.type = "translation" /\ chunk.language = "xx"

GetModel ==
  /\ Running(CpuKinds) /\ ItemsLeft > 0 /\ ~ByRules /\ ~Unsupported
  /\ ModelType \notin models
  /\ models' = models \cup {ModelType}
  /\ UNCHANGED <<engine, tokenizers, chunk, served, faults>>

AnalyzeSentimentSimple == \E label \in Labels : Give(<<label>>)

\* The model of analyze_sentiment_ai has two labels.
AnalyzeSentimentAi == chunk.type = "sentiment_analysis" /\ \E label \in Labels \ {"neutral"} : Give(<<label>>)

TranslateText == chunk.type = "translation" /\ Give(<<"text">>)

SummarizeText ==
  chunk.type = "summarization" /\ Give(<<IF Item = "short" THEN "note" ELSE "text">>)

ClassifyImage == chunk.type = "image_classification" /\ Item # "broken" /\ Give(<<"text">>)

GenerateText == chunk.type = "text_generation" /\ Give(<<"text">>)

AnswerQuestion == chunk.type = "question_answering" /\ Give(<<"text">>)

\* One item, with what it needs in the cache.
RunPipeline ==
  /\ Running(CpuKinds) /\ ItemsLeft > 0
  /\ \/ ByRules /\ AnalyzeSentimentSimple
     \/ Unsupported /\ Give(<<"error">>)
     \/ /\ ~ByRules /\ ~Unsupported /\ ModelType \in models
        /\ \/ AnalyzeSentimentAi \/ TranslateText \/ SummarizeText
           \/ ClassifyImage \/ GenerateText \/ AnswerQuestion
  /\ UNCHANGED <<engine, models, tokenizers, served, faults>>

\* Loading or running the pipeline raises.  Sentiment falls back to the rules for this text, and
\* tries the model again with the next one; any other chunk but one of images is lost.
PipelineFails ==
  /\ Running(CpuKinds) /\ ItemsLeft > 0 /\ ~ByRules /\ ~Unsupported
  /\ chunk.type # "image_classification"
  /\ Fault
  /\ IF chunk.type = "sentiment_analysis" THEN AnalyzeSentimentSimple ELSE Goto("dead")
  /\ UNCHANGED <<engine, models, tokenizers, served>>

\* Mutant: an image that raises is logged and gets no entry in the results.
ImageFailsSilently ==
  /\ chunk.step = "run" /\ chunk.type = "image_classification" /\ ItemsLeft > 0
  /\ \/ Item = "broken" /\ UNCHANGED faults
     \/ Fault
  /\ chunk' = [chunk EXCEPT !.next = @ + 1]
  /\ UNCHANGED <<engine, models, tokenizers, served>>

\* In both workers the exception of an image is the result of that image.  (The CPU worker
\* loads its model there, too.)
ImageFails ==
  /\ chunk.step = "run" /\ chunk.type = "image_classification" /\ ItemsLeft > 0
  /\ \/ Item = "broken" /\ (engine = "gpu" \/ ModelType \in models) /\ UNCHANGED faults
     \/ Fault
  /\ Give(<<"error">>)
  /\ UNCHANGED <<engine, models, tokenizers, served>>

Root(n) == CHOOSE r \in 0 .. n : r * r <= n /\ n < (r + 1) * (r + 1)

\* is_prime, with the odd divisors up to the root.
IsPrime(n) ==
  \/ n = 2
  \/ n > 2 /\ n % 2 # 0 /\ \A i \in 3 .. Root(n) : i % 2 = 1 => n % i # 0

PrimeCount ==
  /\ Running(CpuKinds) /\ chunk.type = "prime_count"
  /\ chunk' = [chunk EXCEPT !.step = "result",
                 !.count = Cardinality({n \in chunk.bounds[1] .. chunk.bounds[2] - 1 : IsPrime(n)})]
  /\ UNCHANGED <<engine, models, tokenizers, served, faults>>

-----------------------------------------------------------------------------

ExecutionInit ==
  /\ engine \in {"gpu", "cpu", "rules"}
  /\ models = {}
  /\ tokenizers = {}
  /\ chunk = NoChunk
  /\ served = 0
  /\ faults = 0

ExecutionNext ==
  \/ \E items \in Payloads :
       \/ \E type \in (IF engine = "gpu" THEN GpuTypes ELSE ChunkTypes) \ {"translation", "prime_count"} :
            Receive(type, items, "none", <<0, 0>>)
       \/ \E language \in Languages : Receive("translation", items, language, <<0, 0>>)
  \/ \E bounds \in Ranges : engine # "gpu" /\ Receive("prime_count", <<>>, "none", bounds)
  \/ UseCached \/ LoadTokenizer \/ LoadModel \/ LoadFails \/ RunBatch \/ RunFails
  \/ GetModel \/ RunPipeline \/ PipelineFails \/ PrimeCount
  \/ ImageFails \/ EndItems

ExecutionSpec == ExecutionInit /\ [][ExecutionNext]_executionVars

-----------------------------------------------------------------------------
(* What must hold *)

ExecutionTypeOK ==
  /\ engine \in {"gpu", "cpu", "rules"}
  /\ tokenizers # {} => engine = "gpu"
  /\ chunk.step \in {"none", "load", "loaded", "run", "result", "dead"}
  /\ chunk.next \in 1 .. Len(chunk.items) + 1
  /\ served \in 0 .. MaxServed /\ faults \in 0 .. MaxFaults

Tally(label) == Cardinality({i \in DOMAIN chunk.results : chunk.results[i].answer = label})

Prime(n) == n > 1 /\ \A k \in 2 .. n - 1 : n % k # 0

\* What a worker sends as the result of a chunk has one answer for every item, in their order,
\* whatever the size of a batch and whichever items or models failed on the way; the labels of
\* a sentiment chunk add up to its texts; the primes are the primes.
ResultsFollowItems ==
  chunk.step = "result" =>
    /\ Len(chunk.results) = Len(chunk.items)
    /\ \A i \in DOMAIN chunk.results : chunk.results[i].of = i
    /\ chunk.type = "sentiment_analysis" =>
         Tally("positive") + Tally("negative") + Tally("neutral") = Len(chunk.items)
    /\ chunk.count = Cardinality({n \in chunk.bounds[1] .. chunk.bounds[2] - 1 : Prime(n)})

\* The GPU worker never has a model in its cache without the tokenizer that goes with it, so a
\* chunk that finds its model there finds both, although loading may stop between the two; and
\* a model it runs is in the cache.
ModelNeedsTokenizer ==
  engine = "gpu" =>
    /\ models \subseteq tokenizers \cup
         {GetEmbeddingModel.key, GetZeroShotClassifier.key, GetStableDiffusion.key}
    /\ chunk.step = "run" => Needed.key \in models

\* The chunk is well formed and the caches are fit for use.
ExecutionInv == ExecutionTypeOK /\ ModelNeedsTokenizer

=============================================================================
