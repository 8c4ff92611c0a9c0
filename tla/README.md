# doc-agents in TLA+

Specifications of the document pipeline and query service of doc-agents, model-checked with
TLC and, where the property is worth it for every size of the system, proved with TLAPS.
Paths and line numbers are those of the repository.

## The system

| Component | State it keeps | Operations | Talks to |
|---|---|---|---|
| gateway (`cmd/gateway`) | none of its own; an upload request in progress | upload, summary, query proxy | Postgres, NATS, query service |
| parser worker (`cmd/parser`, 2 replicas) | the task in hand | `handleParse` | NATS, Postgres |
| analysis worker (`cmd/analysis`, 2 replicas) | the task in hand, the chunk list it read | `handleAnalyze` | NATS, Postgres, OpenAI |
| task queue (`internal/queue`, `internal/retry`) | messages on the wire, the attempt counter in each task | `EnqueueWithRetry`, `Worker`, `handleMessage`, `retryTask` | core NATS |
| document store (`internal/store`) | documents, chunks, summaries, embeddings | six writes, `ListChunks`, `GetSummary`, `GetDocument`, `TopK`, `migrate` | Postgres |
| chunker (`internal/chunker`) | none | `ChunkText` | - |
| query service (`cmd/query`) | requests in progress | `queryHandler` | Redis, OpenAI, Postgres |
| cache (`internal/cache`) | answers and vectors, with an expiry | get, set (and an invalidation that has no caller) | Redis |
| LLM and embeddings clients | none | `Summarize`, `Answer`, `Embed`, `EmbedBatch` | OpenAI |
| wiring, configuration (`internal/app`, `internal/config`), `migrate` | the schema and its advisory lock | how a service starts | Postgres, NATS, Redis |
| HTTP utilities, logging | none | the 60 second timeout, health servers | - |

An upload inserts a document (`processing`) and publishes a parse task. A parser stores the
chunks and publishes an analyze task. An analysis worker reads the chunks back, stores a summary,
then the vectors, then sets the status to `ready`. The three services share nothing but the
tables and the tasks: no table is locked, no write looks at the old status, no message is
acknowledged. A handler that returns an error has its task published again with its
attempt counter increased, up to five attempts. Queries read the tables through a cache that
nobody invalidates.

**What is hard here.** Retries of handlers that are not idempotent (chunk rows get new ids each
time); writes that are executed although the call returns an error; the one task of a document
as its only lock; workers that die with the task in hand; a retry whose publish fails as well;
contexts that are cancelled just when they are needed; result sets that are cut off without an
error; retried tasks that sleep in front of others; chunks and vectors that are matched by position only;
services that migrate an empty database together; a cache with stale entries, slow writers and failures. `PROJECT.json` lists each
at its line, with the properties that watch it.

**What makes each part correct.** The gateway answers every upload, and marks as failed only
what nobody works on. The queue hands a task to one worker and gives up eventually. Parser
and analysis together make a document ready only when its summary and vectors are made of all its
chunk rows, whatever is retried. The chunker loses no word. The query service answers the
question it was asked, with an answer that rests on analysed documents only, is no older than the TTL allows, and never
depends on the cache. Services that start together migrate one at a time, and every start ends, serving or stopped. (That a
service can start at all is not promised: where Postgres refuses the index of `postgres.go:95`, each service that gets the lock stops.)

## The modules

| Module | Models | Notes |
|---|---|---|
| `Environment` | contexts and failing calls, for the pipeline | external: `context.Context`, the network |
| `Store` | the tables and the writes of `postgres.go` | one action per SQL statement or transaction |
| `TaskQueue` | `queue.go`, `nats.go` as the services see them | the wire is a bag; delivery at most once, in any order |
| `Gateway`, `Parser`, `Analysis` | the handlers | one action per call the handler makes |
| `Ingestion` | the composition, fairness, and all properties of the pipeline | |
| `DocumentLifecycle` | abstract: what a reader of the tables may rely on | `Ingestion` implements it |
| `NatsQueue` | `nats.go` and `retry/backoff.go` over core NATS | replicas with a memory, sleeps, seconds; implements `TaskQueue` |
| `Chunker` | `ChunkText` | one step per round of its loop |
| `Embeddings`, `Indexing` | `EmbedBatch` as a function; from the chunker's words to the rows of the vectors | `Indexing` extends `Chunker` |
| `QueryService` | `cmd/query` and `internal/cache` | time is a counter |
| `Retrieval` | `QueryService` over `DocumentLifecycle`: `TopK` reads the tables that the pipeline fills | |
| `Startup` | `internal/app`, `NewPostgres`, `migrate` | |
| `MCIngestion`, `MCNatsQueue`, `MCIndexing`, `MCQueryService`, `MCRetrieval`, `MCStartup` | instances for TLC | |
| `IngestionInvariant`, `IngestionProofs`, `IngestionTheorems` | the pipeline: inductive invariant, its proof, what follows from it | |
| `NatsQueueProofs` | the queue: inductive invariant, refinement of `TaskQueue` | |
| `ChunkerProofs`, `IndexingProofs`, `StartupProofs`, `QueryServiceProofs`, `RetrievalProofs` | the other proofs | |

The compositions: `Ingestion` joins gateway, workers, queue and store; `NatsQueue` stands under its queue, `Indexing` inside its
documents; `Retrieval` stands on its tables, by way of `DocumentLifecycle`.

### State and code

**Pipeline.**

* `status[d]`, `chunks[d]`, `summaries[d]`, `embeddings[d]` are the rows of document `d`. A document's
  chunk rows are written in one transaction, so they exist in whole sets: `chunks[d]` counts the
  sets, `summaries[d]` says how many sets the summary was made from (`NoSummary` before,
  `Part` when it was made from a list that was cut off), and `embeddings[d]` how many sets have all of
  their vectors, or `Part` when only some rows have one. Vectors are upserts: those of a part join those that are there
  and may complete them (`Joint`). A document in `Blank` has no word, so a set of its rows is empty.
* `upload[d]` is the line the upload request of `d` stands at; a request is named by the document
  it creates. `fail` is two steps: it marks the document (`MarkFailed`) and then answers (`RespondError`), and the gateway
  may die in between.
* `wire` holds the published tasks. `pc[w]` and `task[w]` are the next call of worker `w` and the task it
  handles. `tries[p]` is the loop variable of a running `EnqueueWithRetry`.
* `listed[w]` is the chunk list that `handleAnalyze` reads once and computes everything from.
* `cancelled` is the set of requests and workers whose context is cancelled, `errors` counts the
  calls that failed, up to `MaxErrors`.

A call of a handler is one step with two or three outcomes. A write that returns an
error is executed or not (`StoreError`): the connection may break after the commit. A call under
a cancelled context is refused; `Embed` and `EmbedBatch` take no context and are not. A publish looks at no
context, only the pause between two publishes does (`MayPublish`). Both are as in the code.

A handler runs from `Receive` to `Release`. `retryTask` is one step: it computes the next attempt
and publishes it, fails to, or drops the task. Crashes end a process anywhere; the gateway
loses all its requests at once.

**Queue over NATS.** `network` holds what the server has, `inbox[w]` the messages in the memory of a replica's client, `hand[w]` the
one whose callback runs, and `mode[w]` whether its handler or `retryTask` does. Callbacks of a subscription run one after the
other, so the sleep until `NotBefore` in `handleMessage` holds up the inbox. A message carries the seconds left until its `NotBefore`, `wait`,
which pass for all messages in every `Tick`. `since` and `held` measure, and guard nothing. `Forget` drops what a dead
client had in memory one message at a time, so that each is one `Lose` of `TaskQueue`; no step of
the replica comes between.

**Indexing.** A text is its number of words; the words in `control` consist of control characters, which `preprocessText` drops. A chunk
row is a pair of a copy and a chunk number; the parser may store a copy in each of its `MaxAttempts` attempts. `ListChunks` returns the rows in any
order and may be cut off after any of them, `EmbedBatch` leaves out what is empty, and vectors are assigned by position, each an upsert.

**Query service.** An answer is what it was made from: the question, documents and limit of the
request it was computed for, and the search behind it: when it was made (`at`), the documents whose vectors it had to choose from (`scope`), and those it
returned rows of (`docs`). Similarity is a number that is not modelled, so `Choices` allows any part of the scope within the limit: rows below
the threshold of 0.7 (`postgres.go:223`), rows beyond the limit, and rows that were cut off (`postgres.go:251`) are missing alike. Entries carry the moment they
expire; `Tick` removes them. `"cache" \in Failing` lets any cache call fail, which includes what
`NoOpCache` does: every read a miss, every write lost. A request's context ends with its client or after `Timeout`; then every call
but `Embed` fails. In `Retrieval`, `indexed[d]` is no longer free: it is set when the join of
`TopK` first has a row of `d`, and `ready[d]` when the status becomes ready. The tables there move as `DocumentLifecycle` lets them, with
`MayCut = TRUE`: a summary or vectors may be those of `Part` of a document.

**Lifecycle.** `DocumentLifecycle` promises that a document is summarised and indexed from lists of its chunk rows (`Lists`), that no row is added once it is
summarised, and that it is ready only when both are done. Whether a list may be a part is its constant `MayCut`; `Ingestion` implements it with
`MayCut` true exactly when `"cut"` is among the disruptions.

**Startup.** `stage[s]` and `step[s]` are the next statement or connection of service `s`, `schema` the statements of `migrate` that are
executed, `lock` the session that holds the advisory lock. The pool may replace a connection between two statements
(`LoseSession`); Postgres then frees the lock, and `migrate` goes on. `skipped`, `broken` and `aborted` remember why a service may find no tables.

### Disruptions

In the pipeline `MaxErrors` calls may fail and be counted in `errors`. `Disruptions` chooses what else may go wrong: `"outage"` (once
`errors` has reached `MaxErrors`, calls fail any number of times, uncounted), `"crash"` (processes die),
`"loss"` (messages vanish), `"cancel"` (contexts are cancelled under a running handler), `"cut"` (a list of chunk
rows is cut off while it is read). In `Indexing`, lists are cut off and in `QueryService` the rows of a search in every run. `Failing` chooses likewise in `QueryService` and `Startup`.

## The runs

| Run | Instance | Properties | What it shows |
|---|---|---|---|
| `MCDocuments` | 2 documents (one blank), 2 parsers and 1 analysis worker, 2 attempts of 2 publishes; everything but `cut`, any number of failures; symmetric parsers | `TypeOK`, `SingleCustody`, `ReadyIsComplete`, `ServedSummaryIsComplete`, `FailedIsInert`, `ChunkCopiesBounded`, `StatusIsFinal`, `ChunksFrozenOnceAnalysed`, `ImplementsLifecycle` | the tables only ever go through the lifecycle, and documents do not disturb each other |
| `MCOutage` | 2 documents (one blank), 1 + 1 workers, 2 attempts of 3 publishes; 2 counted errors and an outage, cut lists, clients that hang up; fair | `SingleErrorTolerated`, `ImplementsLifecycle`, `AcceptedBecomesReady`, `WorkEnds`, `UploadIsAnswered` | one failure costs no document, retrying ends, every upload is answered, and cut lists leave the lifecycle with parts |
| `MCNatsQueue` | 3 documents, 2 analysis replicas, 2 attempts; crashes, losses, failing publishes; fair | `TypeOK`, `BackoffKept`, `HoldUpBounded`, `ImplementsTaskQueue`, `DeliveredGetsItsTurn` | no retry comes early, a sleeping task holds others up for a bounded time, and the services see `TaskQueue` |
| `MCIndexing` | texts of 0-12 words, windows -1..5, overlaps -1..6; 319-800 words with the parser's options; up to two words of control characters; 5 attempts to store at most 4 chunk rows, lists of any of them; fair | `TypeOK`, `EveryWordInAChunk`, `ChunksFillTheWindow`, `NeighboursOverlap`, `Terminates`, `VectorsBelongToTheirRows`, `EveryWordSearchable` | the chunker at every boundary, and that each row gets its own vector |
| `MCStartup` | a gateway, an analysis worker and a query service on an empty database, everything may fail; fair | `TypeOK`, `OneMigrates`, `SchemaIsThere`, `LockIsReturned`, `EveryStartEnds` | who migrates, and who may find no tables |
| `MCRetrieval` | 2 symmetric requests for 1 document of up to 2 copies, TTL 1, timeout 2, clock to 3; cache failures and cut lists | `TypeOK`, `AnswersAreCurrent`, `CacheFailsNoQuery`, `AnswersRestOnAnalysedDocuments`, `ReadyIsInScope` | how stale an answer can be, and what it rests on |
| `MCQueries` | 1 request after the other, five bodies, 2 documents, TTL and timeout 1, clock to 1; every call may fail, clients hang up, Redis restarts; fair | `AnswersOwnQuestion`, `EveryQueryAnswered` | keys tell queries apart, and every query is answered |

**Why the bounds suffice.** One task per document means that documents meet only in the workers
that are busy, so two of them, one blank, exhibit every meeting; more are
covered by the proofs. Two attempts (of two or three publishes) are enough for a first and a last attempt in
parse and analysis; the violation runs use the code's own numbers, five and three. `MCOutage` counts two errors because its properties tell
none, one and more apart. In the queue three tasks on two replicas let a due task wait behind two sleeping ones, and a
sleeper be lost. The chunker depends on the number of words and its two options
alone; twelve words hold several windows of each width, and the theorems remove the bound. Four rows are two copies of two chunks, the least in which
an order can be wrong both within and between copies, or four copies of one; longer texts exercise the chunker only. Of the services, one of each
kind of dependency list that matters starts (the parser's is the gateway's), and three are enough for one to migrate, one to
wait, and one to come late. For queries, a clock to
3 lets an entry be written at the end of a slow request, expire, and be written again by one that searched before, and an entry that
lives too long be served; the theorems remove the bound.

**Violation runs.** Five statements of the documentation do not hold of the code, and TLC shows how.

| Run | Property | Statement | What the code does |
|---|---|---|---|
| `MCRetryLimit` | `AtMostThreeAttempts` | README.md:158, three attempts | five (`nats.go:72`) |
| `MCGivenUp` | `GivenUpIsMarkedFailed` | README.md:158, then marked as failed | logged; the status stays `processing` (`nats.go:81`) |
| `MCAgentCrash` | `CrashLosesNoTask` | README.md:434, no message is lost when an agent crashes | core NATS keeps no copy (`nats.go:43`); README.md:717-719 says so too |
| `MCClientGone` | `EnqueueFailureMarksFailed` | `cmd/gateway/main_test.go:120`, a failed enqueue marks the document failed | not when the request's context is cancelled (`main.go:152`) |
| `MCCutRead` | `EveryChunkEmbedded` | README.md:127-129, all chunks are embedded before ready | `ListChunks` never asks `rows.Err` (`postgres.go:294`) |

README.md:703 warns of the opposite: "analysis might start before parsing completes". It cannot:
the analyze task is published after the chunk rows are committed, and no chunk row is
stored afterwards (`ChunksFrozenOnceAnalysed`, proved without any assumption on failures).

`CHECK_DEADLOCK FALSE` is set everywhere because every system here may stop: all uploads answered and
all tasks done, all vectors stored, all services serving, or the clock at its horizon.

**Mutants.** Each property has a plausible bug that breaks it, defined beside the operator it
replaces (comments call them variants): a retry limit off by one, an error not looked at,
a message kept beside its copy, a task published by a request that reports failure, a delay that begins with the callback, a missing break,
vectors stored in the order of the rows, texts without the document's name, an unlock that is forgotten, a cache
key without the documents, an entry stored under a context of its own, an outer join.

## Fairness

* `Ingestion`: weak fairness of each upload handler, each parser and each analysis worker. Goroutines are scheduled, every call returns
  with a result or an error (OpenAI calls carry timeouts, HTTP handlers a 60 second limit), and NATS
  hands a waiting message to an idle subscriber.
* `NatsQueue`: weak fairness of the server's hand-over, of each replica's callback, and of time.
* `Indexing`: of the chunker's loop, which is sequential code.
* `QueryService`: of each request's handler; `Startup`: of each start (statements and connection attempts return, two seconds pass).

Fairness says nothing about which outcome a call has, nothing about users, and nothing about disruptions: no crash, loss,
restart or cancellation has to happen, and nobody has to start a service again.

## The proofs

Everything rests on the named assumptions of the modules (`EnvironmentAssumption`, `BlankAssumption`, `AttemptsAssumption`, `NoTaskAssumption`,
`QueueAssumption`, `QueryAssumption`, `RetrievalAssumption`, `StartupAssumption`, `ChunkerAssumption`), which TLC evaluates in the runs. Sets of documents, workers, requests and services are
arbitrary.

**Pipeline.** The properties are not inductive: that a ready document is complete depends on what the analysis
worker read some steps ago, and that on no parser being left. `IInv` is therefore:

* `TypeInv`: types, and that a worker holds a task of its own kind, with attempts left, exactly while busy;
* `Custody`: one copy of one task, or one worker, for each document;
* `DocOK(d)`, for each document: `UploadOK` (nothing is stored or on its way before the parse task is published), `WireOK` and
  `ParserOK` (while a parse task exists only chunk rows are stored, at most one set per attempt), `AnalysisOK` (from the
  list to the status, each call finds what the one before it stored) and `RowsOK`.

`IngestionProofs` proves it inductive, one lemma per action, on top of frame lemmas (`Frame`, `Others`,
`ParserCall`, `AnalysisCall`) that say that a step of one document's worker leaves the other documents alone. It speaks of lists (`ChunkList`), which are
whole or a part, so it and the refinement hold with cut lists too. `ReadyIsComplete` and `ServedSummaryIsComplete` say more, and
assume `ReadsWhole`, that is `"cut" \notin Disruptions`: `MCCutRead` shows that they are false without it.

For `SingleErrorTolerated`, `IngestionTheorems` adds an account of the one failure. `Account` says that while `errors <= 1` no task has more attempts
behind it than calls have failed (`Counted`), so that a first failure finds an attempt left, and that an accepted document is ready or in
somebody's hands (`Kept`). It assumes `NothingVanishes`: no crash and no loss, more than one attempt, and, under an outage, that
`MaxErrors` tells a second failure from the first.

**Queue over NATS.** `Inv` of `NatsQueueProofs` has five parts: `Typed`; `Placed` (messages are in their own group, a handler has one whose time has come, a replica
that is down has none in hand); `AllSound` (a message belongs to a published document, and the time since its last failure and what is left to wait make at least
the backoff of its attempt); `Alone` (a document has one message); `Waited` (a message has not been held up while it was on its way, and in the
memory of a client the time it was held up and what any message before it has still to wait make at most `LongestBackoff`). `AllSound` gives `BackoffKept`,
`Waited` gives `HoldUpBounded`. That the last backoff is the longest needs powers of two to grow with their
exponent, which is an induction; instead of one, `2 ^ n` is read as the number of subsets of `1 .. n`.

`ImplementsTaskQueueHolds` goes action by action. The wire of `TaskQueue` is the bag of one task for each message that is on
the way, in a memory, or asleep in a callback; because messages are alone (`OneMessage`), a step
changes the bag by the one task of its message. It assumes `"loss" \in Disruptions`: core NATS drops a message nobody is subscribed
for, and a client that dies loses its memory, whether or not the network loses anything, and both are a `Lose` of `TaskQueue`.

**Chunker.** `Inv` says that after each round the chunks so far are full windows, `step` apart, and that `start` is
where the next begins. `EveryRoundAdvances` proves what termination rests on.

**Indexing.** `IndexingChunks` carries the chunker's invariant over. `IndexInv` adds that the rows are pairs of a copy and a chunk, all chunks of a copy
at once (`RowsOfChunks`), that the list has each of its rows once (`ListOfRows`), and that stored vectors are those of their rows, and all listed rows have one when the document
is ready (`VectorsOfRows`). That a ready document is found by each of its words needs a list of all rows, which the property says. The proof that the `i`-th vector is
that of the `i`-th row is where the prefix is needed: all texts are sent (`Sent` is the whole list), so the `i`-th place among them is `i` (`NthOfAll`).

**Startup.** `Inv` adds to the types that the lock's holder is migrating and that whoever migrates holds it or has lost its session
(`HolderMigrates`, `MigratingHolds`), that a migration at statement `n` has executed those before it (`Executed`), and
what excuses a service that did not migrate (`Excused`).

**Query service.** `Inv` says of every entry of the cache what it answers, since when and how long it can live (`Entries`), of every request what it has
found so far (`Searching`), and of every reply that it answers its question (`Replies`). That a slow request cannot make an entry that outlives
`TTL + Timeout` follows because the search and the write of its answer run under one context. All of it is proved for `ServiceNext` and for steps (`Grow`)
in which any documents become searchable, so it carries over to the composition: `RInv` of `RetrievalProofs` is `Inv` with the facts of the lifecycle (`RowsFit`), of
the moments noted (`MomentsFit`) and of what an answer rests on (`AnswersRest`). The lifecycle stands there for the pipeline, which implements it
(`Refinement`), with parts if lists may be cut off; `MayCut` is arbitrary in the theorems. `RetrievalImplementsQueryService` says that the composition is still the query service, so that its invariants need no second
proof; `AnswersOwnQuestionOverTables` and `TypeOKOverTables` are obtained that way.

| Theorem | Says |
|---|---|
| `IngestionProofs!TypeOKHolds`, `IngestionProofs!InvariantHolds` | `Spec => []TypeOK`, `Spec => []IInv` |
| `SingleCustodyHolds`, `FailedIsInertHolds`, `ChunkCopiesBoundedHolds` | the invariants of the runs, unconditionally |
| `StatusIsFinalHolds`, `ChunksFrozen` | the action properties, unconditionally |
| `ReadyIsCompleteHolds`, `ServedSummaryIsCompleteHolds` | under `ReadsWhole` |
| `Refinement` | `Spec => ImplementsLifecycle`, unconditionally: the identity mapping on the rows, every action a step of `DocumentLifecycle` or a stutter |
| `SingleErrorToleratedHolds` | under `NothingVanishes` |
| `ChunkerTypeOK`, `EveryWordInAChunkHolds`, `ChunksFillTheWindowHolds`, `NeighboursOverlapHolds` | for every text and all options |
| `EveryRoundAdvances` | each round reaches further into the text, and not beyond its end |
| `OnlyBlankTextHasNoChunk` | what `Store` assumes of `Blank` |
| `NatsQueueProofs!TypeOKHolds`, `BackoffKeptHolds`, `HoldUpBoundedHolds` | for any documents, replicas, attempts and failures |
| `ImplementsTaskQueueHolds` | `Spec => ImplementsTaskQueue`, if messages may be lost |
| `IndexingChunks`, `VectorsBelongToTheirRowsHolds`, `EveryWordSearchableHolds` | for every text, options, number of attempts and list of rows |
| `StartupProofs!TypeOKHolds`, `OneMigratesHolds`, `SchemaIsThereHolds` | for any services and failures |
| `QueryServiceProofs!TypeOKHolds`, `AnswersOwnQuestionHolds`, `AnswersAreCurrentHolds`, `CacheFailsNoQueryHolds` | for any requests, bodies, TTL, timeout and failures |
| `RetrievalImplementsQueryService` | `RetrievalSpec => Spec` of the query service |
| `AnswersRestHolds`, `ReadyIsInScopeHolds`, `AnswersAreCurrentOverTables`, `CacheFailsNoQueryOverTables`, `AnswersOwnQuestionOverTables`, `TypeOKOverTables` | the same over the tables of the pipeline |

**Model-checked only.**

* Liveness (`AcceptedBecomesReady`, `WorkEnds`, `UploadIsAnswered`, `DeliveredGetsItsTurn`, `Terminates`, `LockIsReturned`,
  `EveryStartEnds`, `EveryQueryAnswered`), which needs fairness and `ENABLED` and is out of the prover's reach.
* The refinements are proved in their halves of safety; that `NatsQueue` makes a delivered task run is `DeliveredGetsItsTurn`.

## Not modelled, and why

* `extractText` and `extractPDF`: pure functions that fall back on the raw bytes. That such bytes may be refused by Postgres, and that a
  text may be larger than a NATS message or an OpenAI batch, are calls that fail.
* The wording of prompts, `extractSummary`, the weighing of a confidence, the formatting of context and sources, normalised vectors, similarities: text
  and numbers that no property here tells apart. Which rows pass the threshold and the limit of a search is any choice within the limit. The calls themselves are modelled as outcomes.
* The proxy's copying of headers and bodies, validation errors (answered before any call is made), logging, health checks, images.
* `InvalidateDocument`: no code calls it.

## Plan

Done: `Store`, `TaskQueue`, the three services and `Ingestion`; `DocumentLifecycle`; the chunker; the
query service; `NatsQueue` and its refinement; `Indexing`; `Startup`; `Retrieval`; the proofs of pipeline, tolerance, chunker, startup, query
service, composition, queue and indexing. Every safety property that a passing run checks is now stated by a theorem. What is left: the facts that the
liveness properties rest on, as step properties in the manner of `EveryRoundAdvances` (a retry always
uses up an attempt, a start never goes back).
