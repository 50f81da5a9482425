# A verification of the enterprise question-answering bot

The repository answers questions that employees send to a WeCom application. Three Go
processes and a Python agent share PostgreSQL, Redis streams and an object store. This
directory holds TLA+ models of its stateful parts, the TLC runs that check them and the
theorems TLAPS proves about them. `PROJECT.json` lists the components, the runs, the hazards
of the code, and the source lines each definition stands for. Paths below are relative to the
repository.

## 1. The system

| component | state | operations | hard because |
|---|---|---|---|
| gateway: `internal/httpapi`, `internal/store` | `users`, `conversations`, `inbound_messages`, `messages`; stream `qa:requested` | callback: find, accept transaction, publish, mark queued | WeCom repeats callbacks; two of them meet between any two calls; a commit may report an error |
| streams: `internal/queue` | two Redis streams, one consumer group each | XADD, XREADGROUP, XAUTOCLAIM, XACK | at-least-once delivery; entries become idle while they are held |
| dispatcher: `cmd/dispatcher` | none of its own | claim, read, validate, load, call the agent, publish, acknowledge | 8 questions of 15 s each against an idle limit of 30 s; crashes |
| agent, answering: `application/query.py`, `api/grpc_service.py` | `query_runs`, `messages`, `citations` | claim, retrieve, generate, persist, record a failure | repeated and cancelled calls; taking over a run by its age, without a lock |
| outbound: `cmd/outbound`, `internal/wecom` | `outbound_deliveries` | claim, load, send, mark, acknowledge | the message cannot be taken back; two workers at one event |
| agent, documents: `application/ingestion.py` | `documents`, `document_versions`, `chunks`; objects in MinIO | upload, enable, disable | object and rows are not written in one transaction; concurrent uploads |
| agent, reindex: `application/reindex.py` | `jobs` | enqueue, claim, heartbeat, apply, complete, fail | leases without fencing; stale chunks; stops in the middle |
| agent, retrieval and answer text | reads only | keyword and vector search, rank fusion, quotation, citation renumbering | three numberings of the same passages; what a model may write; two searches at two moments |
| outbound, WeCom client: `internal/wecom/client.go`, `internal/outbound` | cached access token | token, send, send again with a new token; format | tokens are withdrawn at any time; a byte limit |
| agent, evaluation: `application/evaluation.py` | none | ask the cases, sum up | cases that fail |
| agent, models, admin API, health, pages | none or read-only | HTTP requests to model services, listings, metrics | |

A question travels: WeCom → gateway → `qa:requested` → dispatcher → (gRPC, 15 s) agent →
`qa:completed` → outbound → WeCom. Nothing but the two streams and the tables connects the
processes. Uploads and administration enter through the agent's HTTP server, which also runs
the reindex worker.

What makes each part correct:

* gateway: a question is stored once however often it is sent; success is only told for a
  question that is in the stream; no event names a request that was not committed;
* dispatcher: an acknowledged question has its completion in the next stream; repeated
  completions agree; nothing waits for ever unless the agent refuses it for ever or it names no stored
  question;
* agent: one answer per request id, and only for the input the id was first used for; run and
  answer appear together; one call at work at a time; every redelivered request is answered;
* outbound: an acknowledged answer was accepted by WeCom; SENT tells the truth; each message
  has a record; a finished delivery is never sent again;
* the path as a whole: a confirmed question is at no moment lost between the processes, is
  answered in the end, and to its asker; repeated answers come from faults of the delivery only;
* answer text: what a marker cites is what the model meant, from the ranked passages to the
  sources of the message; the message fits;
* WeCom client: one call sends one message or none and tells which, whatever other calls do to
  the token; evaluation: a failed case is a miss in every rate;
* documents: no passage is lost at the seams of chunks; the tables agree about the current version; a document in service stays in
  service across an upload; a confirmed upload is stored;
* reindex: one worker per job; success means vectors; only current versions are touched; every
  job ends.

## 2. Modules

| module | models | role |
|---|---|---|
| `Inbox` | what the gateway promises | abstract specification |
| `Gateway` | `receiveWeComHandler` with the store and Redis calls it makes | implements `Inbox` |
| `AnswerOnce` | what the agent promises its callers | abstract specification |
| `AgentQuery` | `QueryService.answer` under `AnswerQuestion` | implements `AnswerOnce` |
| `RedisStream` | a stream with one group, as operators on a record | used by the next one |
| `StreamConsumer` | the loop `run`/`processBatch` of both workers | extended by the next two |
| `Dispatcher` | `cmd/dispatcher` `processOne` | |
| `Outbound` | `cmd/outbound` `processOne`, store and WeCom calls | |
| `Documents` | the document tables and their transactions | extended by the next two |
| `Ingestion` | `DocumentIngestionService.ingest` | |
| `ReindexJobs` | `DocumentReindexWorker` and the requests that create jobs | |
| `QASystem` | gateway, dispatcher, agent and outbound over both streams | composes `Inbox`, `Dispatcher`, `Outbound` |
| `SplitText` | `split_text` of the ingestion | |
| `AnswerText` | `_rrf`, `_generate`, `_validate_and_renumber`, the citations stored, `FormatWeComText` | |
| `Evaluation` | `RagEvaluationService` | |
| `WecomClient` | `APIClient.SendText` and its token | |
| `MCAlgorithms` | the last four, side by side | one run of four independent machines |
| `MC*` | constants and symmetry for TLC | |
| `*Proofs` | theorems and proofs; `DocumentsProofs` serves `Documents`, `Ingestion` and `ReindexJobs`, `AlgorithmsProofs` serves the four sequential parts | |

Conventions. One action is one transaction or one remote call, since between two of them any
other process may run. A call may fail without effect, or take effect and report an error; a
process may stop between two steps. `pc` holds the step a callback, call, worker or upload is
at, and the label is the operation that comes next. Definitions that begin with "Mutant of" in
their comment are not used by the specifications: each is a plausible bug of the definition
they name, kept to show that a property notices it.

**Gateway.** A callback draws the UUID of the request it may create and of the event it may
publish; both carry the callback's own name. `Receive` stands for everything before the store is
touched (signature, decryption, XML, message type), of which only the outcome matters.
`FindInbound`, `InsertInbound`/`PersistInbound`/`RefindInbound`, `PublishRequested` and
`MarkInboundQueued` are the handler's calls. The accept transaction is split at its insert
because a loser inserts its question before it meets the conflict and must roll it back.

**AgentQuery.** `Begin` takes a call, the `Claim*` actions are the branches of `claim_query`:
the statements before the insert lock nothing when the run does not exist, so `ClaimMissing` and
`ClaimInsert` are two steps. `Retrieve`, `Generate`, `PersistAnswer` and `MarkRetryableFailure`
follow. `Cancel` may come between any two steps: `CancelledError` is not caught, so the run
stays as it is. Time counts in ticks; `Deadline` is the dispatcher's 15 s, `Takeover` the 30 s
of `claim_query`. Answers are grounded answers, refusals, the refusal without evidence and the
extractive fallback; what they say is not modelled.

**Dispatcher and Outbound.** Entries are valid, malformed, or not for this worker. One of
`qa:requested` may be unknown, too: of its `input_message_id` the validation only asks that it is not
empty, so it may have no row or be no UUID, and then the load fails at every delivery and the entry stays
pending (`DropEntry`). `EntriesSettle` is therefore about the entries the code can bring to an end
(`Settleable`), whatever the others do, and `dispatcher_doomed` shows what becomes of the rest. Settled
does not mean kept: a malformed or mismatching entry is acknowledged and logged, no more. The owner of
a pending entry is not kept, because no operation used here looks at it. `Time` makes a pending
entry idle at any moment, which covers every length of a step. An entry carries what the code takes
from it: the request and the user of a request event, the event, the user and the answer of a
completion. What an entry names is not constrained here; `QASystem` ties it. `SetActive` of
`Outbound` changes for any number of events at once whether `LoadOutboundAnswer` finds their answer,
since one user may wait for several. In `Dispatcher` the agent is one
external action that gives a request its answer, as `AnswerOnce` permits; `published` is a set
since the event id is derived from the request. In `Outbound` a send is one step: `SendText`
sends a second time only after WeCom has refused the first with 40014 or 42001, so at most one
message is accepted. `accepted` counts what WeCom accepted and `attempt` what the table counts,
both up to `MaxAttempts`. That `SendText` may be one step is what `SendTextIsOneStep` of
`WecomClient` shows.

**QASystem.** The processes are instances of their modules; what those leave open is tied here.
The gateway is `Inbox`, which `Gateway` implements: its publications are the entries of
`qa:requested`, and a sender who is disabled is not accepted. The dispatcher's publications are
the entries of `qa:completed`. An answer is a record of the question it answers and a text, which
`DAnswer` makes from the question the dispatcher loaded, as the agent does from its request; so
that an answer belongs to the question of its request is a consequence, not an assumption. The
agent is the action `AgentAnswers` of `Dispatcher`, what `AnswerOnce` permits. `Deliverable` is
the query of `LoadOutboundAnswer`, whose join with `users` turns it down while the recipient is
disabled. `received` is the set of what WeCom accepted. Faults of dispatchers (`dfaults`), of
delivery workers (`ofaults`) and changes of users (`changes`) are counted together against
`MaxFaults`, in two counters because `RepeatsNeedFaults` tells them apart. WeCom's duplicate check
(`enable_duplicate_check`), which may drop an equal message within 30 minutes, is not modelled:
the repetitions counted are those the code makes. `Accept` gives a question an id of `Unused`, which
stands for a UUID that no question has, and is disabled when the finite set `Requests` has none left;
which one it takes makes no difference. `MaxCompleted` bounds the publications of the dispatchers.

**SplitText.** A chunk is the interval of the text it was cut from. One step is one iteration of
the loop. Separators are one blank and one that is not: the code treats the seven alike except
that `strip` removes blanks. A text is normalised, that is without blanks at its ends; runs of
blanks stay possible, more than the code lets through (it keeps a space next to a newline).

**AnswerText.** Texts are sequences of words and markers. Scores are exact fractions,
compared by cross-multiplication: two that differ do so by more than the rounding of a double for
any rank the settings allow (two equal sums of different shares may be told apart by it, and are
then not in the order of their ids, of which no property speaks). `Ordered` is the sort by score,
and that of the markers' first places. `ModelAnswers` is everything `generate` lets through,
which includes markers that do not match the listed indexes: the prompt asks for equality, the code
does not check it and lets the markers win. A refusal of the model is not validated at all: it keeps its text,
markers included, and loses its citations (`AcceptRefusal`). `SentAnswerIsSound` is about the other answers,
whose markers are exactly the numbers of their citations, and about the length of every message; `refusal_markers`
shows what a refusal may look like. A cut in the middle of a marker or a word removes it
from what is compared, its bytes still count. `Quote` leaves out the three dots of a quotation that
was cut.

**Evaluation.** Of a case only the numbers of its expectations are kept. Rates are pairs of the
numbers of two sets, compared by cross-multiplication, where the code counts in lists and rounds to
four digits.

**WecomClient.** The mutex is held from the look at the cache to its update, across the request
for a token, so `accessToken` is one step; the two messages of a call are steps of their own.
`Withdraw` and `Expire` may come between any two. They are limited to moments when a call is at
work, when alone they matter.

**Documents.** Each transaction locks its document's row and is one step. A version stands for
its chunks, since every statement on chunks treats those of a version alike. `Retrievable` is
the join of `_RETRIEVAL_FROM` without access rights. `SwitchIndex` is external: no code writes
`active_index_version`. Statuses that no code writes (`DELETING`, `FAILED`, a disabled knowledge
base) are left out. `set_document_active` may re-evaluate its query when it waits for the row; it
can then only refuse where it might have agreed.

**Ingestion.** Its definitions have names of their own (`stage` for the step an upload is at, `UploadSpec`,
`UploadsOK`), so that one module can extend it together with `ReindexJobs` (`DocumentsProofs`) or with `Gateway` (`MCEntrances`). An upload's version id is fresh and part of its object key, so upload, version
and object share a name. `SaveRows` may commit and report an error, after which the object is
deleted although its version exists; `DeleteObject` ignores errors; `AbortUpload` is the end of the
process.

**ReindexJobs.** A worker goes through `Claim`, `ReadSource`, `Heartbeat` and `EmbedBatch` for
each batch, `Apply`, `Complete`; `StepFails`, `Retry`, `Refuse`, `Stop`, `Release` and `Crash`
are its failures. Lease and retry delay count in ticks. `silent` is the time since the last
renewal, and `Tick` keeps it within `StepLimit`: the assumption that a step is shorter than a
lease is thereby explicit. Any claimable job may be taken, since `SKIP LOCKED` may skip the
oldest. `since` remembers the version that was current when the job was created, for
`SucceededHasVectors` only.

## 3. Runs

| run | instance | states | shows |
|---|---|---|---|
| `entrances` | 3 callbacks, 2 messages, 1 sender; 3 uploads, 2 documents, 2 index versions, 3 versions | 306 154 | the gateway's invariants and `InboxSpec`, with every call failing or being cut off; the tables agree, confirmed uploads are stored, no gap in service |
| `agent` | 2 calls, 1 request, 2 inputs, Deadline 2 < Takeover 3 | 17 160 | one answer, one call at work, `AnswerOnceSpec`, and `EventuallyAnswered` |
| `agent_cancel` | 2 calls | – | *violation*: a cancelled call leaves its run IN_PROGRESS |
| `dispatcher` | 2 workers, 2 requests (one doomed), 2 entries of 4 kinds, batches of 2 | 116 072 | nothing is lost, completions agree, entries settle behind those that cannot |
| `dispatcher_doomed` | 1 worker | – | *violation*: an entry refused for good, or of an unknown question, is redelivered for ever |
| `outbound` | 2 workers, 2 entries of one event, batches of 2, attempts to 2 | 190 810 | no answer lost, records true, entries settle |
| `outbound_one_sender` | the same | – | *violation*: two workers send one answer at once |
| `reindex` | 2 workers, 1 job at a time, 1 document, 3 versions, 2 index versions, 2 attempts | 298 306 | one worker per job, success leaves vectors, FAILED is final, every job ends |
| `reindex_lost_lease` | steps longer than the lease | – | *violation*: a worker that lost its lease commits |
| `qa_system` | 2 messages of 2 users, 1 dispatcher, 1 delivery worker, 2 requests published, 1 fault or change | 303 904 | nothing is lost between the processes, answers reach their askers, `ConfirmedIsAnswered` |
| `algorithms` | texts to 6 characters over 4, chunks to 4; 3 passages, 2 shown, model answers to 3 tokens; 2 cases; 2 callers, 4 tokens | 158 186 | the properties of the four sequential parts |
| `refusal_markers` | the same inputs | – | *violation*: a refusal is sent with a marker and no citation |

Safety and liveness of a component share one run where the state space allows. In `entrances`
(callbacks and uploads, which share no state) and `algorithms` (the four sequential parts) the machines stand
side by side: each initial state belongs to one of them and the others stay as they are. Agreement of
slow calls, whose deadline exceeds the takeover limit, needs no run: `AnswersAgree`,
`CompletedStays` and `ImplementsAnswerOnce` are proved for every `Deadline` and `Takeover`.

The bounds. The hazards are races of two actors at one message, request, entry, event or job, and
the return of a third after one of them failed: three callbacks, two calls or workers that come
back, and two deliveries contain them. Workers and calls return to idle and start again, so a bound on their
number is none on how often they act. Entries in a stream and versions are never removed and
need a bound (`MaxEntries`, `MaxVersions`); each is large enough that an entry waits behind
another and that a version is replaced while somebody uses it. Counters of attempts stop at
`MaxAttempts`, where the code does not tell larger values apart (`ReindexJobs`) or the property
compares numbers that stop at the same place (`Outbound`). Durations are as short as their order
allows: Deadline against Takeover, StepLimit against Lease, RetryDelay below Lease. The `entrances`
and `algorithms` runs switch the deadlock check off because callbacks and inputs end; in the other runs some step is always
possible. In `qa_system` the two publications are those of two messages or twice the same one, and
the single fault falls at any step of any process, so that each hand-over between two processes is
interrupted once at each point; races of several workers of one kind are the subject of the
`dispatcher` and `outbound` runs, and docker-compose.yml starts one of each. In `algorithms` a text of
six characters with chunks of up to four has up to six cuts, separators in both halves of a chunk
and repeated chunks; the byte numbers are chosen so that the message fits, is cut with all its
sources, or is cut within them. In `outbound` one event is enough for safety, which the theorems show for all sets.

Violations are disagreements with a document of the repository, quoted in `PROJECT.json`
("findings"). Further ones, seen in the models and not given a run:
`docs/go-gateway-api-v1.0.md:409` promises that a retry enqueues nothing again, while two
callbacks that both read `queued_at` as NULL publish two entries (line 410 allows to publish
again); `docs/go-gateway-api-v1.0.md:1317` draws no way out of SENT, while a second attempt's
failure overwrites it (`DoneIsFinal` leaves this case out); `docs/python-agent-api-v1.0.md:792` ends the
stages of a job with SUCCEEDED, while a worker that is stopped at its completion puts the job back as
RETRYING (`JobsEnd` claims the first end only, `FailedIsFinal` is about failed jobs);
`docs/go-gateway-api-v1.0.md:1169` sends invalid events to the dead letters, which no code writes (named in
the finding of `dispatcher_doomed`); `docs/python-agent-api-v1.0.md:614` wants the markers of an answer to be
the indexes the model lists, while the code lets the markers win; `README.md:188` speaks of three automatic retries,
while the code makes three attempts.

## 4. Fairness

Safety needs none. The liveness properties assume:

* `AgentQuery`: time passes and a call at work goes on; a request that may be sent again and again
  is, and retrieval, model, insert and commit each succeed once if they are tried again and again
  without end, in whichever call (strong fairness). Nothing is assumed of a single call, which may be
  cancelled at any step. The dispatcher redelivers each entry until it is acknowledged, which
  justifies calls being repeated. The property speaks of requests that stay permitted.
* `Dispatcher`, `Outbound`: workers go on, entries become idle, and faults (lost replies, failing
  calls, crashes) stop at some time: `<>[][~Fault]_vars`. The agent's refusal of a doomed request and the
  load of an unknown question are not among them and may fail for ever. `PollsFindNothing` is a premise, that a
  worker again and again has nothing idle to claim. The code claims idle entries before it reads
  new ones, so without it a stream of idle entries starves new ones: that this cannot happen is not
  claimed, and with failing entries that together take longer than the idle limit it does.
* `QASystem`: the same of its workers, with the number of faults bounded instead, and `PollsFindNothing` of
  both streams as a premise. The agent answers if it is asked again and again. WeCom's repetition of a callback is
  not assumed: the property speaks of messages that were confirmed, by users who are active from
  some moment on, since the agent refuses a disabled user and the delivery does not find the answer.
* `SplitText`: the loop goes on.
* `ReindexJobs`: time passes, workers go on, and stops, crashes and unrecorded failures end.
  Failing embeddings do not have to: attempts are limited.

## 5. Proofs

TLAPS proves, for all values of the constants that satisfy the named assumptions:

| module | theorems | argument |
|---|---|---|
| `GatewayProofs` | `TypeCorrect`, `OneQuestion`, `ConfirmedIsQueued`, `StreamIsPersisted`, `ImplementsInbox` | `CallbackInv` says for each `pc` what the callback knows: the ticket it publishes is the row's request; at "mark" its event is in the stream. The properties are not inductive without it. |
| `AgentQueryProofs` | `TypeCorrect`, `AnswersAgree`, `CompletedStays`, `OneCallPerRequest`, `ImplementsAnswerOnce` | `CallInv`: a call at work has its request bound to its input. No assumption on time for agreement. `OneCallPerRequest` assumes Deadline < Takeover and adds `FlightInv`: the run of a call at work is IN_PROGRESS and no older than the call. |
| `StreamConsumerProofs` | lemmas | what the stream operations keep: delivered entries stay, batches hold delivered entries. |
| `DispatcherProofs` | `TypeCorrect`, `NoQuestionLost`, `CompletionsAgree` | `WorkerInv`: what a worker knows of its current entry at each step. |
| `OutboundProofs` | `TypeCorrect`, `NoAnswerLost`, `SentIsTrue`, `AttemptsCover`, `DoneStays` | `AccountInv`: messages accepted plus workers that may still send are at most the attempts recorded, or the counter is at its bound. |
| `DocumentsProofs`, tables | lemmas | each transaction keeps the tables typed and in agreement, and takes neither a version nor its vectors away. |
| `DocumentsProofs`, uploads | `UploadsTypeCorrect`, `UploadsTablesAgree`, `CreatedStays`, `ServiceGoesOn` | `UploadOk`: no version has an upload's object before it saves its rows, exactly one has afterwards, and the object is stored from the put on unless the upload fails. `ServiceGoesOn` needs the agreement of the tables: the version found is the current one, which each transaction replaces or keeps active. |
| `DocumentsProofs`, reindexing | `TypeCorrect`, `TablesAlwaysAgree`, `SuccessLeavesVectors`, `OldVersionsStay`, `OneWorker`, `FailedStays` | `WorkerOk`: the version a worker has read is no older than its job, and has vectors once they were applied. `OneWorker` and `FailedStays` assume StepLimit < Lease and add `LeaseInv`: a worker's lease and its silence together last for a whole lease, so nobody can claim its job. Without the assumption the other four still hold. |
| `QASystemProofs` | `TypeCorrect`, `ImplementsInbox`, `ImplementsDispatcher`, `ImplementsOutbound`, `ImplementsComponents`, `AnswersReachAskers`, `NoQuestionLost`, `RepeatsAreCounted` | see below |
| `AlgorithmsProofs` | `SplitKeepsPassages`, `SendTextSendsOnce`, `FailuresCount`, `FusionKeepsRanks`, `SentAnswersAreSound`, `QuotesCiteTheirPassage` | see below |

**The path as a whole.** `DispatcherProofs` and `OutboundProofs` are instances of `QASystemProofs` under
the substitution of `QASystem`, and the invariant of the whole is `DP!IInv /\ OP!IInv /\ PathInv`. A step of the
whole is a step or a stutter of each component (`KeepsDispatcher`, `KeepsOutbound`, `KeepsInbox`), which is
what `ImplementsComponents` says and what carries the components' invariants over; their constant assumptions are
derived from those of `QASystem`. The refinement is not by construction: the dispatcher leaves open what a neighbour puts
into its stream and the delivery when an answer can be loaded, and the steps of the others must stay within
that. `PathInv` adds what no component can know alone: a request id belongs to one message (`OneMessage`);
a request event names an accepted message and its sender (`RequestedOk`); what was confirmed was published
(`AckedOk`); a dispatcher at its call holds the question of its entry (`LoadedOk`); a stored answer answers the
question of its request (`AnswerOk`); a completion carries the stored answer for its asker (`CompletedOk`).
`NoQuestionLost` then chains the two components: a handled entry of `qa:requested` has its completion in `qa:completed`
(`AckedIsSettled`), and a handled entry there was accepted by WeCom (`AckedIsAccepted`). `RepeatsAreCounted` speaks of one delivery
worker, the number docker-compose.yml starts: with several, a second one may be sending the same answer
(`outbound_one_sender`), which is no fault of any. Its invariant `RepeatInv` counts one message ahead: an event that is not SENT and was accepted has
cost a fault already, unless the worker is at its mark.

**The sequential parts.** `ClientInv`: the token of a call that sends again was given after the refused one and is no newer
than the valid one; a call has one accepted message at "sent" and none before. `SplitInv`: every passage that starts before the next
chunk does is held by a chunk; a chunk that ends before the text does is longer than half its room, so the
next one starts at most the overlap, or all but one character of the chunk, before its end. The facts about `Min` and `Max` come from
the well-foundedness of < on the naturals. `EvaluationInv`: each result belongs to the case at its place, so a failed result has the
same expectations, none of them matched; every rate counts a smaller set over the same one (`FewerOf`).
`FusionInv` and `AnswerInv` say what is known at each stage of an answer: an answer about to be sent is the validated form of what was
generated (`ValidatedOk`), whose citations name each passage once (`Once`), a quotation that of the best candidate. From there `CitedFact` leads from a marker through its place in
the indexes to the citation, and `SendStep` bounds the message in each of the three cases of its length. For the fusion, `Before` is shown to
order what was found (`RankingFact`, by cross-multiplication of fractions), and to follow from dominance (`FractionSum`) and from being
found twice (`TwoShares`). All six theorems are about `MCSpec`, where the machines stand side by side and share no state.

What a sort returns is proved without a theorem of induction: `OrderExists` takes the least number of elements a set without an order could
have, and puts the last of its elements behind the rest. So `Ordered`, which chooses such an order, has one to choose
(`OrderedFact`). The models of `AnswerText` and `Evaluation` were rewritten for this: orders and cardinalities of sets stand where folds and sorts
of sequences stood, and scores are fractions, not multiples of a product of bounds.

`FusionRespectsRanks` states the second half of its claim, that a passage found twice beats one found once, for at most
61 passages per search. The configuration admits 100 (settings.py:45-46; the defaults are 10 and 20), and
there it is not true: two shares 1/(60+62) are together no more than the 1/61 of a first place.

Two things in the models were corrected because a proof did not go through. `Accept` of `QASystem` chose an id without asking whether one was left,
so that for more messages than ids nothing was known of it; it now has the guard `Unused # {}`. `SetActive` of `Outbound` changed one event at a time, while
disabling a user changes all that user's at once, so that the delivery inside `QASystem` was no instance of
`Outbound`.

Assumptions: those named in the modules (`None`, or `Null` in `Gateway`, is no value of a data set, bounds are naturals,
delivery workers are finite in number because they are counted).

What stays with TLC, and why:

* `EventuallyAnswered`, `EntriesSettle`, `JobsEnd`, `ConfirmedIsAnswered`, `SplitEnds`: liveness under fairness is beyond
  this prover.
* The five violations are counterexamples.

Every other property of a run is a theorem. Three proved invariants are checked by no run: `AttemptsCoverMessages`
(`AttemptsCover`), `QueuedMeansPublished` (in `ConfirmedIsQueued`) and `RunMatchesAnswer` (in
`AnswersAgree`).

## 6. Not modelled

* The text of documents: reading PDF, DOCX, XLSX and text files, keyword terms, similarity. The
  models take what was read and found as inputs.
* The access predicate of retrieval: one SQL condition over roles, departments and
  `department_closure`, tables that no code of the repository writes. A model of it would restate it.
* What the pair of searches sees: keyword and vector search are two statements, between which a version may be
  saved. Each is a moment of `Documents`; nothing in the repository says what both together must see.
* Cryptography of callbacks, decoding of requests, configuration, health checks, the web page and
  listings: they keep no state the properties mention.
* HTTP and JSON of the model adapters, except the checks on what the model answered.
* WeCom's duplicate check. Latencies and percentiles of the evaluation.
* Durability: PostgreSQL and Redis keep what they confirmed. `docker-compose.yml` runs Redis with
  its default fsync policy, which may lose a second after `queued_at` was set.
* The window of XAUTOCLAIM (ten times the count from the beginning): the models claim idle
  entries wherever they are.
* One clock: age and lease comparisons ignore skew between agent and database.

## 7. Plan

Done, in this order: gateway, agent, streams, dispatcher, outbound, documents, ingestion, reindex; then
the composition `QASystem` and the sequential parts `SplitText`, `AnswerText`, `Evaluation`,
`WecomClient`; then the proofs of every component, of the composition and of the sequential parts.

Next, proofs:

1. `QASystem` with several delivery workers: `sent[r]` is at most the faults plus the number of delivery
   workers plus one, if that is what TLC finds.
2. `Gateway` inside `QASystem`: `ImplementsInbox` of both modules together say that the callbacks can stand in
   for the gateway of the whole; stated as one theorem it needs the callbacks' publications as entries of
   `qa:requested`.
