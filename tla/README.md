# A formal model of Ragivka

Ragivka is a multi-tenant service that runs tiered LLM conversations: sessions
with a state machine, an orchestrator that answers a turn within the request
(tiers L0 and L1) or through a job queue (L2 and L3), tools that may need a
human's consent, artifact generation, document ingestion, and a graph engine.
PostgreSQL holds all shared state; nothing else serialises the processes that
work on it. This directory holds TLA+ modules for the parts whose correctness
depends on that, the TLC configurations that check them, and TLAPS proofs.

Paths below are relative to the repository root; line numbers of every
definition are in `PROJECT.json` under `map`.

## 1. The system

### Components

| Component (code) | State it keeps | Operations | Correct when |
|---|---|---|---|
| Session FSM (`pkg/runtime/fsm.go`, `types.go`) | the state column | `Allowed` | a session moves only along `validTransitions` |
| Session repository (`session_repo.go`) | `sessions` rows: state, version, expires_at | `Create`, `GetByID`, `GetActiveByUserID`, `Transition`, `ListExpired` | no two callers succeed on one version; the row follows the FSM though the UPDATE names the version alone |
| Expiry sweep (`jobs.go`, `ExpireSessionsWorker`) | a list of stale copies | `Work` | whatever it listed is dealt with; overdue Active sessions expire; none expires early |
| Orchestrator (`pkg/orchestrator`) | none of its own | `Run`; `Handle` of L0, L1, L2/L3 | an acknowledged turn is stored and answered, enqueued or handed to a human |
| Message repository (`message_repo.go`) | `messages` rows, ordered by `created_at` | `Create`, `ListForSession`, `GetByJobID` | a reply follows the turn it was made for |
| Generation worker (`jobs.go`, `GenerateResponseWorker`) | the attempt | `Work` | one reply per turn however often it is retried; silence on sessions that are over |
| River queue (library), worker process (`worker.go`, `cmd/worker`) | job state and attempts; the client, the channels of `main` | insert, fetch, complete, retry, rescue, discard; start, soft stop, exit | at-least-once delivery, and every job ends whatever happens to the process |
| Telegram channel (`pkg/channel/telegram`) | none of its own | the webhook | an update is answered with 200 only when stored; what a chat is sent is of the session of somebody who wrote there |
| User repository (`user_repo.go`) | `user` rows | `ResolveOrCreate` | one row per identity, there before a session refers to it |
| Web channel (`pkg/channel/web`) | subscriptions and channels of the broadcaster; two goroutines per connection | create session, message history, WebSocket; `Publish`, `Subscribe`, cancel | a message is missed only by a channel that is full when it is offered, none is sent on a closed one, and a client that leaves frees everything |
| Rate limiter (`middleware/ratelimit.go`) | Redis counters | `Allow` | no more requests pass under a minute's counter than the limit, as long as the minute lasts |
| Tool worker, registry, gate, audit (`tool_job.go`, `pkg/tools`) | `AUDIT_LOG`, the registry, the world outside | `Work`, `Register`, `Execute`, `Evaluate`, `IsExecuted`, `Log` | what is audited was done, what is finished is audited, held calls are not executed |
| Artifact worker, generators and repository (`artifact_job.go`, `pkg/tools/generators`, `pkg/storage`) | objects, `artifacts` rows | `Work`, `Dispatch`, `Generate`, `Create`, `Delete`, `PutObject`, `DeleteObject` | what is under a row's key is its job's artifact, or accounted for |
| Graph engine (`pkg/graph`) | path, path index, loop counts of one execution | `Execute`, `BuildGraph` | loops keep their limits and every execution ends |
| Ingestion (`pkg/knowledge/ingestion`) | `documents`, `document_chunks` rows | `Ingest` with its stages | no chunk twice, no half document unless the source was replaced, Ready means retrievable |
| Chunker (`chunker.go`) | the loop of one call | `Chunk` | nothing lost but what a negative overlap steps over, nothing repeated, it ends |
| Retrieval (`pkg/knowledge/retrieval`) | none of its own | `Retrieve`, the reranker | nothing better is left out, and a passage is found wherever the text was cut |
| AI core (`pkg/aicore`), the other middleware (`pkg/middleware`), tenants, cache, observability, the API server's `main` | none | one request each | not modelled, see section 8 |

### How they interact

Requests come from the web API or from Telegram; both call
`TieredOrchestrator.Run`, the web API on whatever session the path names, the
webhook on the newest open one of the user who wrote. `Run` loads the session, picks a handler by tier and
the handler stores the user's message. L0 and L1 then load the history, call
the model and store the reply; L1 may instead `Transition` the session to
WaitingForHuman at the version `Run` loaded. L2 and L3 enqueue a
`generate_response` job. Its worker, the expiry sweep, the tool worker and the
operator all go through the same session rows, with nothing but the `version`
column between them. No operation holds a transaction across two of these
calls: each is a step of its own, and any step of anybody else may come
between two of them.

The worker process starts River's client in a goroutine and waits for a signal,
for the metrics server's error or for the client's. Attempts run in the
client's goroutines and use the pool that `main` closes. A process that ends
leaves its attempts' jobs running in River's table, where the client of a later
process finds and rescues them. Tool jobs and artifact jobs are on the same
queue as everything else.

Retrieval reads the chunks that ingestion stored, through one query and a
reranker that order by different scores.

Requests of the web channel pass the rate limiter first. A WebSocket
connection subscribes to its session at the broadcaster, which is meant to
carry the replies of jobs to it; nothing in the repository publishes yet.

### What is hard here

- *Stale copies.* A caller holds a session for as long as a model call lasts
  and then transitions it from what it saw.
- *Overlapping turns.* Nothing serialises two requests, or a request and a
  job, of one session; each answers the last user message it finds.
- *At-least-once jobs.* An attempt may be cut short after every write, also
  after a write whose result was lost, and is retried.
- *Repeated deliveries.* Telegram repeats an update until it gets 200, also
  while the first delivery is still running.
- *Channels and goroutines.* A subscriber's channel is sent to under a mutex,
  received from without it, and closed by the goroutine that receives; two
  Redis commands of one request have all the others between them.
- *Effects that cannot be undone.* A Write tool runs before its audit record
  is stored, and two jobs with one idempotency key may both be between the two.
- *The process under the jobs.* It may be signalled, crash or fail to start its
  client at any place of any attempt; nobody waits for the client at exit.
- *Cancelled contexts.* The context whose cancellation is the error is also
  the one with which the error would be recorded.
- *Shared lists.* One row that cannot be processed ends the loop over all.
- *Nested loops, shared loop counts and odd configurations* in the graph engine
  and the chunker.
- *Two cuts by two orders.* The query's limit and the reranker's come one after
  the other.

`PROJECT.json` lists each hazard at its line with the properties that cover
it, or the reason why none does.

## 2. The modules

| Module | Models | Code |
|---|---|---|
| `SessionFSM` | abstract specification of a session | `fsm.go`, `types.go` |
| `SessionRepo` | repository, callers with stale copies, racing sweeps | `session_repo.go`, `jobs.go` |
| `River` | the life of a job, as the workers rely on it (external) | `worker.go` and the library |
| `Conversation` | `Run`, the tier handlers, the generation worker, the message table | `pkg/orchestrator`, `jobs.go`, `message_repo.go` |
| `UserTurn` | abstract specification of a turn: stored, answered or handed over, accepted | `pkg/orchestrator`, `jobs.go` |
| `Telegram` | the webhook and the users on top of `Conversation` | `pkg/channel/telegram`, `session_handler.go`, `user_repo.go` |
| `RateLimiter` | the fixed-window counter, the clock, key expiry | `middleware/ratelimit.go` |
| `Broadcaster` | subscriptions, channels, the mutex | `channel/web/broadcaster.go` |
| `WebSocket` | connections, behind `RateLimiter` and on `Broadcaster` | `channel/web/ws.go`, `ratelimit.go` |
| `ToolJob` | tool worker, registry, gate, audit log | `tool_job.go`, `pkg/tools` |
| `ArtifactJob` | artifact worker, generators, repository, object store | `artifact_job.go`, `pkg/tools/generators`, `pkg/storage` |
| `AgentJobs` | the two of them on one queue | |
| `Ingestion` | ingestion pipeline, document status, chunk table | `pkg/knowledge/ingestion` |
| `DocumentLife` | abstract specification of a document: registered, taken up, indexed whole, ended | `005_knowledge.sql`, comments of `pipeline.go` |
| `Worker` | the worker process that runs `Ingestion`: `main`, `StartWorker`, restarts | `cmd/worker/main.go`, `worker.go` |
| `GraphEngine` | `Execute` and the checks of `BuildGraph` | `pkg/graph` |
| `Chunker` | the loop of `Chunk` | `chunker.go` |
| `Retrieval` | `Retrieve` and the reranker over the chunks of `Chunker` | `pkg/knowledge/retrieval` |
| `SessionRepo_proofs`, `Conversation_proofs`, `WebSocket_proofs`, `AgentJobs_proofs`, `Worker_proofs`, `GraphEngine_proofs`, `Retrieval_proofs`, `Telegram_proofs` | theorems about the module named, and those it extends | |
| `MC*` | the instances TLC checks | |

`SessionRepo`, `Conversation` and `ToolJob` each hold the session rows and use
the transition table of `SessionFSM`; `Conversation` and `SessionRepo` are
shown to implement it, and the moves of `ToolJob` to be moves of it. `Conversation` also implements `UserTurn`, through the
mapping `Promise`, and `Worker` implements `DocumentLife`, through `Life`. `Conversation` uses `River` through `INSTANCE`, `ToolJob`,
`ArtifactJob` and `Ingestion` extend it. `AgentJobs` extends `ToolJob` and has an
instance of `ArtifactJob` on the same job table; `Worker` extends `Ingestion`,
whose steps it allows while the process can take them; `Retrieval` extends
`Chunker` and begins when that is done. `Telegram` extends `Conversation`: a delivery calls
its `Run` and reads its `pc` to know how it ended. `WebSocket` extends
`Broadcaster` and has an instance of `RateLimiter` whose requests are its
connections; the two have no next-state relation of their own, and neither have `ToolJob`,
`ArtifactJob` and `Ingestion`.

Comments of the form "Mutant of X" precede a variant of the definition X with
a plausible bug in it. Variants play no part in the specifications; each makes
some property fail, which is how we know that the property depends on the code
line in question.

### Correspondence

*SessionRepo.* `row[s]` is a row's state and version, `held[c]` the copies a
caller has loaded and not used. `Transition` follows `session_repo.go:77-99`:
`Allowed` is asked of the caller's `from`, the UPDATE compares the version
only, and zero rows means `ErrOptimisticLock`. The sweep is cut at every
`Transition`; order within the list is arbitrary because the query states
none. `ErrOptimisticLock` is skipped, every other error ends the sweep. The
operator who answers an escalation is not in the repository; it is a client
that uses `Transition`.

*Conversation.* One action per access to shared state. `pc` follows `Run` and
the handler, `apc` the attempt of the job. `Fail` and `AttemptFails` stand for
every error return and for a process that dies; `FailAfterWrite` and
`ReplyStoredAttemptFails` for a write that was stored although the call
failed. A message says which request wrote it and which turn its author took
for the question. The token budget of `ListForSession` is nondeterministic
where it can matter: one long reply may push every user message out.

`Accepted` is the HTTP handler's 202.

*UserTurn.* The promise of a turn, with no places in the code, no attempts and
no other turns. `Promise` maps to it: `stored` and `replies` are read off the message table,
`charge` off the job (a job that was inserted has the turn, until it is completed or
discarded) and off `how` (an escalation gives it to a human), `accepted` is `Accepted`.
A step of the code is one action of `UserTurn` or none; the one that does two things is
the last attempt that fails with its reply stored, which replies and gives the job up.

*Telegram.* `wpc` follows the webhook handler: resolve the user (an upsert, so
that a session never refers to a user who is not there), find the user's newest
open session, else create one; `Run`; load the session again for its tier; send the
last assistant message; answer 200. `NoResponse` is an error, a crash or a
lost response. The session is looked up by who wrote (`Message.From.ID`,
`handler.go:77`), and the reply goes to where it was written (`Message.Chat.ID`,
`handler.go:112`): `UserOf` and `ChatOf` of an update are independent, so that a
chat may be a group of many users and a user may write in many chats, with one
session for all of them. `WebMessage` is the web API's caller of `Run`
(`orchestrator/handler.go:40`), which asks nobody whose session it is; its turns share
the sessions, and the requests, with the webhook's.

*RateLimiter.* A counter per minute, as its key names the minute. `Incr` and
`Expire` are two commands, each of which may fail with or without effect. A
counter whose expiry was set during a minute goes some time in the next one.
`late` is history: the requests that read the clock in one minute and were
counted in the next. Such a request may find its counter gone and pass, so
that more than the limit can carry the key of one minute, though not within it.
`gone` and `life`, history too, say how often a minute's counter has expired and
in which of its lives a request was counted; the limit is kept in each.

*Broadcaster.* `held` is the mutex with the session being published to, `todo`
the subscribers `Publish` has not come to. A message is the number of its offer
to the channel, which shows a loss and the order.

*WebSocket.* `wpc` follows the handler and `rpc` the reader goroutine of a
connection. `seen` is history: how much the handler had taken when a message was
offered, which says what waited in the channel at that time. `select` takes any branch that is ready. A write to a client that
has gone may still succeed. The deferred calls run last first: cancel, then
close.

*ToolJob.* `apc` follows `Work`. `executions` counts effects of Write tools,
`audited` holds the keys in the audit log. `cut`, `seen` and `raced` are history:
attempts that ended between effect and record, what of a key's effects was over
when a job asked the audit log, and effects of jobs that had not seen all that
came before.

*ArtifactJob.* Data may fail to unmarshal or to render. An object shows the data
of one job; the row an attempt inserts has an id of its own, which the attempt's
number stands for. `Delete` removes the row and leaves the object, `DeleteObject`
the object and leaves the rows; nothing in the repository calls either, so that they come
at any time. `fate` is history: whether the object that a job stored is kept, was
replaced by another job's or was removed.

*Ingestion.* `apc` follows `Pipeline.Ingest`. `ON CONFLICT DO NOTHING` under
the unique constraint on tenant, document and index (`005_knowledge.sql`) is
`NewChunks`; the batch is one transaction. The embedder is called batch by batch,
and the source may be replaced at any time. A chunk row keeps which text it is of:
what was stored of an earlier text stays, and of the later one only the chunks beyond it are
added, which `WholeUnlessReplaced` states as it is.

*DocumentLife.* A document without jobs, attempts and process. `Life` maps to it:
`status` is the column, `indexes` the chunk numbers that the document has,
`contended` the documents on which two jobs have started. Such a document may be taken up
although it is Ready, and ended by either of its jobs in any order, which is what the code does
(`pipeline.go:64` guards against the past, not against a rival); one that a single job
works on may not, however often that job is cut and retried.

*Worker.* `main` follows the function of that name from the end of start-up: the
`select`, the metrics server's shutdown, then `os.Exit` or the deferred calls.
`errChan` and `workerErrChan` are its channels, `ctxDone` the context that the
signal or `stop()` cancels. `client` is River's client in the goroutine of
`StartWorker`: it cannot start with a cancelled context, fetches nothing after it,
and stops when no attempt is left. Whatever ends the process is `Gone`: goroutines
and attempts vanish, jobs stay `running` until `Rescue`. After `pool.Close` an
attempt can do nothing more and nothing can be recorded of it (`LoseAttempt`).

*GraphEngine.* One action per turn of the loop. Whether a predicate holds is
open each time; a limit is any integer. The loop count is kept for the key
`from + ":" + to`, as in the code: `loopKey` says which key the ids of a pair
make, two pairs the same one where ids contain colons. `back` counts per edge
what it should bound.

*Chunker.* A chunk is the range of characters it holds. Size and overlap are any
integers, as nothing validates `ChunkConfig`: a size that is not positive brings in
the defaults, an overlap of the size or more counts as none (`chunker.go:31`), and with a negative one the
loop steps over as many characters behind each chunk (`SteppedOver`).

*Retrieval.* Each chunk has two scores, which are arbitrary. `Query` takes any set
of rows that `ORDER BY` the blend and `LIMIT` allow, `Rerank` any order that
`sort.Slice`, which is not stable, allows, and cuts it at `topK`; a `topK` that is
not positive cuts nothing.

## 3. Runs

All runs check deadlock off where the system comes to rest (every request and
job of the instance is done); `SessionRepo` never rests and is checked with it.

| Run | Instance | Shows |
|---|---|---|
| `repo` | 2 sessions, 1 client, 2 sweeps, reactivation up to version 3 | `SnapshotsTrail`, `SweepIsThorough`, `ExpiredIsOverdue`; `ImplementsFSM` (refinement); `ActiveExpiresUnlessBlocked` (liveness) |
| `conversation` | a session of tier L1 or L2, 2 overlapping turns, jobs of 2 attempts | `OneReplyPerTurn`, `NeverAnswersAnOlderTurn`, `AcknowledgedMeansHandled`, `CompletedMeansAnswered`, `NoJobReplyToDeadSession`; `ImplementsFSM`, `ImplementsTurn` (refinements) |
| `telegram` | 2 users in one group chat, an update each, 2 requests (deliveries or the web's), 2 sessions of tier L0 (webhook) or L1 (web) | `AckedIsStored`, `RepliesAreOfTheSendersSession` |
| `websocket` | 2 connections to one session, another session, channels of 1 place, 2 messages, 1 request a minute, 2 minutes | `NeverSendsOnClosed`, `MissesOnlyWhenFull`, `AdmittedWithinLimit`, `GoneIsReleased` (liveness) |
| `tool` | batches of up to three jobs, of 2 attempts each, on one session: two sure Write calls under one key, an unsure Write call, a Read call; two reports with one object, a table, a sheet that does not render, one that does not unmarshal, an unsupported type | `AuditIsTrue`, `RepeatedOnlyInWindow`, `HeldWithoutEffect`, `RowsReferToObjects`, `SessionsMoveLegally` |
| `worker` | 1 document with texts of 0, 1 and 2 chunks; 2 rival jobs of 2 attempts in a process without faults, or one job and 2 faults | `OneChunkPerIndex`, `WholeUnlessReplaced`, `ReadyIsIndexed`, `CompletedIsIndexed`, `StuckOnlyIfCut`, `ReadyStays`; `ImplementsLife` (refinement); `EveryJobEnds` (liveness) |
| `graph` | all graphs of 3 nodes with up to 2 edges out of each (limits 0, 1), all of 2 nodes with dangling edges (limits -1, 0, 2), each with keys that tell pairs apart and keys that do not | `PathIndexed`, `PathIsWalk`, `WithinLimit`, `BuiltIsClosed`, `Terminates` (liveness) |
| `knowledge` | lengths to 8, sizes -1 to 4, overlaps -3 to 5; queries over up to 3 chunks with scores 0 to 2, `topK` 0, 1, 3, every `alpha`, 2 candidates at least | `CoversText`, `EachChunkIsNew`, `NothingBetterLeftOut`, `PassageIsFound` |

No run checks a type invariant: each module has one, and those of `SessionRepo`, `Conversation`,
`Telegram`, `WebSocket`, `AgentJobs`, `Worker` and `GraphEngine` are proved. `conversation` and `telegram` are checked
up to permutations of the requests (in `telegram` of the sessions and users too): nothing in the
model tells them apart, and neither run has liveness properties. Why the bounds suffice: two actors and one
row are what a race needs, and a second row is what a sweep needs to lose one
of them; two attempts show every retry after every cut, a third only repeats
the second; one reactivation is what brings a session back to a state it was
in before, at another version. Jobs that have no state in common do not
interfere, so that batches hold those that have some: a key, an object, the
session, or the queue alone. A rival job and a fault do the same to an attempt,
they end or overtake it, and the plans have each on its own. Three nodes are what an overlapping loop-back
needs (the inner loop starts inside the outer one and ends before it). Three
chunks and two candidates let the query cut once and the reranker once more. A channel
of one place is full after one message, and a second one is lost; the code's 16
places only put that off. One request a minute and two connections let the
second be refused, or pass in the next minute. That nothing depends on these
bounds is what the proofs of section 5 say of all properties but liveness.

### Findings

Four runs show that the code does not do what its documents say.

| Run | Property | What happens |
|---|---|---|
| `repo_fr7` | `ActiveExpires` | `ListExpired` lists overdue WaitingForHuman sessions, `Transition` rejects them, `Work` returns that error: if such a session comes first in every sweep, the Active ones after it never expire (FR-7) |
| `telegram_reply` | `ReplyIsOfThisTurn` | the webhook sends the session's newest assistant message, which may be another turn's |
| `tool_nfr4` | `ExecutedAtMostOnce` | a worker that dies between a Write tool's effect and its audit record runs the tool again (NFR-4) |
| `worker_drain` | `DrainsBeforeExit` | on a signal `main` closes the pool and exits without waiting for `StartWorker` (`cmd/worker/main.go:153`); attempts are cut in the middle, not drained (NFR-7) |

Seen while modelling and visible in the models, without a run of their own:
`Run` does not check the session's state, which `docs/architecture.md:146` says
it does; a held tool call that loses the race for its session is dropped with
success (`tool_job.go:71`); ingestion that ends by cancellation cannot mark the
document Failed, so that after the last attempt it stays Processing
(`pipeline.go:73`); two edges between the same nodes share one loop
count (`engine.go:80`); ingestion that is retried after its source was replaced keeps
the rows of the earlier text and adds the later one's behind them, a mixture of the two
(`indexer.go:46`), although `docs/requirements.md:58` (FR-8) has stale chunks cleaned up;
a negative `Overlap` makes `Chunk` lose text without a word (`chunker.go:31`); the rate
limiter counts in fixed minutes, which its comments say (`ratelimit.go:14`, `:19`), where
`docs/requirements.md:80` (FR-24) asks for a sliding window, and a request that reads the
clock in one minute and is counted in the next may pass beside as many as that minute allows; in a group the webhook
sends the reply to the whole chat, from a session that holds what its user wrote elsewhere
(`telegram/handler.go:77`, `:112`); a message to a session by the web API is not checked against
the session's owner (`orchestrator/handler.go:40`); a retried artifact job may insert a second row, and two jobs
of one session and type overwrite each other's object (`artifact_job.go:65`,
`:84`); `StartWorker` registers neither the tool worker nor the artifact worker;
two edges whose ids make one string share a loop count too (`engine.go:80`). Outside
of what is modelled: personal data that the end of a chunk cuts in two is
scrubbed chunk by chunk (`pipeline.go:113`).

## 4. Fairness

- `SessionRepo!FairSpec`: some sweep makes progress while there is something to
  do (River retries a failed job; the periodic job that would insert
  `expire_sessions` is not in the repository and is assumed), and attempts are
  not all cut short before their first transition (strong fairness of
  `SweepOne`, because every crash disables it). Clients owe nothing: they may
  win every race against the sweep or never finish.
- `WebSocket!FairSpec`: a goroutine that can run does (weak fairness of the
  handler, of its reader and of `Publish` once it has the mutex). `sync.Mutex`
  starves nobody and `select` chooses at random among what is ready, hence
  strong fairness of `SeeDisconnect` and `CancelConn`, which others' use of the
  mutex and waiting messages disable and enable. Clients and publishers owe
  nothing.
- `GraphEngine!FairSpec`: a node returns and the loop goes round.
- `Worker!FairSpec`: the supervisor starts the process again; `main` and the
  client go on when they can; an attempt goes on or fails, as every call of it has
  a deadline or a connection that breaks; River fetches what is available and
  rescues what has been running for too long. All of it is weak fairness: a
  process that meets no more faults stays up, and their number is bounded. An
  attempt may fail every time, which ends its job after `MaxAttempts`.

## 5. Proofs

`SessionRepo_proofs` proves, for any sets of sessions, clients and sweepers and
any `MaxVersion`, from `RepoAssumption` alone (clients and sweepers are
distinct, the bound is a natural number):

| Theorem | States |
|---|---|
| `TypeCorrect` | `Spec => []TypeOK` |
| `Invariance` | `Spec => []IInv` |
| `SnapshotsTrailAlways`, `SweepsAreThorough`, `ExpiredOnlyOverdue` | the safety invariants of the run `repo` |
| `RepoImplementsFSM` | `Spec => FSM!Spec` under the mapping `state[s] = row[s].state` |

None of the three safety invariants is inductive alone. `SnapshotsTrail` needs
that an uncreated row is at version 0 (`UncreatedIsZero`), else creation could
bring a row to a version somebody holds a copy of; `ExpiredIsOverdue` needs
that sweeps hold overdue sessions only (`SweepsOverdueOnly`), because the
sweep acts on a list that may be old; `SweepIsThorough` needs `SnapshotsTrail`
to know that a copy that no longer matches is older, not newer. `IInv` is
their conjunction with `TypeOK`. The step of the proof is organised around two
facts: what any step does to one row (`RowStep`: nothing, creation, or a legal
move from the row's *own* state; here `SnapshotsTrail` turns the check of the
caller's `from` into a check of the row) and where a held copy comes from
(`HeldStep`). The refinement follows from `RowStep` and `OneRowAtATime`.

`WebSocket_proofs` proves the three safety invariants of the run `websocket` and
`WebTypesAreKept`, for any connections, sessions, capacity and limits, from
`BroadcasterAssumption` and `LimiterAssumption` (a process serves finitely many
requests, without which they could not be counted). Three inductive invariants
divide the work, because no part of the state belongs to more than one argument:

- *Channels* (`ChannelSafety`: `Spec => []NeverSendsOnClosed`). `ChannelInv` says that a
  closed channel belongs to a handler that has cancelled and is subscribed to
  nothing, that a channel is registered under its own session only, that
  without the mutex held nothing is to do, and that what is to do is
  registered. Cancelling therefore finds nothing to do (it holds the mutex), and
  `Publish` collects no closed channel.
- *Limiter* (`LimitIsKept`: `Spec => []AdmittedWithinLimit`). `LimiterInv` says of each life
  of a counter, which `Expiry` and `Drop` end, that those who were counted in it and are let in or about
  to be (`Holding`) are within the limit, and no more than the counter while it lives
  (`Holders`); that a counter's expiry lies after its minute, so that it is in its first life as long as the
  minute lasts (`Counter`), and whoever holds a place in a later life was counted late
  (`Lives`). Nobody who passes is left out: the late ones are bounded life by life. The rest is counting
  with the library's theorems on cardinality, for which no counter is more than the requests that were
  counted in it (`Counted`).
- *Offers* (`NothingElseIsMissed`: `Spec => []MissesOnlyWhenFull`). `OfferInv` relates what
  a client took, what waits in its channel and what was offered: the first two
  together grow (`Growing`) and hold only what was offered (`Known`), no more than `Capacity`
  waits, and of each message that is not among them at least `Capacity` earlier ones were in the channel,
  offered and not taken, when it was dropped (`Missed`, by `seen`). Taking a message moves the
  head of the one to the end of the other and changes nothing of that
  (`MoveHead`); a message that is kept is larger than all others and changes nothing of what waited before
  others (`AcceptedOffer`); one that is dropped finds `Capacity` waiting (`DroppedOffer`).

`Retrieval_proofs` proves the properties of `Chunker` and `Retrieval`. `TextIsCovered`,
`ChunksAlwaysFit` and `ChunksAreNew` say that
`CoversText`, `ChunksFit` and `EachChunkIsNew` hold for texts of every length and
every configuration, from `ChunkerAssumption` (lengths are natural
numbers, sizes and overlaps integers). `CoversText` says exactly which characters are lost:
none, or with a negative overlap those stepped over. None of the three is inductive: they need `Position`,
that a loop that goes on stands one step behind the start of a last chunk of full size that ends
inside the text, `Behind`, that all that was stepped over lies before that place, and `ReachesEnd`.
`StepBounds` (a step is at least 1, and at most the size unless the overlap is negative)
says that the next chunk starts within what is covered, or right behind what is stepped over, and ends beyond it.
That the loop ends is not proved; `start` grows by at least 1 in every turn.

From `RetrievalAssumption`, `NothingBetterIsLeftOut`
needs that a set of candidates that is not everything has at least `topK` members
(`Candidates`), and that the blend and the reranker's score cannot both prefer
what is worse by both scores; `PassagesAreFound` needs `PassagesAreWhole`, that
every short passage in what was cut so far is inside one chunk, which is where
`EachChunkIsNew`'s overlap is used, and `BestIsFirst`.

`Conversation_proofs` proves all five properties of the run `conversation` that are
about replies, and that `Conversation` implements `FSM!Spec` and `Promise!Spec`, for any sessions,
requests, tiers and attempts, from `ConversationAssumption`. `IInv` adds to the
properties: `Authors` (a message is in its author's session, and the author of a
reply is over), `Snapshot` (a request's copy is the row or older, so that a
version that stands means a state that stands: the escalation moves from the
*real* state), `Asking` and `Attempting` (an attempt past `GetByJobID` has no reply before it, a
question is a turn that is not older than the author's, one that returned nil leaves
a reply or a terminal session, and one that began on a terminal session does not get past the guard).
`OneReplyPerTurn` is not inductive because a request's and an attempt's place in
the code must exclude a reply that is there; `AcknowledgedMeansHandled` because rows move on
after an escalation, and because of `Escalations`: who has escalated holds a copy older than the row,
so that nobody transitions from the same one again. Steps are sorted into those of others, of a request and of
an attempt, and one lemma each says all that such a step writes. The refinement of
`UserTurn` sorts them again by what a turn shows of them (`TurnStep`), counts replies with
the library's theorems on cardinality, and needs one more invariant, `Deciding`: `how` is
written when `Run` returns nil and not before, without which a turn could be a human's already when
it is answered. All of it is proved of `AnySpec`, the conversation whoever creates its
sessions and of whatever tier, which `Spec` implies.

`Telegram_proofs` begins with `TelegramIsAny`: every step of the webhook is one of `AnySpec`'s
or leaves the conversation alone, since a delivery is a request whose start the webhook chooses, and a
session that it or the web channel creates is one of some tier. `TelegramTurns`, `TelegramKeepsThePromise` and `TelegramImplementsFSM` follow at
once. The invariants of the run `telegram` need `Delivery`, what a delivery has at each place:
its user, a session that is the user's, and past `Run` a turn that is stored there. `AckedIsStored`
follows because 200 is reached with a stored turn only and nothing that is stored goes away or
changes hands (`Onward`); `RepliesAreOfTheSendersSession` because whoever wrote the latest
reply of a session ran on it and is either a delivery of the session's owner or a caller of the web API
(`AuthorHasSession`), whichever turn it answers. The chat plays no part in that, and need not: nothing is assumed of
`ChatOf`. The invariants of the conversation beneath are used, not proved again.

`AgentJobs_proofs` proves the four invariants and the action property of the run `tool`, from
`RiverAssumption`, `ToolAssumption` and `AgentAssumption`. `RepeatedOnlyInWindow` needs the
exact account `Log`: as long as a key is not audited its effects are those of
cut attempts and of attempts that are about to record (`Unrecorded`), and what a job
that found no record had seen is at most what was cut. `RowsReferToObjects`
(`ArtifactRowsAreAccountedFor`) needs `ObjectsInv`, that what is under the key of every job that ever stored
is what its `fate` says (`FateShows`), and `RowsInv`, that a row and an attempt at its insert are of a
job that stored. That two jobs share a key only if session and type agree is `KeysAreAlike`. `SessionsMoveLegally` needs
`CopiesTrail`, that a copy at its row's version shows the row: an UPDATE that finds the version it
names moves the session from the state the table was asked about.

`Worker_proofs` proves the six safety properties of the run `worker` and the
refinement, from the assumptions of `River`, `Ingestion` and `Worker`, for any number of documents,
jobs, texts, workers and faults. `WholeUnlessReplaced` (`TextsAreWholeUnlessReplaced`) is inductive: an insertion adds to one text
what the document has no number for (`PartsGrow`), which is nothing, or everything from where the numbers
end (`InsertKeepsWhole`). `ReadyIsIndexed` needs that an attempt that is about to mark its
document Ready has inserted (`Places`); `StuckOnlyIfCut` needs a job that is
responsible for every Processing document (`Holder`), at work on it or cut. `ReadyStays`
and `DocumentsLive` (`Spec => ImplementsLife`) need `Holds`: what an attempt past the guard may do to
its document the document's status still allows, unless it is contended. It is inductive because the
only step that can take that status away is one of another job of the document, and then both have started
(`JobHolds`). For the refinement a job's steps are sorted by what they do to the tables
(`JobStatus`): one of three marks, an insertion of chunks, or nothing, in which case a second job may have begun.

`GraphEngine_proofs` proves the four invariants of the run `graph`, from
`GraphAssumption`, for every graph, every limit and every way in which ids may make
keys. `WithinLimit` needs `CountedForPair`, that an edge was not followed back
more often than its key was counted, and `PathIsWalk` needs where `Execute` is (`AtNode`).

## 6. Only model-checked

Liveness (`ActiveExpiresUnlessBlocked`, `GoneIsReleased`, `Terminates`,
`EveryJobEnds`), which the prover does not reach. Every other property of a passing run
is stated by a theorem of section 5.

## 7. Abstractions

- Tenants are left out: every query names the tenant, and tenants are disjoint
  copies of the state modelled here.
- `messages` is kept in the order of commits. The code orders by `created_at`
  alone, whose values may be equal or out of commit order for concurrent
  inserts. A handler reads only after its own message is stored, so that the
  difference is which of two overlapping turns counts as the last.
- A chat is what an update names, of any kind; who may read there is not modelled. The property says
  whose session a reply comes from and no more: that session may hold turns its user wrote in other chats, and
  turns that a caller of the web API ran on it.
- A turn of the web API names any session; the check of the caller's token
  is a stateless one, and neither it nor the handler compares the session's owner.
- The text of messages, prompts, answers and documents is not modelled; a
  model call either answers, asks for a human, or fails.
- River's unique jobs, priorities and schedules are not used by the code. Its
  job timeout is a cut attempt. Two attempts of one job do not overlap; River
  would start a second one only for a job whose worker hangs past the rescue
  interval.
- Scores of retrieval are integers and `alpha` is counted in parts of `Whole`; the
  code's are floating-point numbers, of which only the order matters here.
- Bounds inside the modules: `MaxVersion` (reactivations), `MaxMsgs` and `MaxMinute`
  (messages and minutes of the web channel), `Plans` and `Batches` (which jobs are queued and how many faults
  come), `MaxScored` (chunks of a query). `MaxAttempts`, `MaxWorkers`, `Capacity`,
  `Limit`, `MinCandidates` and `EmbedBatchSize` are the code's or River's own
  parameters.

## 8. Not modelled

Scrubbing of personal data (a matter of what a text says), prompt and model
lookup, the built-in graph nodes (stubs that pass their input on),
authentication and request middleware, the message history handler, listing and
presigning of artifacts (reads), tenant context, database pool, cache, metrics:
they keep no state that another component's correctness depends on, or are pure
I/O. `main` of the API server is wiring; at its exit it waits 5 seconds for
requests, and one that is cut is a `Fail` of `Conversation`. Migrations run at
start-up, before anything modelled here; of two processes that start together on an
old schema one may fail and is started again. `PROJECT.json` has the reason for each.

## 9. Plan

1. Done: sessions, conversation, Telegram with users, WebSocket with broadcaster
   and rate limiter, tools and artifacts on one queue, graph, ingestion in its
   process, chunker and retrieval; the proofs of section 5.
2. Done: every safety property of the runs is proved, and the abstract specifications of
   sessions, turns and documents are implemented by proof.
3. A further abstract specification: a once-only effect log, implemented by `ToolJob`
   with its known windows.
4. Extend: the token budget of `ListForSession` as a function over message
   sequences, the fallback of the model router.
