# A verification development for InkFlow

InkFlow is a Go server (with a desktop build) in which members of an organization write official
documents with the help of language models: they import knowledge documents, let a *writing run*
retrieve evidence, compose a text and commit it as a version, chat with an assistant, and may run
the models on the server, at a remote service or in their own browser.

This directory holds TLA+ models of the parts of the server where goroutines, requests, stores and
connections interleave, TLC configurations that check them on small instances, and TLAPS proofs
about some of them. Line numbers refer to the repository's files.

InkFlow's own implementation is Go. The C and C++ in the repository, by far most of its lines, is
llama.cpp and other vendored code, which this development does not model; a count of the mapped lines
of C and C++ is therefore zero and says nothing of the Go that is mapped.

`PROJECT.json` is the index: the components, the runs, which source lines each definition stands
for (`map`), a plausible bug for each property that makes the property fail (`mutants`), the
disagreements found (`findings`), the hazards and the theorems.

## 1. Inventory

What is modelled, in the order of a request's way through the system.

| Component | State | Operations | Hard behaviour | What makes it correct |
|---|---|---|---|---|
| Fair queue, `utils/fairness/queue.go` | one FIFO per user, a ring of users, flags, a counter | EnqueueJob, Dequeue, Pending | three structures that must agree; starvation | the ring is the set of waiting users, the counter exact, rounds are fair |
| Tool dispatcher, `utils/toolchain/executor/dispatcher.go` | the draining flag, a channel per call, the singleflight group; shares queue, pool, cache, limiter | Execute, loadOrStore, enqueueAndWait, startDraining, drain, job.Run | lost wakeups, cancelled callers, a pool released at shutdown, stale results | every call returns, each job runs at most once, caches are invalidated |
| Tool result cache, `utils/cache/cache.go` | entries with an age | Get, Set, Clear, expiry, eviction | a Set after a Clear | a result older than a mutation is not served after it |
| Writing run, `service/officialdoc/writing_run.go`, `utils/taskrun/controller.go` | the row of the run (status, checkpoint), its evidence, the registry of goroutines in this process | Start, Pause, Resume, Get/List/Events (with the orphan check), the executor's stages | crash between two statements, pause against completion, two executors of one run | the checkpoint is backed by the data, a run settles, a version is committed once |
| Writing task and versions, `service/officialdoc/writing_task.go` | the versions of a task, its status | persistVersion, SaveVersion | versions by hand beside versions of a run | each version of a run rests on a body and evidence |
| Tool orchestrator, `utils/toolchain/orchestrator` | the messages, the ledger of one run (successes, attempts, errors, budgets, query results) | RunWithTools: model decisions, batches of tool calls, retries, reuse, limits | a model that answers anything, tools that fail after an effect, a batch that stops half-way | budgets hold, no call stays open, what is reused is not stale, a run ends |
| Knowledge documents, `service/officialdoc/knowledge_*.go` | rows (document, chunks), vectors, source files | Import, Reprocess, IndexDocument, DeleteDocument, background processing | three stores without a common transaction; requests that end in the middle | ready means searchable; nothing is left behind |
| AI chat, `service/system/ai_chat*.go` | rows (conversation, messages, turn memories), vectors | SendMessage and StreamMessage, the recall that fills in old memories, DeleteConversation | turns of one conversation at once, deletion under a turn, failing indexing | a memory pairs an answer with its question; nothing outlives the conversation |
| Vector store, `utils/vectorstore/usearch.go` | an index in memory and its file | Upsert, Delete, the reading of the file at a start | a batch that fails half-way, a restart | what was reported as indexed stays searchable |
| Memberships, `service/system/sys_membership.go`, `sys_tenant_application.go`, `utils/casbin/policy.go` | rows (memberships, applications), grouping policies of Casbin | AddMembership, AssignOrganization, ApplyToTenant, ReviewTenantApplication; at a start BootstrapOwner and EnsureBuiltinPolicies | the role kept twice without a common transaction; check and write in two statements | a member has the grant of the role and none of a role never held, the tenant keeps an owner, decisions and roles agree |
| Browser inference, `utils/websocket/broker.go`, `utils/inference/frontend*.go` | a broker per browser (connection, pending requests), the registry, one lock for all calls | Register, Request, waitConn, the retries of Embedding and Rerank | replacement, disconnection, timeout and answer at the same time | no request is forgotten or answered twice, every call returns |

Not modelled (`components` gives the sources and the reason of each):

- sign-in, MFA and sessions: single statements on single rows, except the failed-login counter
  (`auth_security.go:331`, read, increased and written without a lock, so that two failures at once count
  as one); a protocol of that kind wants a threat model, which is not the subject here;
- ranking, merging and selection of search results in the writing evidence search, document difference,
  quality and governance: pure functions on data and text;
- within modelled components: titles, skills, attachments and the MCP loop of a chat turn; embedded
  images and search of documents; creation and settings of tenants, organizations and roles; the search,
  the rebuild and the pgvector variant of the vector store;
- local inference, parsers, OCR, exports, object storage, the secure store, model clients, MCP client,
  HTTP layer, start-up and web client: calls of external code, formats and wiring;
- llama.cpp and the other vendored engines.

How the components interact: an API handler starts a writing run; its goroutine (registered in the
`taskrun` controller) runs one orchestrator loop per stage; the orchestrator calls tools through a
dispatcher made for that stage; all dispatchers share the process's queue, pool, limiter and cache;
a tool may search knowledge (vectors and rows) and ask for an embedding, which may be a request to
the user's browser through a broker. A chat turn calls the model and then embeds and indexes its memory in
the same vector store. Every request is admitted by the grants of its user's membership.

## 2. Modules

| Module | Models | Notes |
|---|---|---|
| `RoundRobin` | the promise of `queue.go:20-22` | abstract: who waits with which jobs and who was served since; no ring, no counter |
| `FairQueue` | `queue.go` | one operator per method; each runs under the queue's mutex and is one step |
| `FairQueueRounds` | the queue with its callers | adds history (`passed`, `served`); refines `RoundRobin` |
| `FairQueueProofs` | | the theorems of section 5 |
| `ToolCalls` | what `dispatcher.go:73-192` promises its callers | abstract: whose result an answer is and how old it may be; no queue, drains, pool, cache or flights |
| `Dispatcher` | `dispatcher.go`, `cache.go`, the release of the pool in `bootstrap.go` | INSTANCEs `FairQueue` with the calls as jobs; refines `ToolCalls` |
| `DispatcherProofs` | | the theorems of section 5 |
| `WritingWorkflow` | the row of a run and the versions of its task, as their readers see them | abstract: three steps, each once and in order, and evidence that is added to until the body is there; no goroutines, requests, controller, crashes |
| `WritingRun` | `writing_run.go`, `controller.go`, the search of `writing_knowledge_search.go`, the version parts of `writing_task.go` | executor goroutines and requests, one statement a step; refines `WritingWorkflow` for patient users |
| `WritingRunProofs` | | the theorems of section 5 |
| `ToolBudget` | the limits in `registry.go:67-82`, `orchestrator.go:109-122` | abstract: how often each tool may run and succeed, and what an answer requires; no rounds, batches, messages |
| `Orchestrator` | `orchestrator.go`, `tools.go`, `model.go`, `policy.go` | one run; refines `ToolBudget` |
| `OrchestratorProofs` | | the theorems of section 5 |
| `KnowledgeDocument` | `knowledge_document.go`, `knowledge_search.go`, `knowledge_storage.go` | one content of one organization over three stores |
| `KnowledgeProofs` | | the theorems of section 5 |
| `VectorIndex` | `usearch.go`, the start in `initialize/usearch.go` | actions on two variables, conjoined by the modules that extend it |
| `ChatMemory` | `ai_chat.go`, `ai_chat_stream.go`, `ai_chat_memory.go` | EXTENDS `VectorIndex`; one conversation |
| `ChatMemoryProofs` | | the theorems of section 5 |
| `Memberships` | `sys_membership.go`, `sys_tenant_application.go`, `policy.go` of Casbin, `BootstrapOwner` in `sys_tenant.go` | one tenant |
| `MembershipsProofs` | | the theorems of section 5 |
| `FrontendInference` | `broker.go`, `frontend_clients.go`, `frontend.go` | calls, reading goroutines, browsers |
| `FrontendProofs` | | the theorems of section 5 |
| `MC*` | | the instances for TLC |

### Grain

A critical section of a mutex, a statement or transaction of the database, a call of a store, a
read or write of a socket, a send or receive on a channel is one step; between two steps of a
process anything else may happen. A goroutine's `pc` is named after what it does next. A statement
on a cancelled context is taken to fail before it has an effect, or to succeed and have it; a
statement in flight when the context ends is the one or the other.

### State and code

- **FairQueue.** `queues`, `readyUsers`, `inReady`, `pendingCount` are the fields of `Queue`; the
  maps are total, so a deleted key is an empty sequence or FALSE. The loop in `Dequeue` is the
  choice of the first position in the ring that has a job (`StopsAt`). `normalizeUserName` is a
  trim followed by the anonymous name for a blank one.
- **Dispatcher.** `caller[c]` is the goroutine in `Execute`: cache lookup, singleflight, second lookup, enqueue,
  start a drain, wait for the channel (`done`) or the context, store, leave the flight. `drain[g]` is a `go
  drain()`; its deferred function is `DrainExit` (under `schedulerMu`) and `DrainRearm` (its last call, outside
  it). `worker[c]` is the closure on the pool. `version` and `seen` stand for the data a tool reads or changes.
  `before` and `open` are history: the mutations that had returned when a call was made, and the calls that were
  under way when a mutation had cleared the cache. Rate limiting is part of `RunChecks`, which may fail for a
  call whose context may end (its deadline may be nearer than the next token). `Conclude` fails a query whose
  result does not encode as JSON. Expiry and eviction are one action that may drop any entry at any time. For
  `ToolCalls` a call is asked for once `caller` has left idle, is answered when it has returned, and its handler
  stands at a `Stage` of `worker`.
- **WritingRun.** `run` is the row, `versions` the versions of its task, `registered` the entry of the
  controller, `exec[e]` the goroutine of the e-th launch, `req[r]` a request. The model decides
  freely how often a stage calls its tool and how it ends. The work in a tool that changes nothing
  (prompts, searches of the first stage) is between two steps; the messages and traces, an audit log, are
  left out. `composeDocument` runs an orchestrator of its own, whose `knowledge.search` is not read-only:
  it looks at the run's step and searches (`SearchMore`), and adds what it found to the evidence in a
  transaction of its own (`FreezeEvidence`, `writing_knowledge_search.go:255-329`), which stays whatever
  becomes of the body. That orchestrator has no Executor option and so calls its tools directly, past the
  queue, pool and limiter that `README.md:202` says every tool call goes through. `evidence` counts the
  times rows were written; `met` is history: the goroutines that have lived beside another one.
- **KnowledgeDocument.** `doc` is the row with the content (the unique index admits one, deleted or
  not), `chunks` the live chunk rows by the batch that made them, `vectors` the batches in the
  vector store, `objects` the source files by the import that uploaded them. Embedded images,
  progress and reasons are left out. A statement of a goroutine may fail (`ProcessGivesUp`): when that
  loads or marks the document the goroutine ends, and any other leads to the mark.
- **Orchestrator.** `pc` is where the run is: asking the model, handling the calls of its answer
  (`batch`, of which `handled` are passed), running a tool, waiting to retry it. `answers` counts the
  result messages of each call since the messages were last rebuilt. `succeeded` is
  `SuccessfulCalls` and also the traces with status ok, which agree for registered tools. The later
  calls of a batch are chosen when their turn comes: nothing looks at them before. `RequiredAll` and
  `RequiredCounts` are `config.need`. `data`, `mutationRuns`, `failedWithEffect`, `staleReuse` are
  history: what the tools' executions did. A call of the model or of a tool is one step; its context is
  the run's. A result that is a `TerminalResult` (no handler returns one) and the "context.compress"
  trace, which no completion policy names, are left out.
- **ChatMemory.** A message is its turn and role, a memory is named by the pair and by who made it, since
  row ids are never used again; `pc[r]` is the next statement of a request. `FillIn` is one
  INSERT that passes over answers that have a row and fails on a question that has one (the two
  unique indexes, `model/system/ai_chat.go:46-47`). `met`, `overlapped`, `answered`, `unsaved`,
  `unindexed`, `unclean` are history.
- **VectorIndex.** `vectors` is the index in memory, `saved` the file. `saveIndex` writes the whole
  index; a failed batch may have done part of its work and saves nothing; a Save is taken to be whole or
  not at all.
- **Memberships.** `role[u]` is the role of the row, `NoRole` for RoleID 0, `NoRow` for none; `grants[u]`
  the grouping policies. The enforcer's memory and its table change together. `Restart` is the end of
  the process and its next start, which makes the configured account an owner again (`BootstrapOwner`,
  `sys_tenant.go:204-254`) and grants every member's role (`EnsureBuiltinPolicies`, `policy.go:187-219`).
  `previous` is the record a save has read, and after `WriteRow` the record it has written: GORM's
  `Updates` with a map assigns the values to the struct it is given. `overlapped`, `held`, `broken`,
  `admitted`, `contested` are history.
- **FrontendInference.** `conn`, `ready`, `pending` are the fields of each `Broker`; `ready` is the
  number of the open ready channel (closing it and making a new one adds one). `sock[w]` is a
  connection with its reading goroutine, `chan[c]` the one-place channel of a request. A request id
  is the call and its retry number; in the code it is random. Pings, pongs and read deadlines
  are the ways a connection comes to fail. `late` records, for one property only, that
  a request entered `pending` after its connection was replaced.

## 3. Runs

Each run's properties are stated in its module with a comment that says what they mean.

| Run | Instance | What it shows |
|---|---|---|
| `fair_queue` | 3 users by 4 spellings, 2 jobs, 2 waiting per user | ring and counter exact, refinement of `RoundRobin`, every waiter is served |
| `dispatcher_one` | 2 identical queries and a mutation, a context that may end, a result that may not encode, expiry, release of the pool at any moment, 2 workers | refinement of `ToolCalls`: each answer is the result of the call's own handler or of a query of its key, as new as the mutations that had returned before, or has overlapped them; every error has a cause. One load per key; what is cached is stale only if its call was under way at the mutation's `Clear` |
| `dispatcher_shared` | 2 dispatchers over one queue, 3 calls, 1 worker, a context that may end, release of the pool at any moment | no job waits without a drain, none is lost or doubled, every call returns, that of a refused job too |
| `orchestrator` | 4 tools (a cached query with limits, a mutation with a retry, an LLM tool that runs once, a terminal mutation), 3 completion policies, 3 rounds, 2 calls a batch, a context that may be cancelled | refinement of `ToolBudget`, every call answered, no stale reuse but after a failed mutation with effect, the run ends |
| `writing_faults` | start, pause, resume, 2 launches, 2 calls of the tool per stage, searches that add evidence, a crash, statements that fail; executors one after the other | refinement of `WritingWorkflow`; the checkpoint is backed |
| `writing_overlap` | start and resume at any time: two executors at once, and a version by hand | each version of the run has a body and evidence all the same; `Active` names the goroutine that lives, unless it ran beside another |
| `writing_live` | a launch, a pause, a crash, a poller | a busy run settles; a launch commits one version at most |
| `frontend` | a browser that connects twice, one call of it and one background call, a context that may end, 1 retry | no send blocks, `pending` holds what is waited for and nothing else (`RequestHasItsPlace`); no missed connection; every call returns |
| `knowledge` | 3 imports of one file, a Reprocess, a re-index, a deletion, 3 goroutines, a crash, requests that end anywhere, a rollback or a goroutine's statement that fails | ready means searchable, no vector or chunk without its owner, no file without one; processing ends but after a crash or a failed load or mark |
| `chat` | 3 turns, 2 deletions, 2 requests at once, a restart, failures anywhere | pairs of memories, which turns are remembered, the index against its file, what a deletion leaves |
| `memberships` | an owner and an applicant; a promotion, a demotion, an assignment, 2 applications, an approval, a rejection, a restart, failures anywhere | a member is granted the role of the row and none it never held, an owner stays, a rejected applicant was not admitted |
| `writing_replay` | the smallest instance | a violation, section 6 |

Several properties name their exceptions ("unless two saves overlapped", "unless the
failed mutation had an effect"). Each exception is needed: without it TLC finds the property
violated, and section 6 tells what happens.

Why the bounds are enough. In the queue, two jobs of one user and a third user are what it takes for a
user to be served twice, to stay in the ring or leave it, and to be overtaken; names enter only through
the trim. In the dispatcher the conflicts are pairwise: two identical queries (leader and follower), a
query and a mutation, two drains, a job and a full pool, an enqueue and a drain that ends. An instance of
three queries of one key and a mutation, without cancellation and shutdown, was explored once (305,000
states with symmetry, no error): it is the smallest in which a call may follow a flight that is older than
a mutation which had returned before the call. In the run a conflict is between two executors, or an
executor and a request; two tool calls per stage cover a repeated call after an error; one crash and one
pause lie anywhere. In the broker a third connection or second browser adds no kind of conflict; that
instance (9.4 million states) was explored once for the invariants, too long for a run. For documents,
three imports are one that makes the row and, when it has been deleted, two that want to replace it; a
second deletion (a retry) was explored with two imports (200,000 states, no error). In the orchestrator
every counter meets its limit with limits of one or two, and one tool of each kind with each option meets
every check. In a chat, two turns cross in the messages and a third finds what they left, and two
deletions are a deletion and its retry. Of the members, every conflict is between two requests: each pair
of kinds occurs, on one user or on the last two owners.

Bounds are constants with names: `MaxWaiting`, `Drains`, `Cancellable` (the calls whose context may be cancelled
or pass its deadline), `Unencodable`, `Expires`, `ShutsDown`, `MaxLaunches`, `MaxCalls`, `MaxEvidence`,
`MaxCrashes`, `MaxManual`, `DbFails`, `MaxRetries`, `MaxProcs`, `MaxCut` (requests and goroutines that stop
half-way because a statement fails), `MaxOpen`, `MaxBatch`; `MaxTries` is an upper bound of the executions of
one call of a mutation, assumed to be above the retries of every mutation tool. Limits of the code that are
smaller here: `MaxRetries` of the browser calls (5), `MaxEvidence` (40 rows), `MaxInvalid` and `MaxRecoverable`
(5 each), and the budgets of a run (defaults 6, 2, 2, 1, 2).

`Patient` is not a bound but an assumption on the users, and two models have it. In `WritingRun`
a run is resumed only when nothing else starts it and its last executor has ended; runs without it
are `writing_overlap` and `writing_live`. In `KnowledgeDocument` one Reprocess,
IndexDocument or DeleteDocument runs at a time, and a re-index only while nothing is processed.
What happens otherwise is in section 6.

Deadlock is not checked except in `fair_queue`: the calls, requests and documents of the other
instances come to their ends, which is what the liveness properties say.

## 4. Fairness

Weak fairness of each goroutine's own steps, and of nothing the environment does: no browser has to
connect, no user has to press a button, no context has to end, nothing has to fail.

- queue: some scheduler goes on calling Dequeue while jobs wait, which is what the drain
  loop does (`dispatcher.go:206-226`) and what `SomeoneWillDrain` shows of the dispatcher;
- dispatcher: goroutines run, a handler ends (its client has timeouts), the limiter hands out tokens.
  `EveryCallReturns` says that a moment comes when no call is under way, with the pool released or not;
- writing run: goroutines run and the calls they make have timeouts; for `Settles`, the page that
  shows the run keeps polling (`api/v1/officialdoc/writing_run.go:91-124`), since after a crash only a
  reader finds the orphan;
- browser inference: goroutines run, the timers of `waitConn` and `Request` fire. No strong
  fairness: `frontendRequestMu` is requested once per call, so a call that waits for the lock gets
  it when the others have ended;
- documents: goroutines run and their calls have timeouts; requests may stop at any step and need not go on;
- orchestrator: the goroutine of a run goes on (`WF_vars(RunStep)`): calls of the model and of tools have
  timeouts. Nobody has to cancel;
- chat and memberships state no liveness: a request may fail anywhere, and nothing but a new request repeats it.

## 5. Proofs

`FairQueueProofs` proves, for any users, spellings, jobs and bound, from `FairQueueAssumption` only
(a blank name is no user, the anonymous name is one, the trim gives a user or the blank):

- `QueueTypes`: the types; `pendingCount` never falls below zero;
- `QueueBookkeeping`: the ring holds each waiting user once, and nobody else, and `pendingCount` is the
  number of waiting jobs;
- `RoundsAreOrdered`: whoever was served while u waits is behind u in the ring;
- `QueueKeepsPromise`: the queue implements `RoundRobin`.

The inductive invariant `IInv` is the conjunction of those properties with two facts that none of them
has: the set of waiting positions is finite (cardinalities of infinite sets mean nothing), and
`IdleIsUnpassed`: a user who does not wait has seen nobody served. Without the latter a user who joins
the end of the ring might carry a user in `passed` who stands before it. The argument: under the ring
invariant `Dequeue` takes the head of the ring (`DequeueServesHead`; the skip of users without
jobs in `queue.go:70-73` is dead code), an entry leaves or goes to the end, so positions of the
others keep their order; `WaitingGrows` and `WaitingShrinks` count one position per operation; a
`Dequeue` that finds nothing changes nothing (`NothingIsStutter`). `PassedAreBehind` is what makes the
abstract guard of `Serve` true: the head of the ring has been passed to nobody who waits.

The other proof modules have the same shape: one lemma for the initial states, lemmas that say what the
actions do to the variables (often one record of a function changes), lemmas that each part of
the invariant is kept, and one theorem for each property. Each starts from the assumption on the
constants of its model and nothing else; where `Patient` is needed, the theorem says so.

`DispatcherProofs` (any calls, users, keys, dispatchers and workers): `DispatcherTypes`, `NoLostWakeup`,
`NeverLostNorTwice`, `OneLoadOfAKey`, `StaleByOverlapOnly`, `ErrorsHaveCauses`,
`DispatcherKeepsItsPromise`. The counter of the queue is exact (`CountIsExact`, for an empty queue is what
ends a drain); a flag that is up has a drain behind it that will look at the queue again (`FlagHasDrain`),
so a caller that finds it up may leave; a closure is queued once, held by one drain, or with the pool
(`QueuedOnce`, `HeldOnce`, `OnePlace`); a flight holds its key until it leaves (`FlightIsHeld`); outcomes
have causes (`OutcomeFollows`); and what is cached, or may still be stored, is older than a mutation that
has cleared the cache only if its call was under way then (`LoadsAreFresh`). The refinement of `ToolCalls`
needs three facts more: what a call returns, or is about to hand to its flight, is the result of its own
handler or of a query of its key (`AnswersAreResults`); that result may grow old while the flight is open,
but then the call that leads the flight was under way when the mutation cleared the cache
(`FlightsAreFresh`); and a mutation that has returned success has cleared it (`BeforeHasCleared`). Most
steps are stutters (`UnseenStep`); `Execute` is `Ask`, and with a cached result its answer too; the
answers of a flight are one `Return` of all who share it.

`WritingRunProofs` (any requests, launches, crashes): `WritingRunTypes`, `VersionsGrounded` and
`ActiveTellsTheTruth` for all users; `CheckpointsBacked`, `CheckpointsAdvance`, `LaunchCommitsOnce`,
`RunImplementsWorkflow` for patient ones. `VersionsGrounded` holds however many executors overlap because
whoever has reached a step, in the row or in its memory, finds what the step rests on in the row, which only
grows (`StepsRest`, `CommitsAreGrounded`). `ActiveTellsTheTruth` excludes no interleaving: executors that live
at once have met (`Companions`), so that the `Clear` of one takes away its own entry, that of one it has met, or
nothing. The others rest on `OneExecutor`: a launch begins only when no goroutine lives, and from its
registration to its end the controller names it; then the executor knows the row's step and body (`OnStep`) and
the row points at a version exactly when it is completed (`CompletedIsBacked`). `LaunchCommitsOnce` is for
patient users and a database that does not fail: a launch that has committed has still to mark the run, has
marked it, was cancelled, or has ended (`CommitIsLast`), and none of these gets to commit again.
`RunImplementsWorkflow` maps the row and the versions to themselves: what the executor holds in memory at each
stage is what the row holds (`WorkerKnows`), evidence is added only while the row stands at the composition, so
each of its writes is the one step of `WritingWorkflow` at the row's present step, and every other statement
moves the status at most (`ReportsAre`).

`OrchestratorProofs` (any tools, limits and configurations): `OrchestratorTypes`, which has the limits of
each counter, `CallsAreAnswered`, `ReusedIsFresh`, `RunKeepsBudget`. The loop answers the calls of a batch
from the first to the last (`AnswersFollow`), a tool that runs has its place in the budget (`HasPlace`),
and the ledger's count of mutations is the version of the data until one fails with an effect
(`VersionsAgree`). `RunKeepsBudget` is the refinement of `ToolBudget`: a tool that was admitted has not
succeeded since (`StaysFresh`), and the executions of mutations so far, with those the running call may
still make, are paid by the calls that were charged, `MaxTries` each (`RunsAreCharged`). The budgets of
kinds are counters of the ledger, so no sum over the tools has to be taken.

`KnowledgeProofs` (any requests, goroutines, crashes; patient users): `KnowledgeTypes`, `ReadyStaysSearchable`,
`NothingStaysBehind`. Of the goroutines and the requests that change a document one at most is at work, on the
live row (`OneWorks`, `WorkIsOnTheRow`): Reprocess and DeleteDocument refuse a document that is processed, and
patience excludes the rest. Imports overlap freely; they are kept apart by the ids, since an import has seen no
live row and ids are not used again (`ImportsSawNoLiveRow`). What a worker knows of the three stores
at each stage is `WorkFollowsData`; the chunks are of one parse of the live row and each vector has its chunk
(`DataIsTheRows`).

`ChatMemoryProofs` (any turns, deletions, restarts): `ChatTypes`, `AnswersKeepQuestions`, `AnswersAreRemembered`,
`IndexedStaysSearchable`, `DeletionsAreClean`. Turns that were under way together have met, and so has
whoever asked between a question and its answer (`OpenHaveMet`, `LastHasMet`, `PairsHaveMet`); a row is made once and
what a deletion took away does not come back (`RowsAreMade`, `DeletedIsGone`); a deletion without overlap holds
all there is to delete (`DeletionIsAlone`); an index without failed batches is as its file (`FileFollows`).

`MembershipsProofs` (any users, roles, requests, restarts): `MembershipTypes`, `OwnerRemains`, `GrantsCoverRoles`,
`RejectedStaysOut`. Without an overlap a save is alone (`SavesAreAlone`) and leaves another owner when it takes an
owner's role (`OwnerStays`). Grants are of roles the row has had (`GrantsFollowRows`), and the role of the row is
granted, about to be granted by a save of that user, or missing after a save that was cut (`RolesAreGranted`);
that holds with overlaps, since a `Grant` takes no other role away. Of an uncontested application one review at a
time decides (`ReviewIsAlone`).

`FrontendProofs` (any browsers, connections, calls, retries): `FrontendTypes`, `RequestsKeepTheirPlace`,
`ConnectionsAreNotMissed`. A request is pending or in the hands of one reader, never both nor twice (`HeldOnce`), only
after it was written and only for its retry (`HeldIsWritten`, `HeldIsPast`), and until it is answered its
channel is empty (`ChannelIsEmpty`, `IdleChannelsAreEmpty`), so that the one send never blocks. For these
parts the steps of the code fall into eight kinds (`RequestStep`): those that leave requests alone, and a
request that enters `pending`, is sent, returns, fails, is taken by a reader, or is delivered.

Only model-checked: the liveness properties (`EveryWaiterIsServed`, `EveryCallReturns`, `Settles`,
`ProcessingEnds` and the like), out of the prover's reach as are ENABLED and induction over data. Every
invariant and every refinement that a passing run checks is a theorem.

## 6. What the checks found

`writing_replay` ends in a violation, and `findings` quotes the line that says otherwise:
`writing_run.go:531-532` says a resume never replays a completed tool. The commit
is a transaction and then another statement (`writing_run.go:467, 472`); a pause between
them and a resume commit a second version of the same body.

Seen in the models, each as an exception a property names, or by a run of the model without its `Patient`:

Writing runs and documents
- `controller.go:46` says `Active` reports a live goroutine. A run that is paused or
  pause-requested can be resumed while its executor is still ending; the old executor's deferred `Clear`
  deletes the new one's entry, so that the new one cannot be cancelled and is taken for an orphan.
- `pauseOrphanedRun` is said to convert runs left behind by a restart. It decides from
  a status read earlier and writes without a condition: a poll can turn completed into paused.
- `knowledge_search.go:177-179` says a failed deletion leaves the document with
  delete_failed. The mark is written on the request's context: when that has ended, the document
  keeps its status without its source.
- Two Reprocess requests at once both pass the status check and both start a goroutine: the chunks are saved
  twice. A re-index that overlaps a deletion or a Reprocess puts vectors back. `Patient` excludes both.
- A Reprocess or deletion that stops after it removed the vectors leaves a ready document that
  cannot be found until it is indexed again (`ReadyIsSearchable` names the exception).
- After a restart a document stays in processing for ever: nothing resumes it, and Reprocess,
  IndexDocument and DeleteDocument refuse it. The same follows without a restart when the goroutine cannot
  load its document (`knowledge_document.go:228-230` returns without a mark) or cannot mark it (343-347).
  `ProcessingEnds` names the three exceptions.
- A failed deletion of the uploaded file in an import's rollback is only logged
  (`knowledge_storage.go:73-75`): the file stays without an owner (`SourceHasOwner` names the exception).

Dispatcher and orchestrator
- `draining` is per dispatcher (`dispatcher.go:46`) and each stage makes a dispatcher
  (`writing_run.go:191`) over the shared queue: two dispatchers drain at once. Nothing but the intent of
  the flag is lost: `dispatcher_shared` shows that each job still runs once.
- A query that read before a mutation may store its result after the mutation's `Clear`
  (`dispatcher.go:134`), and it is served until it expires. `StaleOnlyByOverlap` says this is the only way.
- A query made after a mutation has returned may still be answered with older data that is in no cache: it joins a
  flight whose leader looked its result up, or stored it, before the `Clear` and has not left yet
  (`dispatcher.go:126-136`). `Fresh` in `ToolCalls` names the exception (one of those who share the
  result was waiting when the mutation succeeded); without it the instance of four calls (section 3) violates
  the refinement.
- A mutation is charged once and runs again for each retry (`tools.go:133, 207`): the bound on its
  executions is the budget times the attempts of its tool.
- A mutation that reported an error is not counted as a new version of the data (`tools.go:249`): query results
  are reused although it may have changed something (`StaleReuseOnlyAfterFailure`).
- A terminal tool ends the run without a look at the completion requirement (`tools.go:192-199`); a
  tool with `RunOncePerRun` gives its first result again whatever has changed since.

Chat
- Two turns under way at once may leave the messages in the order question, question, answer, answer. A
  scan then pairs the second question with the first answer, although
  `model/system/ai_chat.go:37-41` says a memory does not separate an answer from its question. The other
  turn's own memory then meets the unique index and is never made.
- A turn whose memory failed is filled in by nothing once the conversation has another memory: older turns
  are only looked for when there is none (`ai_chat_memory.go:141`). Rows that were filled in get
  no embedding.
- A turn that ends after its conversation was deleted leaves messages, a memory and a vector
  (`ai_chat_stream.go:243-270` does not look at the conversation).
- A deletion whose vectors failed cannot be repeated, since the conversation is no longer found, and
  a `Delete` that finds nothing saves nothing (`usearch.go:192`): vectors removed by an unsaved batch
  return at the next start.

Memberships
- A change of role takes no grant away. `ReplaceMembershipRole` removes the policy of the previous role
  (`policy.go:143-155`), but `saveMembership` updates the row through the record it read
  (`Model(&previous).Updates`, `sys_membership.go:224-228`) and GORM assigns what it writes to that record; the
  previous role handed on (247-251) is therefore the new one, and nothing is removed. With "the grants of a
  settled member are exactly the role of the row" in place of `GrantsCoverRole`, TLC finds the two grants after a
  promotion and a demotion, with no overlap and no failure. `GrantsCoverRole` says what remains true.
- The count of owners and the write of a role are two statements (`sys_membership.go:206, 224`): two owners
  who are demoted at once leave the tenant without one.
- A save that ends between the row and Casbin leaves a member without the grant of the row's role until the
  next start, which adds the missing grants and takes none away (`policy.go:187-219`).
- A start makes the configured account an owner again, whatever role it had been given since.
- An approval that ends after the row was written leaves the application pending; it can then be
  rejected, and the applicant is a member.

Browser inference
- When the older of two connections of a browser returns, the browser is marked inactive although the
  newer one lives (`frontend_clients.go:97-101`); background calls then wait on the fallback broker.
- A request can enter `pending` after its connection was replaced (`broker.go:182-184`); it is
  then found by its timeout or by the next replacement or disconnection (`WaitIsAnswerable`).

## 7. Plan

Done, each with its runs and its proofs: the fair queue, the dispatcher over it, the writing run with
its versions, the tool orchestrator with its abstract budget, knowledge documents, chat with the vector
index, memberships, browser inference.

Abstract specifications with a proof that the code implements them: `RoundRobin` (queue), `ToolCalls`
(dispatcher), `ToolBudget` (orchestrator), `WritingWorkflow` (writing run).

Left, in this order:

1. an abstract specification of a browser call (asked, answered once by its browser or failed),
   implemented by `FrontendInference`;
2. documents without `Patient`: what remains true when Reprocess, re-index and deletion overlap;
3. the document difference against a reference definition over bounded texts.
