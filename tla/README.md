# A TLA+ model of Image-to-2api

Image-to-2api turns free image-generation web pages into an OpenAI-compatible
HTTP service. This directory holds TLA+ modules of the parts of the service
that carry its own state and concurrency, TLC configurations that check them on
small instances, and proofs that TLAPS checks for every value of the constants.
Paths below are relative to the repository (`src/`). Line numbers of every
definition are in `PROJECT.json` under `map`.

## 1. The system

The service is one Python process with one asyncio event loop; several such
processes may share a directory of SQLite files. A request is answered along
one of these paths:

```
 HTTP ─► request guard ─► dispatch ─┬─► TaskEngine ─► CountedQueue ─► workers ─► token pool ─► solver federation ─► solver service
  │                         │ ▲     │       │  ▲                        │
  │            idempotency ─┘ │     │       ▼  │ resume                 ├─► proxy pool ◄─ free proxies
  │              router / registry  │   task_queue (queue.db)           ▼
  │                                 ├─► providers (nanobanana: action ids, accounts ◄─ registration ◄─ mail sources)
  │                                 └─► edits: exits of the process ─► lock file, or lease (edit_leases)
  ├─► chat: streams over several attempts ─► usage records ─► reports
  ├─► SSE / WebSocket ◄─ task events                       ┌─► requests, dead letters, usage … (write buffer ─► SQLite)
  └─► gallery ◄─ cache                     all of the above┘
 beside them: housekeeping and alarms, memory of the agent, vectors of finished tasks, lifespan (start and stop)
```

| Component | State it keeps | Operations | What is hard | What makes it correct |
|---|---|---|---|---|
| generation engine (`api/worker/engine.py`, `dlq.py`) | queue, worker coroutines, `_processing`, `_workers` | submit, take, process, retry, finish, hard timeout, requeue, start, stop | a timeout or a cancellation at any await; two stores not written together; restart | no task is lost, one runner per task, results are kept, every task settles |
| counted queue, scaler, persistent queue (`worker/queue.py`, `scaler.py`, `db/queue_store.py`) | heap and counters, size of the pool, `task_queue` rows | put, get; grow, shrink; enqueue, mark, delete, list | counters that drift, a worker cancelled in a task, commits at once while the request rows wait in a buffer | what is queued survives a crash |
| batch loop (`worker/engine.py`) | batches of `_process` tasks | take, wait, look, mark | the rest of a batch runs on while its late ones are looked at | no outcome overwritten, no task of a batch left without an end |
| write buffer, shutdown (`db/core.py`, `lifespan.py`) | list of statements, lock | enqueue, flush by timer, reader or stop | a flush that fails or is cut off; a reader beside a flush under way; the order of the phases | an ordered log; a reader sees what was written before it |
| dispatch (`dispatch.py`, `dispatch_edit.py`) | idempotency keys, lanes and gate | look up, submit, claim, run, settle | a claim after the task exists; keys that expire; two waits in a row | one task per key, every started task settles |
| image edits (`dispatch_edit.py`, `db/lease_store.py`) | locks of the exits, lock file, or lease row and heartbeat | acquire, renew, release, cancel, attempts | expiry against a running job, system calls of two processes, a dead holder | one edit at a time upstream, nobody waits for ever |
| token pool (`worker/token_pool.py`) | two buffers, `need_event` | acquire with swap, prefetch, batch, expiry | buffers swapped under a waiter or a solve, lost wake-ups | a shortage is noticed |
| solver federation (`solver_guard.py`, `turnstile_client.py`) | circuit, cooldown, load of each node | select, record, failover | answers out of order, stale candidate lists | failover reaches a solver that works |
| solver service (`deploy/cf_solver/api_server.py`) | browser contexts, pool of pages, results | task, restart of the contexts, sweep | contexts closed under the tasks that use them, pages not given back | no dead page in the new pool, every task ends, capacity returns |
| router and registry (`adaptive_router.py`, `providers/registry.py`) | loads, circuits, health of the providers | choose, record, degrade, recover | loads raised twice and taken back once; failures from before a degradation | nobody looks idle who works; a degraded provider comes back |
| chat (`routes/chat.py`, `providers/tryingopen`) | attempt and blocks of a stream | stream or collect in two protocols | an attempt that breaks off after it has streamed | an answer with tools is one attempt's |
| downloads (`imagefree_client.py`) | pool of buffers | acquire, extend, release | more downloads than slots, downloads that break off | no image with pieces of another |
| action ids (`providers/action_sniffer.py`, `nanobanana.py`) | cache of ids, file, lock | sniff, forced refresh, keepalive | sniffs that overlap deployments | an id gives way to a later one only; the cache catches up |
| accounts (`account_pool/`, `registerer/`, `email_pool.py`, `email_sources/`) | rows with status and lease, one HTTP client, address book, cooldowns of sources | borrow, release, reclaim, heal, check in, register | a late release, a stale row, a client that several callers share, sources that fail | two users only after somebody freed the account; an address fails after every source |
| proxies (`proxy_pool.py`, `free_proxy_fetcher.py`, `proxy_tracer.py`) | entries with cooldowns and counts, traces | acquire, report, fetch, trace | entries dropped and found again while others use them | a proxy that can be asked is traced, unless more recent ones take the places |
| task events (`sse_events.py`, `ws_events.py`) | history and subscribers | publish, replay, subscribe, clear | events between replay and subscription | once, in order, and the end reaches a live stream |
| gallery cache (`cache.py`, `routes/admin/query.py`) | LRU with a time to live, its table | hit, miss, invalidate, purge, restore | an invalidation between query and put | a page that is behind goes |
| request guard (`request_guard.py`, `db/ip_blocklist_store.py`) | rules in a table and in memory, buckets, windows | check, sync page by page, write rules | rules written during a sync; two counts of the same requests | a standing rule is in memory after a sync; bursts are bounded |
| housekeeping (`bg_tasks.py`, `alerting.py`, `base64_store.py`) | items, counts of errors | clean, measure, tell | the step that fails skips the rest of the round | a later round makes up for it |
| agent memory, vectors (`agent/memory.py`, `vector/store.py`) | layers of the memory; rows and index | consolidate; search, write, index | statements of their own, a pass that breaks off | nothing condensed twice, no duplicate an original |
| usage and reports (`chat_usage.py`, `cost_forecast.py`) | records of calls | record, report | a report is several queries with writes between them | its parts agree |

The rest (authentication, routes that only translate, adapters of single web
sites, browsers, storage, metrics, front end, configuration) is `not_modelled`
in `PROJECT.json`, with its reason; section 7 says more. The hazards that follow
from the table are listed there too (`hazards`), each at the line where it bites
and with the properties that would catch it.

## 2. Modules

| Module | Models | Uses |
|---|---|---|
| `CountedQueue` | `worker/queue.py`: operators on a heap (a set of entries) and its counters | — |
| `TaskEngine` | the engine, the scaler, both stores and the write buffer as one step, crash and restart | `CountedQueue` |
| `BatchWorker` | the batch loop and its processes | — |
| `EditLease` | edit jobs of several processes, the lease, the heartbeat, time | — |
| `EditMutex` | the lock file that replaces the lease by default, system call by system call | — |
| `EditExits` | the edits of one process, the locks of their exits, the attempts | — |
| `TokenPool` | one double-buffered pool, its clients and its prefetch loop | — |
| `SolverGuard` | circuits, selector, failover of the solver federation | — |
| `SolverService` | contexts, pages, tasks, results, both clean-up loops | — |
| `WriteBuffer` | buffer, flushes, their failures, phases of the shutdown | `OrderedLog` by `INSTANCE`: the refinement |
| `OrderedLog` | the abstract specification: accepted statements reach the log once and in order, the oldest may be dropped | — |
| `Dispatch` | idempotency keys, submission, lanes and gate, settlement | `Filters` |
| `Router` | loads, circuits, health, degradation, fallback | — |
| `ChatStream` | both protocols, streamed and collected, over several attempts | — |
| `Downloads` | the pool of buffers and the downloads that share it | — |
| `ActionSniffer` | ids of server actions, generations, keepalive, deployments, restarts | — |
| `AccountPool`, `Registration`, `MailSources` | loans and healing; one HTTP client for all sign-ins; the sources of addresses | — |
| `ProxyPool`, `FreeProxies` | uses of the proxies; lists, checks and traces of the free ones | — |
| `TaskEvents`, `GalleryCache`, `RequestGuard`, `Housekeeping`, `AgentMemory`, `VectorStore`, `UsageReports` | the components of these names | — |
| `Filters` | `Keeping`: the members of a list that are in a set, in their order. It is a recursive function, because nothing can be proved of `SelectSeq`, whose parameter is an operator | — |
| `MCTaskEngine`, `MCEditLease` | constants of the instances | the module |
| `MCData`, `MCGeneration`, `MCServices` | compose the components of the runs `services` and `services_live`, each extending the one before | most components by `EXTENDS`; `INSTANCE … WITH` for `GalleryCache`, `ProxyPool`, `FreeProxies` (which have `Filters`), `EditMutex`, `Housekeeping` |
| `MCProviders` | composes those of `providers` | `EXTENDS`; `INSTANCE … WITH` for `Registration` |
| `TaskEngineProofs`, `EditLeaseProofs`, `SolverGuardProofs`, `DataProofs`, `GenerationProofs`, `StoresProofs` | theorems and proofs about components, section 4 | the modules they are about and `TLAPS` |
| `ServicesProofs` | theorems about the components of `MCServices` together | `MCServices` and the proofs of its components |
| `ProvidersProofs` | theorems about the components of `MCProviders`, each and together | `MCProviders` and `SolverGuardProofs` |

A module that shares a run by `EXTENDS` has names of its own for its parameters,
variables and specification (`DispatchSpec`, `eventVars`, …); one that is
instantiated, or the only one of its run to do so, calls them `Spec` and `vars`.
A run and the proofs thus speak of the same definition.

A definition with the comment `mutant:` is a plausible mistake in the
definition it stands next to. It is used by no specification: replacing the
definition by it must break a named property (`mutants` in `PROJECT.json`),
which shows that the property says something about the code.

### Components in one run

`MCServices` and `MCProviders` hold components that do not call each other. The
variable `which` is chosen in `Init` and says whose behaviour this is; the
others stand still. The reachable states are the disjoint union of those of the
components, so a run checks each of them as if alone, and a property of one is
not weakened by the others. A property that would fail while its component
stands still says `which = … =>`.

### Steps

Everything in one process runs on one event loop, so a step is what a coroutine
does from one `await` to the next. Where the code awaits, any other coroutine
may run, and where it does not, none may. Conventions that follow:

* A statement on an aiosqlite connection is queued for the one thread of that
  connection and executed in the order of the calls. In `TaskEngine` it belongs
  to the step that makes the call; that it is committed is the step that resumes
  after the `await`. An earlier commit of a statement nobody has seen committed
  would only make `kept` (what a crash leaves) larger in between, and a crash
  that finds it committed is a crash after the resumption.
* Reads of the request rows flush the write buffer first. `TaskEngine` has that
  as `db` (the view of readers) and `disk` (what a crash leaves), with `Flush`
  the batch timer. `WriteBuffer` is the detail: that a reader sees everything
  issued before it (`ReadsSeeEarlierWrites`) is what justifies `db`.
* An `await` ends in its result, in an exception, in a timeout or in a
  cancellation.
* A clock is reduced to what the code asks of it: an age, a time left, whether
  a limit has passed.
* Between processes (`EditMutex`, `EditLease`) a step is a system call or a
  transaction.

### TaskEngine

| Variable | Code |
|---|---|
| `db`, `disk` | rows of `requests` (a status per task) and `dead_letter_queue`, with and without the buffer |
| `store`, `kept` | rows of `task_queue` as its connection sees them, and committed |
| `queue`, `counts`, `lastSeq` | heap and counters of `CountedPriorityQueue`, `_seq` |
| `saving`, `requeueing` | callers that await the commit of their INSERT |
| `unsaved` | entries whose caller was told that the INSERT failed; they stay queued |
| `pc`, `job`, `attempt` | where the coroutine of each worker stands, its task, its attempt |
| `pool` | `_workers`, ordered by `last_active` |
| `processing` | `_processing` |
| `stranded` | bookkeeping of the model: tasks whose processing was cut short |

`Submit`, `SubmitRejected`, `SubmitSaved`, `SubmitNotSaved` are
`submit_priority` (the last one its INSERT that raises, with the task in the
queue already); `Requeue`, `RequeueSaved`, `RequeueNotSaved` are
`requeue_dlq_task` and the end of its endpoint; `Get`,
`ReadRow`, `MarkProcessing`, `GetToken`, `Retry`, `Finish`, `Clean`,
`EndCompleted`, `EndError` follow `_worker_loop`, `_process`, `_finish` and
`push_dlq_on_exhaust`; `Abort`, `Recover`, `Unqueue`, `HandlerRaises` are its
exception handlers; `ScaleUp`, `Shrink` the scaler; `Crash` a crash or `stop()`
(which cancels every worker: the same to the state, since a cancellation writes
nothing); `Start` is `start()` with the recovery of stale rows and the resumption
of the pending `task_queue` rows.

Left out: the deletion of rows older than seven days, the dashboard's mirror of
the counters, broadcasts, metrics, the report of a blocked address. What a task
generates is an outcome. The score of the scaler is an arbitrary choice within
its limits. `stop()` and `start()` inside a living process also keep callers
alive that await; the model ends them, as a crash does.

### BatchWorker

`Take` takes several tasks and starts a process for each; `WaitForAll` is
`asyncio.wait` with the hard timeout; `Look` cancels or inspects one after the
other, `Mark` comes back from `db.get` and writes unless there is an end;
`LetGo` is the end of a batch, `LoopEnds` the loop cancelled by the scaler or the
shutdown, or an error in it. Its processes run on: `orphans`. `Start`, `Finish`,
`Return`, `Raise` are `_process` in the grain that matters here. Off by default
(`IF_WORKER_BATCH_ENABLED`).

### The edits: EditLease, EditMutex, EditExits

`EditLease`: `Tick` is the passing of one unit of time; every clock is kept as
an age or as a time left. A statement stamps itself with `time.time()` before it
waits for the connection, so it takes effect up to `MaxDelay` after its stamp,
and a timer fires up to `MaxDelay` late. `EnterLocal` is `async with
local_lock`; `Try`, `Acquire`, `Refused`, `Resume`, `GiveUp`, `AcquireRaises` are
`_acquire_edit_lock` and `LeaseStore.acquire`; `End`, `Release`, `ReleaseRaises`
the end of `_run_edit_job`; `Wake`, `Renew`, `RenewLost`, `RenewRaises` the
heartbeat; `Crash` the death of a process. The upstream chain is one step that
ends with an outcome, or with an exception outside its own handlers (while it
gets a token or writes the outcome): then the request stays pending, and the job
is "unsettled" (`GoesBack`), with its lease given back all the same. A graceful
shutdown is a `Crash` for its jobs.

`EditMutex` is the default mode, a lock file: open with O_EXCL, write, read,
judge by pid and age, unlink, each a step; processes die in any of them and come
back, also with the pid they had, or with pid 1 (a container), which the code
always takes for dead.

`EditExits` is what one process does in front of that: the pool of exits in
turn with its limit of jobs, the lock of each exit, `_run_edit_chain` with its
attempts, and the one edit the site runs for an exit.

### TokenPool and SolverGuard

A buffer is a queue first in, first out, so its expired tokens are its oldest,
and two numbers describe it. `Acquire`, `Resume`, `TimesOut` are the three
entries into the loop of `acquire()` (`Attempt` is its body), `CircuitRefuses`
the refusal in front of it. `Pause`, `Park`, `Unpark`, `StartSolve`, `Solved`,
`SolveFails`, `StartBatch`, `BatchSolved`, `Wake` are `prefetch_loop`, `Expire`
the passing of `TOKEN_TTL`. A waiter whose buffer has a token is resumed before
its own timer and before the loop has slept: both are seconds, the resumption
is the next turn of the event loop. Which of several waiters is resumed is left
open. Pools of single proxies and their recycling are left out.

`SolverGuard`: `Start` and `StartExplicit` are `solve_turnstile` without and with
a URL, up to the first call to a node; `Succeeds`, `FailsOver`, `GivesUp`,
`Cancel` what happens when the call ends. `Gate` is the question of the prefetch
loop whether a probe is due, `Tick` time. The federation and the set of
`reliable` solvers are chosen once, in `Init`: `configure_nodes` is called at
start-up only. The count of failures stops at `Threshold`, since the code
compares it with nothing else. A list with ties is any order of them. A
registration that fails to solve reports to the guard without a URL after
`solve_turnstile` has reported already (`registerer/flow.py:203` and `:518`),
which blames the only node twice: the second disjunct of `GivesUp`.

### WriteBuffer and OrderedLog

Statements are numbered in the order of their issue. `Write` buffers one,
`WriteDirect` is a statement that executes at once; `AskRead`, `Enter`,
`Execute`, `Commit`, `Read` are `_ensure_flushed` and `_flush_buffer`, which
swaps the list out under the lock and then awaits statement by statement;
`FlushFails` and `Cancel` end a flush early and drop the rest of its batch,
of which the statement under way may still take effect. `StopTasks`,
`FlushPhase`, `DrainPhase`, `Close` are the phases of the shutdown that touch it.
`OrderedLog` has four actions: a statement is accepted, lands, goes past the
others, or the oldest are dropped. The refinement maps `pending` to
`batch \o buffer`.

### The others

The header of each module says what it stands for; the deviations worth knowing
before reading one:

* `Dispatch`: `Marks` is the write of a task's end with what follows it: it takes
  place, or raises, and then the row stays as it is and the run is "unmarked".
* `Router`: scores (EWMA, Thompson sampling, UCB1) are left open: `Candidates`
  is every provider they could name; also when all circuits are open, where the
  code takes the one with most capabilities in common. `RateLimited` is the
  handler of `ProviderRateLimited`, which no provider lets out in this commit
  (`aifreeforever.py:215` and `falai.py:501` raise it and catch it themselves);
  without it nothing would ever degrade.
* `SolverService`: the four kinds of task (turnstile with and without a proxy,
  clearance, AWS, reCAPTCHA) differ in whether they use a page of the pool or a
  browser of their own; `LeavePage` is the end of a task after its result.
* `RequestGuard`: `Refill` is 0 in the run, the default of the code and of every
  configuration of the repository: only `_gc_unbounded_ip_state` (`Gc`) gives a
  full bucket again (section 6). A rule has its stamp (`BlockIp`, `AutoBlockIp`)
  before it waits for the write lock (`Write`, `WriteFails`); two stamps are
  never the same. The rule that a violation asks for is written later, or never.
* `FreeProxies`: an address of the sixth version without brackets (`Bare`) is
  accepted by the check and cannot be asked by the tracer: `NoUrl` ends its round.
* `ChatStream`: a delta is its attempt and its block; text is not modelled. `Breaks` is a `ProviderError` or an error of `httpx`, after which
  the next attempt is made; `BreaksForGood` any other, after which none is.
* `AccountPool`: a row is its status, whether it has credits and its failed
  check-ins. Nobody calls `borrow` or `lease` in this commit (nanobanana uses the
  calls about credits only); they are modelled because the loops beside them,
  which do run, are written for them. A healing fails or breaks off, since its
  check-in is given a row without password and cookie (section 5). A row without
  a password, which would die at its first sign-in (`signin.py:141`), is none a
  registration of this commit writes.
* `AgentMemory`: an answer may have several lines about an observation, each of
  which becomes an atom.
* `Registration`: the jar of cookies belongs to the client, as in the code.
* `MailSources`: every kind of source is in one of four line-ups; what a service
  answers to a request is a set of outcomes read from its adapter.
* `ProxyPool`: has its type invariant only (checked and proved). It is there
  because `FreeProxies` and the proxies' users meet in it; no property of it was
  found that a guard does not state.
* `Housekeeping`: items of three kinds (rows, files, dead letters).
* `UsageReports`: time is hours, days and a rolling month of the smallest lengths
  that differ.

## 3. What the runs check

Six runs pass and six show a disagreement (section 5). Every property of a
passing run has a mutant that breaks it in that run.

| Run | What it asks | Invariants; temporal and action properties |
|---|---|---|
| `engine_life` | the life of a task: two workers, retries, timeouts, exceptions, a failing handler, an INSERT that raises, the scaler | `ResultKept`, `EveryTaskSettles` |
| `engine_restart` | a crash at any point, a dead-letter retry of a task in any status, a full queue, two workers beside it | `NoLostTask`, `StoreCoversQueue`, `SingleRunner` |
| `edit_lease` | the lease under late statements and timers, a crash, a lost renewal, an open transaction | `UpstreamExclusive`; `LeaseNotStolen`, `SurvivorRuns`, `EveryJobSettles` |
| `services` | safety of the components of the service | `TypesOK`, `ReadsSeeEarlierWrites`, `RunsOncePerKey`, `SeenInOrder`, `NoStalePage`, `RefillNoticed`, `StaleExplained`, `NoForeignPiece`, `BusyExplained`, `FailsAfterAll`, `OnceUnlessTorn`, `OriginalsApart`, `ReportsAgree`; `ImplementsOrderedLog`, `NeverBack`, `BatchSettles` |
| `services_live` | what they must do under fairness | `StartedSettles`, `EndReachesLive`, `StaleEnds`, `SolverGoesOn`, `EntriesTraced`, `DeadHolderPasses`, `IdsCatchUp`, `RoundsMakeUp` |
| `providers` | the ways to the upstream sites: solvers, router, chat, rules, accounts | `ReliableServes`, `LoadCovered`, `ToolAnswerWhole`, `BurstBounded`, `SharedOnlyAfterOverrule`; `Recovers`, `SyncKeepsStanding` |

The properties in words:

* **Engine.** `NoLostTask`: an unfinished row is queued, in the hands of a worker
  that will still write its end, or was cut short by a crash, the scaler or a
  database error; `SingleRunner`: two workers have a task only after a
  dead-letter retry; `StoreCoversQueue`: without a retry, an entry of the queue
  has its durable pending row, unless its caller still awaits the commit or was told
  that it failed; `ResultKept`: without a retry no "completed" row
  changes; `EveryTaskSettles`: a submitted task ends, saved or not, unless it was cut short
  or a worker died in an exception handler.
* **Edits.** `UpstreamExclusive`: until a lease is lost, no two jobs run;
  `LeaseNotStolen`: a lease in force passes on by its holder's release only;
  `SurvivorRuns`, `EveryJobSettles`: a job outlives a dead holder, and every job
  is settled unless its process dies, `acquire()` raises or its own chain does. `DeadHolderPasses`: the same of the lock file.
  `BusyExplained`: an edit finds its exit in use at the site only by one that was
  given up there.
* **Data.** `ReadsSeeEarlierWrites`, `ImplementsOrderedLog`: section 4;
  `RunsOncePerKey`: a key starts one task of a provider, and one more for every
  time it lapsed;
  `SeenInOrder`: a stream gets the events of its task once and in order;
  `EndReachesLive`: it is sent the end; `StartedSettles`: a started task of a
  provider settles, unless the process stops or its last write raises;
  `StaleEnds`: a page of the gallery that is behind goes; `ReportsAgree`: the parts of a report, the earlier calls and the
  forecast make one account.
* **Upstream.** `RefillNoticed`: a parked prefetch loop has nothing to refill;
  `NoStalePage`: as long as no browser crashed, a spare page belongs to a current
  context;
  `SolverGoesOn`: accepted captchas settle, pages come back; `ReliableServes`: a
  request runs out of candidates only if the federation has no reliable node; `LoadCovered`: a provider
  has at least the load of its requests; `Recovers`: a degraded provider is tried
  again; `EntriesTraced`: a free proxy that stays, and
  whose url can be asked, is traced unless a round comes whose places more recent
  ones without a trace take. Nothing promises a place: a round has 50 for up to
  3000 candidates, and those that cannot be asked keep theirs.
* **Generation.** `NoForeignPiece`: an image has pieces of its own download only;
  `StaleExplained`, `NeverBack`, `IdsCatchUp`: a generation
  is refused for its id only if the sniff it forced found none or the site was
  deployed once more, ids do not go back while the service runs, and they catch up
  with the site; `BatchSettles`: a batch keeps every outcome and leaves no task behind;
  `ToolAnswerWhole`: an answer with tools is one attempt's.
* **Beside them.** `BurstBounded`: the requests of an address that were let
  through in the last minute, and what is left in its bucket, are never more than
  the bucket holds and is given within the minute, whoever forgets a bucket; `SyncKeepsStanding`: a rule that stands from before a sync to its end is
  in memory after it; `SharedOnlyAfterOverrule`: an account has two users only
  after somebody freed it under the first; `FailsAfterAll`: an allocation of an
  address fails after every source it could ask; `OnceUnlessTorn`: an observation
  is condensed by a second pass only when one that had made atoms of it broke off;
  `OriginalsApart`: of two near tasks that did not overlap the later is marked, or
  the earlier is not in the index (it says little where nothing is indexed); `RoundsMakeUp`: a later round cleans and tells what
  an earlier one could not.

### Bounds, and why they are enough

* `engine_life`: 2 tasks of 1 priority, a queue of 1, 2 workers, 2 attempts, 1
  database error, no crash. `engine_restart`: the same with 1 attempt and at most
  two of 1 crash, 1 retry and 1 database error (`AtMostTwo`), up to the names of
  the workers (`WorkersAlike`); of the three properties two are about behaviours
  without a retry, for which that is no bound. 1 853 425 states. Two workers are needed for two runners, two tasks for a queue of
  one to be full; a second crash would start from the same kind of state
  (`db = disk`, `store = kept`) as the first. The order and the limits of several
  priorities are in the theorems only.
* `edit_lease`: 3 jobs of 2 processes show the lock of the process and the lease
  together. A TTL of 6 is the smallest multiple of three that outlives a lap of
  the heartbeat with a delay of 1 (`LeaseAssumption`), a wait of 8 the smallest
  for which `SurvivorRuns` holds. Every renewal that fails is one too many here
  (`MaxMissed = 0`); that a longer TTL outlives more is what the proof adds.
* `services`: two of everything that meets (2 readers and 2 writes with 1 fault;
  2 requests with one key and one without, 1 lapse, 1 error; 2 pages of the
  gallery; 2 edits at a lock file, one of them in a container; 2 generations,
  the keepalive and 1 deployment beside the one the process starts with; 2 tasks and 2 loops of batches; 2 clients of a
  pool of 6 tokens; 2 calls) and three where the third one makes the case: 3
  downloads for 2 slots, 3 edits for 2 exits, 3 events against a history of 2 and
  queues of 1 with a stream and a socket, 3 tasks with vectors
  (near, far and in between), 3 names and 3 sources of addresses, 3 free proxies
  for one place in each round. 2 observations have up to 3 atoms each. The
  gallery has a cache of one page for 2, so that pages are evicted. One fault of a
  kind is enough to leave its trace; a second would start from a state the first
  one could have left too. 704 409 states. Restarts of the gallery, crashes of
  the browser and failures of the housekeeping are 0 here, since no invariant of this run
  but the types is about them; `services_live` has one of each, and the
  theorems about the types are for any number.
* `services_live`: the same with one less of most, since TLC checks liveness on
  the product with the tableau of each formula. The cache of the gallery takes
  2 pages here, so that a restart restores one; the housekeeping has one item, a
  file. 32 163 states.
* `providers`: every federation out of 2 solvers, with and without a default,
  any of them reliable, 2 requests; 2 requests over 3 providers; one chat over 2
  attempts; one sync over pages of one rule while 2 rules
  are written or taken back in all, about 2 addresses, one of which sends the
  requests; 1 account and 2 borrowers. 2 280 685 states.

Counters that only count are capped by a constant named `Max…`. In
`services`, `services_live` and `providers` the states are the sum over the
components, not their product. `CHECK_DEADLOCK FALSE` is set where the instance
comes to rest by design: all its tasks settled, all its jobs done, all its
faults spent, in one component or another of the run.

### Fairness

* Weak fairness of a coroutine means: the event loop runs it when it can go on,
  and its calls end, because they have timeouts (`TASK_HARD_TIMEOUT`,
  `asyncio.wait_for`, `httpx`, `busy_timeout`). That is `FairSpec` of `TaskEngine`
  (workers, the queue handing out its head, commits, restart), `DispatchFairSpec`
  (`RunStep`), `EventsFairSpec`, `SolverFairSpec`, `FairSpec` of `EditLease`
  and `EditMutex`, of `SolverGuard`, of `Housekeeping`, `GalleryCache`,
  `Router` and `FreeProxies`, `ActionFairSpec`.
* Strong fairness is assumed where several compete for a lock that is given out
  in the order of asking (`Enter` in `WriteBuffer`, `KeepaliveEnters` and the
  page that is fetched in `ActionSniffer`), for the places of the tracer
  (`Traced`, of the proxies whose url can be asked), and for `Reclaim` in `AccountPool`, whose turn comes with every
  round of its loop.
* Nothing is assumed of callers, crashes, errors, expiry and scaling. Time
  passes where a property needs it (`Tick`, `Wake`, `RoundBegins`).
* `EveryTaskSettles` excuses a task the scaler cut short, and the pool in which a
  failing handler ended a worker; `IdsCatchUp` presupposes that the page of the site answers again and
  again. `SolverGoesOn` is checked with a crash of the browser, `EntriesTraced`
  with proxies that come and go.

## 4. What is proved

The proofs hold for every set of tasks, workers, jobs, requests, … and every
value of the limits, under the assumptions the modules name (`…Assumption`, which
TLC evaluates in every run). The assumptions say that constants are numbers or functions of their kind,
that counted sets are finite and that names for "nothing" name nothing else;
these say more: `LeaseAssumption` that the TTL outlives the heartbeats that may
fail, `UsageAssumption` that 30 days are whole days, `PoolAssumption` that
buffers hold one token at least, `RouterAssumption` that a provider has another
one beside it (three are always registered, `api/providers/registry.py:438`),
`RulesAssumption` and `AccountsAssumption` that pages, limits, wrong paths and
retries are 1 and more (the refill may be 0). Limits that an `INSTANCE … WITH` fixes are fixed in the
theorem too: `AllTypesHold` speaks of one
residential and one free proxy in `ProxyPool` and three in `FreeProxies`, of a tracer that asks for one address at a time,
and of the quotas and intervals of the
housekeeping in `MCServices`, but of any number of pages, also in the cache, readers, processes, items, faults and deaths; for `Registration` they are those in
`MCProviders` (one exit, addresses of one domain, a restart), with any set of
addresses.

| Theorem | States | Argument |
|---|---|---|
| `TaskEngineProofs`: `TypeCorrect`, `NoTaskIsLost` | `TypeOK`, `NoLostTask` | `TypeInv`, `Holding`, `Handed`. `NoLostTask` alone is not inductive: a worker that is cleaning up holds a task too, and letting it go is safe only because its row is terminal by then. `Handed`: every unfinished row is queued, stranded, or with a worker at a place from which a write of the outcome still follows |
| `OneRunnerPerTask`, `QueueIsDurable`, `ResultsAreKept` | `SingleRunner`, `StoreCoversQueue`, `ResultKept` | `Alone`, as long as there was no retry: a task is in one place only, the queue, a caller that waits for its commit, or one worker, and its row says so. The three properties are about several places at once and follow from this one together with types |
| `EditLeaseProofs`: `TypeCorrect`, `UpstreamIsExclusive`, `LeaseIsNotStolen` | types, exclusion, no theft | `OnTime`, `RunnersCovered`: until a renewal too many fails, no transaction is open while a job runs, and its lease has left at least what its heartbeat may still need. `Laps` derives that arithmetic from `TTL > (MaxMissed + 1) * Lap + MaxDelay`; the lease in force makes the runner unique, because `Acquire` refuses |
| `DataProofs`: `TypeCorrect`, `RefillIsNoticed` | buffers within their capacity, no lost wake-up | `Bounded` (stale and fresh tokens together fit) and `RefillNoticed` itself: every step of a client that can make a buffer low sets the event, and the loop clears it only when it goes on to look |
| `NoPageIsStale` | `NoStalePage` | `PagesLive` and `BuildsInside`, as long as nothing crashed: the spare pages, and those being built, are of current contexts, also while the cleaner is at its work. `Crashed`: the browser is down, or being restarted, only after a crash |
| `SolverGuardProofs`: `TypeCorrect`, `CircuitsAreJustified`, `FailoverReaches` | types, an open circuit has a run of failures, `ReliableServes` | `Unlimited`, `Unharmed`, `Ahead`: a reliable node is never rate-limited, in a federation of several its circuit never opens, since only its own answers count, and it is still in the list of every request under way |
| `LoadsAreExact` | the load of a node is the number of requests at it | relative to that invariant: one request moves at a time, so the sets counted before and after differ by that request (`OneMore`, `MoveKeepsLoads`) |
| `ReadersSeeEarlierWrites` | a reader sees every statement issued before it asked, unless it was dropped | `Locked` and `Waited`: what a reader may still miss is in the buffer or in the batch under the lock it waits for |
| `BufferImplementsLog` | `WriteBuffer` implements `OrderedLog` (`pending` is `batch \o buffer`) | initial states to initial states; step by step, a flush that fails or is cut off is a drop of the oldest, a direct statement goes past the others |
| `EventsAreSeenInOrder` | `SeenInOrder` | `FlowOK`: what a watcher got, its replay and its queue are each in ascending order and already published, and nothing of the replay or the queue comes before what it got |
| `ProvidersProofs`: `LoadsCover` | `LoadCovered` | requests under way are counted with the cardinality of a set that one step changes by one |
| `ToolAnswersAreWhole` | `ToolAnswerWhole` | `AnswerOK`: with tools, nothing is sent before an attempt is complete, so the frames out are of one attempt |
| `SyncsKeepRules` | `SyncKeepsStanding` | `SyncOK` with `PageSkips`: rows ahead of a page are ordered by a stamp no write lowers, so a rule that stands is found or still ahead |
| `BurstsAreBounded` | `BurstBounded` | `Counted`: what is left in the bucket, and the requests counted since any age, are never more than the bucket holds and is given in that time; no counted request is younger than the last draw, so a bucket is forgotten only when none is counted |
| `AccountsAreLentOnce` | `SharedOnlyAfterOverrule` | `HeldOnLease`: unless the account was overruled, a user of it means that its row says so, and that there is no other; `HealsCooling`: what is being healed is cooling |
| `GenerationProofs`: `ImagesApart` | `NoForeignPiece` | `FreeOnce` (a slot is in the deque once at most, and only if free), `Mine`, `Own`, `Apart`: two downloads have different buffers |
| `BatchesSettle` | `BatchSettles` | `LoopOK`: what a loop has no longer to look at has its end; `TaskOK`: what has returned has its end too; `BatchesApart`: two loops have no task in common |
| `RefusalsAreExplained`, `IdsNeverGoBack` | `StaleExplained`, `NeverBack` | `Orderly`: ids seen, saved and cached are none later than the site's, and an id seen on a page is none earlier than the cached one, since no sniff overtakes another; `Justified`: a second attempt posts the site's id, or its sniff was in vain, or the site moved on |
| `EditsDoNotMeet` | `BusyExplained` | `Holds`: who is at an exit is first in its line; `Runs`: what the site runs for an exit is an edit that is polled for, hence that of the first in line, or one that was given up |
| `KeysRunOnce` | `RunsOncePerKey` | `PaidFor`: the starts of a key are at most its lapses, and one more while it is claimed |
| `StoresProofs`: `CondensedOnce` | `OnceUnlessTorn` | `PassOK`, `Accounted`: an observation that is still in the first layer, and that the pass under way has not written, was condensed by no more passes than were torn after writing it |
| `AllAreAsked` | `FailsAfterAll` | `MailInv`: after `n` turns the first `n` of the list, taken round and round, are tried; an allocation gives up after `Attempts` turns, and the list is no longer than that (`TurnOf`) |
| `NearOnesAreMarked` | `OriginalsApart` | `UpsertOK` with `Alone`: a task stored as an original has nothing near it in the index that ended before it began; a search that finds nothing leaves nothing near, since what is near is among the nearest `K` (`Smallest`) |
| `ReportsAreOneAccount` | `ReportsAgree` | `UsageInv`: until a flush fails a recorded call is in the buffer, swapped out or in the table (`CallsKept`), and not in the first two once the first query of a report has flushed; a part holds what its query is meant to count (`PartOK`), of two parts about the same calls one contains the other, as the order of their queries has it (`PairsOK`); 30 days counted by hours are 30 days counted by dates (`DaysOfMonth`, `DayInMonth`), so calls over the budget stay over it (`BudgetOK`) |
| `BufferTypeCorrect`, `EventTypeCorrect`, `SolverTypeCorrect` | `BufferTypes`, `EventTypes`, `SolverTypes` | `BufferBounds` with `LogInv` (`Once`: no statement is twice in the log, the batch and the buffer) ; `EventsTyped`; `ServiceTyped` with `ServiceInv`: the pages of a context, spare, held and still to be built, are never more than it has, counted with the cardinality of `PagesOf`, which one step changes by one (`PagesIn`) |
| `DispatchTypeCorrect`, `ExitsTypeCorrect`, `BatchTypeCorrect`, `ActionTypeCorrect`, `DownloadTypeCorrect` | the types of these components | `DispatchTyped` with `LinedUp`: a task is in the line of its lane and of the gate exactly while its place says so, and once, which needs what `Keeping` leaves of a list (`KeepingIs`); `LinesTyped`: who is in the line of an exit has that exit; the others from the invariants above |
| `MemoryTypeCorrect`, `VectorTypeCorrect`, `MailTypeCorrect`, `UsageTypeCorrect` | the types of these components | `MemoryBounds`: atoms are numbered by their writings; `VectorMarked`: a mark names a written task; `MailTyped`; `DropsCounted` |
| `ServicesProofs`: `AllTypesHold` (with `DataTypesHold`, `UpstreamTypesHold`, `GenerationTypesHold`, `StoresTypesHold`) | `TypesOK` of the whole of `AllSpec` | a step of `AllNext` is a step of one component and a stutter of the others (`DataSteps`, …, `PoolSteps`), so `AllSpec` implies the specification of each, and each theorem about a component holds of it; the instances have invariants of their own: `MutexInv` (nobody waits beyond the limit), `HouseInv`, `ProxyInv` (whose proxy is not drawn yet has none, and only the engine asks again), `GalleryInv`, `ListsInv` (the list of recent proxies has each free proxy once, and one probe at a time is asking) |
| `ServicesProofs`: `PromisesAreKept` | the twelve safety invariants of the run `services`, `ImplementsOrderedLog`, `NeverBack` and `BatchSettles`, all of `AllSpec` | `EachBehaves`: `AllSpec` implies the specification of every component, so what is proved of a component alone holds of the behaviours TLC explores |
| `ProvidersProofs`: `RouterTypeCorrect`, `ChatTypeCorrect`, `RulesTypeCorrect`, `AccountTypeCorrect` | the types of these components | `RouterTypes` itself; `ChatInv`; `RulesBounds` and `LimitsBounds` with the invariants of the guard: stamps are of changes made, a rule in memory is for its own address, a bucket and the counts of a caller stop at their limits; `AccountBounds` |
| `RegisterTypeCorrect` | `TypeOK` of `Registration` | `RegInv`: a row has a session of the site (`RegRow`), an address of the registry is of a known domain (`BookOK`), what a registration is about to record is a session of the site and who is being checked in has a row (`TalkOK`), and the jar of the client holds a session or nothing (`AgentOK`) |
| `ProvidersProofs`: `PromisesAreKept`, `AllTypesHold` | the safety properties of the run `providers` and `TypesOK` of `MCProviders`, of the whole of `AllSpec` (no run has this `TypesOK`: the theorem stands in for it) | as for `MCServices`: `ProviderSteps` and `FrontSteps` give `EachBehaves` |

What the proofs add to the runs is the size: arbitrarily many workers, jobs,
events, requests, statements and calls, and every value of the limits.

Only model-checked:

* liveness (everything under fairness in section 3), which the prover does not
  do, and nothing about `ENABLED`;
* of `Registration` everything but its types: what matters of it is the
  disagreement of section 5.

Every safety invariant and every action property of the passing runs is a
theorem.

No module uses a `RECURSIVE` operator, and nothing is proved by induction over
data.

## 5. What the code does not do

Each of these runs checks one statement that the repository makes of itself, and
TLC finds it violated. `PROJECT.json` has the quotations (`findings`).

| Run | Statement | What happens |
|---|---|---|
| `edit_zombie` | `NoZombieLock`: no lock is left by the dead ("杜绝僵尸死锁", `api/db/lease_store.py:7`) | the end of a job cancels its heartbeat; cancelled between BEGIN and COMMIT, `renew` leaves the connection in a transaction, and every later BEGIN raises |
| `close_loses` | `ClosedKeepsAll`: the flush at the stop keeps all data (`api/db/core.py:299`) | workers and provider tasks are stopped after the flush and the end of its timer, and nothing flushes what they still write |
| `mixed_session` | `OwnSession`: a sign-in returns the account's session (`api/registerer/flow.py:498`) | all accounts share the jar of one client, and the session is read from it after a refusal too |
| `heal_dies` | `SelfHeals`: healing fails only if the site refuses (`api/account_pool/borrow.py:227`) | the check-in is called with a row without password and cookie, so every healing fails, and the account dies |
| `two_edits` | `OneEditAtATime`: the lock file keeps processes apart (`api/dispatch_edit.py:4`) | a file that is created but not yet written counts as stale, and is unlinked under its owner |
| `blank_image` | `ImageAsSent`: a buffer is handed out empty (`api/imagefree_client.py:87`) | the one handed out beyond the slots has 64 KB of zeros, which take the place of the image |

## 6. Seen while modelling, and not a run

What follows was met in the source. The models have it as the code does it,
where they have it at all; no document of the repository contradicts it in a
way worth a run, or the part is left out.

* **Engine.** `_seq` starts at 0 again after a restart (`worker/engine.py:89`), so
  resumed tasks keep their order by luck. A retry of a dead letter asks for no
  status (`:221`), so it may double a run: hence `requeues = 0` in three
  properties. A row recovered as an error may still have a pending row in
  `task_queue` and runs again. A hard timeout between the row's error and its
  dead letter leaves none. A database error inside an exception handler ends the
  worker, whose handle stays in the pool. `get()` of the queue counts down twice
  when a waiter is served. "processing" rows in `task_queue` are not resumed.
* **Scaler and heartbeats.** `low_score_since` is not reset at the minimum of
  workers or by growth, so the damping of `scaler.py` does not damp the next
  shrink; the score of an idle service is 0.30000000000000004, never below 0.3;
  the latency it uses is a sum since the start. A worker is stale after 180 s, a
  task may last 480 s (`worker_health.py:26`, `config/__init__.py:121`).
* **Solvers.** A late token ends a cooldown after a 429; listing the candidates
  spends the probe of a half-open circuit; the first probe is immediate
  (`tests/test_solver_guard.py:88` expects it, `solver_guard.py:10` does not). In
  the solver service finished results have no start time and are never swept
  (`api_server.py:162`), the restart of the contexts closes those in use, and dead
  pages stay ahead in the queue after a rebuild that failed.
* **Edits.** A heartbeat that lost the lease does not stop its job
  (`dispatch_edit.py:145`), which is why `UpstreamExclusive` ends there.
  `EDIT_LOCK_MAX_AGE` (1500 s) is shorter than `EDIT_TIMEOUT` (3600 s). A job
  that waits for its exit holds one of the places for jobs in flight.
* **Dispatch.** A task is submitted before its key is claimed, and the loser of the
  claim returns its own id (`dispatch.py:252`). A claim that raises leaves a
  pending row without a runner, a last write that raises one whose runner is gone
  (`unmarked`). So does an exception of an edit outside its handlers
  (`unsettled`). Provider tasks never invalidate the gallery.
* **Router.** A request is counted twice and taken back once
  (`adaptive_router.py:443`): `LoadCovered` says "at least", and not "exactly".
  Refused and idempotent requests leak load. `ProviderRateLimited` never reaches
  its handler: the two adapters that raise it catch it themselves
  (`aifreeforever.py:215`, `falai.py:501`); `mark_down`, `record_cooldown` and `record_retry_after` have no
  caller. A half-open circuit lets any number of requests through.
* **Chat.** An exception that is neither a `ProviderError` nor one of `httpx` ends
  a stream at its first attempt (`tryingopen/__init__.py:271`). Text after reasoning goes out in the block of the reasoning
  (`chat.py:489`); a collected answer without tools keeps the text of an attempt
  that broke off (`base.py:258`); a stream that is cut off counts as a success; a
  client that leaves writes no usage row.
* **Events.** The end of the loop by a terminal event is never reached
  (`sse_events.py:204`); an event published between replay and subscription is in
  neither: `SeenInOrder` says "at most once". A leaving subscriber clears the
  history of the others.
* **Gallery.** An entry evicted by number is persisted with its full time to live;
  deletions are written after the upserts of the same batch; a shutdown in the
  middle drops them.
* **Accounts, registration, mail.** The time of a loan is taken before the lock
  (`borrow.py:52`). The exit may change between sign-in and claim. Unrecorded
  addresses are offered again. A source that failed is asked again in the same
  allocation, and a cooldown after a 429 may be replaced by a shorter one.
* **Proxies.** `parse_ipport_text` drops the IPv6 addresses its docstring has;
  `parse_geonode_json` keeps them without brackets (`free_proxy_fetcher.py:203`),
  so that they are in the pool and end every round of the tracer that gets to
  them (`proxy_tracer.py:205`); a
  proxy that comes back within the time to live is not traced again.
* **Request guard.** The refill of the bucket defaults to 0 (`config/__init__.py:325`),
  and its capacity to the limit "per IP per minute" (`:319`): with that an address
  gets as many requests in all, until more than 10 000 records make
  `_gc_unbounded_ip_state` forget its bucket. `BurstBounded` holds for every
  refill; that who was quiet is served again does not, and the runs claim nothing
  like it. Stamps of rules are taken before the write lock, so that the rule
  written last may have the earlier stamp. A rule
  removed during a sync may come back until the next; one written during a
  sync may be missing as long (`request_guard.py:418`): `SyncKeepsStanding` speaks
  of rules that stood before.
* **Memory, vectors, reports.** `_clear_l0` deletes observations made meanwhile; a
  near duplicate of a duplicate is compared with its neighbour and not with the
  original; `cost_daily(30)` covers 31 dates; the credits of the image accounts are a
  lifetime's and are added to a month (0 unless a price is set).
* **Lifespan, housekeeping.** An exception before `yield` skips the shutdown; alarms
  about numbers of the moment are looked at every six hours.

## 7. Not modelled, and why

* **Adapters** of single web sites, their scraping and their HTML: almost no state
  of their own; what they may answer is an outcome of the components that call
  them.
* **Browsers** behind the solver service: what is done on a page is an outcome.
* **Routes, authentication, models, configuration, migrations**: translation and
  declarations. The limits the configuration sets are constants of the modules.
* **Metrics, logs, health reports, the dashboard**: read only.
* **The chat agent** beside its memory, storage adapters, Redis: off by default,
  without state of the service.
* `api/browser_pool.py` and `api/cf_clearance_solver.py` are used by their tests only.
* **Front end, scripts, deployment files, tests.**

Inside the modelled components, what is left out is in the notes of `components`.

### What is left to do

* `OneEditAtATime` and `ImageAsSent` for a corrected code, as a statement of what the
  corrections have to do;
* the detail of `TaskEngine` behind `db` and `disk`, as a composition with
  `WriteBuffer`, whose promise is proved.
