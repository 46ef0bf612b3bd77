# TLA+ models of the security testing platform

This directory models and verifies the core of the repository: the API that
generates and accepts the HTTP test tasks of a scan, the distributed execution
engine under `executor/` that queues them in Redis, executes them in asyncio
worker engines and records the results in PostgreSQL, and the analysis that turns
the responses into issues. All paths below are relative to the repository root.

## 1. Inventory

| Component | State it keeps | Operations | Interacts with | What is hard |
|---|---|---|---|---|
| **Scan pipeline** (`executor/api/routes.py`, `executor/workers/engine.py`, `executor/persistence/models.py`) | rows of `scans`, `tasks`, `scan_responses`; the locals of each coroutine | `create_scan`, `submit_tasks`, `delete_scan`; `start` (fetch loop), `_process_payload`, `_mark_task_processing`, `_save_response`, `_evaluate_scan_completion`, `_update_task_status`, `_handle_retry` | PostgreSQL, Redis queue, rate limiter, HTTP targets | every `await` is an interleaving point: loaded rows go stale, Redis and the database are never updated together, errors are swallowed |
| **Task queue** (`executor/task_queue/publisher.py`, `consumer.py`, `models.py`) | four priority lists, the `:delayed` sorted set, the `:dlq` list | `publish`, `publish_batch`, `schedule_delayed`, `consume`, `_process_delayed_tasks`, `send_to_dlq` | the API publishes, engines consume | promotion is a read followed by a MULTI; several consumers; starvation |
| **Worker pool** (`executor/worker_manager/manager.py`, `workers/engine.py`, `workers/heartbeat.py`, `run_worker.py`) | list of engines, their `_running` flags, tasks and permits, heartbeat keys, the signal handler | `start`, `stop`, `_monitor_loop`, `_scale_up`, `_cleanup_idle_workers`; `start` and `stop` of engine and heartbeat | starts and stops engines; reads the depth of the queue | stop racing a fetch in flight, removal racing the clearing of the list, cancellation that reaches the wrong coroutine |
| **Outbound rate limiter** (`executor/rate_limiter/`) | token buckets with an adaptive multiplier, in Redis and in each process | `acquire`, `report_429`, the Lua script | called by every coroutine | three buckets taken one after the other, read-modify-write of the multiplier, late scripts, fallback to local state, expiry of keys |
| **Authentication** (`executor/api/auth.py`, `auth_routes.py`) | `users`, `revoked_tokens` | `register`, `login`, `refresh`, `logout`, start-up administrator | database | rotation of one token by two requests, the first user, a timeout after the commit |
| **API middleware** (`executor/api/main.py`) | a deque of times per client | sliding window, request timeout, health | wraps every request | boundary of the window; cancellation in the middle of a handler |
| **Event stream** (`executor/api/sse_routes.py`) | Redis pub/sub channels | publish, subscribe, relay | engines publish, a generator per reader relays | events before the subscription, events that fail or are never sent, order |
| **Result analysis** (`result_collector.py`, `diff_engine.py`, `issue_classifier.py`, `report_generator.py`, `executor/analysis/report_service.py`) | a buffer of responses, diffs, issues; the saved report | `on_result`, `process_buffered`, `flush`, `reset`; compare, classify, build, save | reads tasks and responses | who is the reference, double processing, thresholds and rounding, identities guessed in several places |
| **Scan views** (`executor/api/routes.py`, `copilot_routes.py`) | none of their own | tasks, details, progress, telemetry, timeline, role swaps, report, vulnerabilities, dashboard, copilot context | read the rows the workers write | answers of several statements, each with its own snapshot |
| **Endpoint discovery** (`executor/integration/discovery_bridge.py`, `executor/endpoint_discovery/parser.py`) | none | fetch, parse, deduplicate, fall back | feeds the two below | errors told apart by their wording; URLs joined in several ways |
| **Mutation engine, JWT tasks** (`modules_unzipped/Mutation-engine/`, `jwt_role_testing/role_swapper.py`, `executor/integration/`) | none | generate mutated requests and requests with swapped tokens | feeds the scan pipeline | mutation of whole URLs, deduplication by fingerprint |
| **Legacy queue, Redis client, metrics, settings, crawler, frontend, deployment** | connections, counters | set-up, formatting, UI | | |

What makes each component correct, in one line each, and where it is stated:

- *Pipeline*: no task is lost between the database and Redis (`NoStrandedTask`); no
  two coroutines work on one task (`OneCarrier`); a scan that says COMPLETED is
  (`CompletedMeansSuccess`); every task and every scan settles (`TasksSettle`,
  `ScanSettles`); what is deleted stays deleted (`NoResurrection`); readers may
  rely on `ScanRows` (`ImplementsScanRows`).
- *Queue*: every payload is delivered once (`ImplementsWorkQueue`), from the list of
  its priority (`RightList`), and no list starves (`NoStarvation`).
- *Worker pool*: between `min_workers` and `max_workers` engines; what a stop can
  lose; nobody left behind; every stop ends.
- *Rate limiter*: never more tokens than the capacity and the refill allow; every
  grant is paid; the multiplier recovers in one way only.
- *Authentication*: a used token opens nothing later; no late administrator.
- *Middleware*: the limit holds in every window; who obeys `Retry-After` gets in.
- *Event stream*: what a stream has told since "connected" leaves out no change, but for
  those whose event the code does not send or sends out of order.
- *Analysis and views*: findings do not depend on the order of delivery; nothing gets
  lost between comparison and report; two views of one scan do not contradict.
- *Discovery and generation*: requests meant to be compared meet; requests go where
  they are meant to go; deduplication drops only duplicates.

**State of the repository at this commit.** Merge damage keeps some files from
running as they are: `executor/endpoint_discovery/parser.py`, which the bridge imports, does
not compile (line 105, in the middle of a duplicated part; its copy under
`modules_unzipped/` does);
`executor/api/routes.py` repeats two keyword arguments in the `Task(...)` call of
`submit_tasks` (lines 66-71); `executor/api/main.py` repeats a keyword near line
53, has a health handler with unreachable code (lines 311-321) and lacks imports;
`executor/configs/settings.py:25` gives `DATABASE_URL` no annotation. The models take the
handlers as they are evidently meant to run. Nothing in the repository sets a
scan to PAUSED or CANCELLED, so the models have neither. `executor/queue/` is an
older copy of `executor/task_queue/` that the engine does not use. The analysis
files under `modules_unzipped/TLL-alpha/` are byte-identical to the ones at the
root, to which the map points. `mutation-engine/` at the root is an older copy of
`modules_unzipped/Mutation-engine/src/`, which the bridge runs.

## 2. Plan and order of work

1. `ScanPipeline`: the whole life of a scan's tasks, with its faults.
2. `TaskQueue`, shown to implement `WorkQueue`: the order and the delivery of
   the queue, which `ScanPipeline` abstracts to bags.
3. Theorems about `ScanPipeline`.
4. `WorkerPool`: who runs the engines of `ScanPipeline`, and how they stop.
5. `RateLimiter`: what `ScanPipeline`'s choice "granted or refused" stands for.
6. `ScanRows`: what the rows promise their readers, as an abstract specification that
   `ScanPipeline` implements, so that the readers need not be composed with it:
   `ScanViews` runs over `ScanRows`.
7. `ResponseAnalysis`, `ResultCollector`: comparison, classification, report.
8. `AuthSessions`, `RequestWindow`, `EventStream`, with theorems.
9. `MutationEngine`, `TaskGeneration`: where the tasks of a scan come from.

10. The refinement of `ScanRows` and `CompletedMeansSuccess` as theorems.
11. `AttemptsAgree` and `DeadLetterExact` for one engine, `NoStrandedTask` and
    `QuietScanIsClosed` for any number, from the invariants of section 5.
12. Theorems about `WorkerPool`, `RateLimiter`, `ResultCollector`, `ScanViews`,
    `TaskGeneration`, and the refinement of `WorkQueue`.

What a further step could add: what is left of `AttemptsAgree` and `DeadLetterExact` when
racing promotions copy payloads.

## 3. Modules

### `ScanPipeline`

One scan, its tasks, one queue. Variables and what they stand for:

| Variable | In the code |
|---|---|
| `scan` | `scans.status`; `"DELETED"` once the row is gone |
| `status`, `attempts`, `resp` | `tasks.status`, `tasks.attempts`, and `scan_responses.error_message` (no row, NULL, a message) |
| `req` | where each `submit_tasks` coroutine is between its awaits |
| `ready` | how many copies of each `QueuePayload` the four lists hold |
| `delayed`, `due` | members of the sorted set, and those whose score is in the past |
| `dlq` | payloads of the dead letter list (as a set) |
| `fetch`, `read`, `cutoff` | `start()` with `consume()`: the label, `due_tasks`, and what `now` covers |
| `pc`, `job`, `out`, `mem` | one `_process_payload` coroutine per semaphore permit: label, payload, outcome, and the rows its session has loaded |
| `hit` | history variable: the tasks hit by a failure that loses a payload or an outcome |

| Actions | Code |
|---|---|
| `LoadScan`, `OpenScan`, `StoreTasks`, `PublishTasks`, `PublishFails` | `submit_tasks`, one action per await; `publish_batch` |
| `AbortRequest` | `request_timeout_middleware` cancels the handler |
| `DeleteScan` | `delete_scan` with its cascades |
| `BecomeDue`, `ReadDue`, `Promote`, `PromoteFails` | time, and the two halves of `_process_delayed_tasks` |
| `Pop`, `PopTimeout`, `PopFails` | BLPOP and `create_task` |
| `MarkLoad`, `MarkCommit` | `_mark_task_processing` |
| `Send` | `rate_limiter.acquire` and `http_executor.execute` |
| `SaveLoad`, `SaveLoadRow`, `SaveCommit`, `SaveRollback` | `_save_response` |
| `EvalScan`, `EvalTasks`, `EvalCommit` | `_evaluate_scan_completion` |
| `UpdateLoad`, `UpdateCommit`, `Schedule`, `ScheduleFails`, `Bury`, `BuryFails` | `_handle_retry`, `_update_task_status`, `schedule_delayed`, `send_to_dlq` |
| `DbError` | the `except` branch of each of these sessions |
| `Crash` | the process dies and is started again |

Every await on the database or on Redis ends an action, so all
interleavings of the coroutines are explored. SQLAlchemy writes only the columns
whose value differs from the one it has *loaded*; `Written` models this, and
with it the lost updates of stale sessions. A commit to a row that was deleted
since, or the insertion of a second response row for a task, raises and rolls
back. A failed commit is modelled as not applied. The increment of
`payload.attempt` at the top of `_handle_retry` touches only the coroutine's own
payload and is done where that payload is next used, in `Schedule`. The limit of 50 of
`ZRANGEBYSCORE` is the constant `PromoteBatch`. The verdict of the rate limiter
and the answer of the target are choices. Publication of events and metrics is
left out here: their failures are caught and change nothing.

### `ScanRows`

What the three tables promise their readers: which commits there are (`SetScan`,
`Submit`, `Mark`, `Save`, `DeleteRows`) and what each may change. `ScanPipeline`
implements it with the identity on `scan`, `status`, `resp`; with one engine
SUCCESS is final, with two (`Again`) a task that was promoted twice may be processed again.
`ScanViews` uses it as its environment.

### `TaskQueue`, `WorkQueue`

`TaskQueue` keeps what `ScanPipeline` abstracts from: four FIFO lists, the two
copies of the priority mapping, the four weighted poll orders of
`_get_poll_queues`, and the sorted set as a sequence in score order whose first
`due` members are due. Payloads circulate for ever: settled ones are published
again. `WorkQueue` is the promise, with two variables: what the queue holds and
what workers have taken. `TaskQueue` refines it with `held <- Queued`,
`taken <- InHand`; promotion is a stutter.

### `WorkerPool`

One process: the manager (`mgr`), its list `pool`, the monitor loop (`mon`, the depth it has
read, the idle engines it still has to stop), and per engine its `stop()` (`state`, and
`by`, who called it), its `start()` loop (`loop`: off, in `consume`, or waiting
for a permit), its tasks (`held`, and `awaited`, those a `stop()` gathers), its
heartbeat key (`beat`). `Floor` is how many engines `start()` leaves, which is less than
`min_workers` where that exceeds `max_workers`, as `WORKER_CONCURRENCY = 1` makes it in
`run_worker.py`. `handler` is the engine whose `stop` is installed for
SIGTERM: every engine that starts replaces it, so a signal stops only the engine
that started last. What runs between two awaits is one action: `ManagerStart`,
`MonitorRead`, `MonitorFails` (an LLEN raises), `MonitorScale`, `MonitorWake`,
`CleanupNext`, `StopHeart`, `StopClose`, `StopRaises`, `StopGather`, `CancelMonitor`
inside `ManagerStop`, `Pop`, `PopTimeout`, `Acquire`, `Finish`, `Signal`, `KeyExpires`,
`Exit`.

`StopRaises` is the DELETE of `heartbeat.stop()`, or `http_executor.close()` after it,
raising: `engine.stop()` leaves before its `gather`, so nobody awaits the tasks. In the
monitor the exception ends the pass and the engine stays in the list; `manager.stop()`
takes it for a result (`return_exceptions=True`), and the end of the process cancels the tasks.

Cancellation is modelled as asyncio defines it: cancelling the monitor cancels
what it awaits. In the `gather` of an engine it is stopping, this cancels that engine's
tasks; in `heartbeat.stop()` it is swallowed by `except CancelledError` (`swallowed`), and the
monitor goes on beside a manager that has stopped.

### `RateLimiter`

Two backends (`redis`, and the process's own buckets), a bucket per key (global, domain,
scan), one record per coroutine with its label and locals. `SendScript` reads the
clock and `RunScript` runs later, in any order: a late script moves `last_refill` back and
the same span refills twice (`back` counts how much). `Begin`/`Loaded` are
`_ensure_backend`; `ScriptFails` switches to the local buckets; `Wake` is the
sleep in `acquire` with its timeout; `ReadMultiplier`/`WriteMultiplier` the two
commands of `report_429`. A refused pass has used up what it took from the global and
the domain bucket. A 429 of a domain that is not configured creates a hash that no script
reads. The multiplier never recovers but by the expiry of its key, or by a stale
report that writes a higher value than a later one.

### `ResponseAnalysis`, `ResultCollector`, `ScanViews`, `Lists`

`ResponseAnalysis` holds operators only: comparison (`Compare`), the six checks (`Bola`, `Bfla`,
`TenantLeak`, `JwtBypass`, `Escalation`, `Disclosure`) with their severities, pairing
(`References`, `Challengers`, `BuildPairs`) and `BuildReport`. A body is a value;
what SequenceMatcher, `_flatten_json` and `_extract_ids` find in bodies are
constants (`Ratio`, `Fields`, `Ids`), so every combination can be given.
`Lists` holds the two operators with which these modules and the mutation engine select from
a list by places (`Picked`, `Firsts`), a form that the provers can follow.
`ResultCollector` is the collector's buffer with `OnResult`, `ProcessBuffered`,
`Flush`, `Reset`. `ScanViews` follows one read request through its statements (`ReadScan`,
`ReadTask`, `ReadRows`, ...), each of which sees
what is committed at that moment, while `ScanRows` moves under it; the
answers (`Listed`, `Result`, `Vulnerabilities`) are computed from what the statements have read.

Met while modelling, and visible in the definitions:
flush skips the processing when an earlier one has found something, and so
hides what arrived in between; otherwise a second processing doubles the diffs. `reset()` clears the
very list `process_buffered` has returned. A ratio of 0.64996 is rounded to 0.65 but is
no anomaly. SequenceMatcher is not symmetric. A tampered token of the same user is
never an anomaly, so that JWT_BYPASS needs another user. The identity assumed for a
request without token is unknown/user in the report and anonymous/guest in the role swaps; the
report groups by URL, the role swaps by path. A report that fails is an error for one
handler and "no vulnerabilities" for two others.

### `AuthSessions`, `RequestWindow`, `EventStream`

`AuthSessions`: one record per request with its operation and label; every statement is an
action (`FindEmail`, `LookForFirst`, `Insert`, `Reread`, `CheckRevoked`, `GetUser`, `LookAgain`,
`Revoke`), and `TimeOut` may answer 504 at any await while what is
committed stays. A token is named by the request that issued it. A refresh that loses a
race either finds the token revoked when it looks again, and answers with a new
pair all the same, or fails on the primary key. Two overlapping first
registrations may both become administrator, and the first user may choose not to.

`RequestWindow`: the deque per client, `LetThrough` and `Refuse`, with the clock in fractions of a
second. `passed` and `promise` are history.

`EventStream`: the sessions of the workers (`Load`, `Commit`, `GiveUp`, `Publish`), on any
row, several on one row; the commits of `submit_tasks`, which publish nothing (`SilentCommit`:
the scan's RUNNING and the inserted tasks); and the generator (`Opening`, `Relay`, `Break`).
A status that equals the one the session has loaded is not written, but published.
There is no client: the frontend defines a subscription (`frontend/src/lib/api.ts:417`)
that none of its views uses. The history `told` is what was stored when "connected" was sent,
overwritten by each event relayed since; `unsure` holds the rows for which it may be
wrong: a silent commit, a failed publication, sessions that overlapped.

### `MutationEngine`, `TaskGeneration`

`MutationEngine` holds operators: the header, method, body and path mutators, the fingerprint
and the severities. A URL is a sequence of pieces (word, number,
version) of authority and path. A number is its digits, as `String.replace` looks for them as
text: the first copy of the last number's digits is replaced (`Place`), be it inside another
number (`Offsets`). Doubling all slashes leaves no authority (`http:////host//x`).
`TaskGeneration` follows `POST /discover`: parse,
the fallbacks (`Probe`, `FallBack`), `CrawlerTasks`, `SwapTasks`, `FuzzTasks`, and
`submit_tasks`, which `ScanPipeline` models. Met while modelling: a URL as source is
never answered 400, as it falls back to itself as the only GET endpoint (so
lines 129-146 of `routes.py` are not reached for it), and that fallback replaces
`base_url` for the crawler's tasks only; three functions join `base_url` and path in
three ways; a mutation of header, body or method carries no path and becomes a task without
URL, so only path mutations reach the target; the path mutator works on the
whole URL and changes the port of `http://host:8010/users/1`, or of any URL whose only
number is its port.

### `MCScanPipeline`, `MCTaskQueue`, `MCWorkerPool`, `MCRateLimiter`, `MCScanAnalysis`, `MCApi`

The constants of the instances below; `MCWorkerPool` has one. `MCScanAnalysis` and `MCApi` put modules side by side that
share no variable and that no property relates; a behaviour moves one of them only.

### `ScanPipelineProofs`, `ScanPipelineRows`, `ScanPipelineStages`, `ApiProofs`, `WorkerPoolProofs`, `RateLimiterProofs`, `RoutesProofs`, `TaskQueueProofs`

The proofs, section 5. `ScanPipelineStages` builds on `ScanPipelineRows`, and that on
`ScanPipelineProofs`; `ApiProofs` is about `RequestWindow`, `EventStream` and `AuthSessions`,
`RoutesProofs` about the analysis (`ResultCollector`, `ScanViews`) and, with the mutation
engine, `TaskGeneration`.

## 4. What TLC checks

| Run | Instance | Properties | Shows |
|---|---|---|---|
| `pipeline_solo` | 1 engine, 2 permits, 2 tasks of 1 request, 2 retries each, no faults | `CompletedMeansSuccess`, `AttemptsAgree` | the counters kept in Redis and in the database agree; COMPLETED is never written wrongly although evaluators commit what they read earlier |
| `pipeline_faults` | 1 engine, 2 permits, 2 tasks of 2 requests, 1 retry each, all faults | `TypeOK`, `OneCarrier`, `NoStrandedTask`, `DeadLetterExact`, `NoResurrection`, `ImplementsScanRows` | the named failures are the *only* way to strand or to duplicate a task; the dead letter list is exact; the rows keep what readers rely on |
| `pipeline_fleet` | 2 engines with a permit each, 2 tasks, 1 retry each | `QuietScanIsClosed`, `TasksSettle`, `ScanSettles` | racing promotions duplicate a retry, but every task settles and the scan is closed by the last one |
| `queue_solo` | 1 consumer with 2 permits, 4 payloads of 4 levels | `RightList`, `ImplementsWorkQueue`, `NoStarvation` | the keys implement a queue that delivers once; no list starves |
| `worker_pool` | 2 engines of 1 permit for a pool of 1 to 2, 1 payload, depth 10, 1 signal | `TypeOK` (with the permits), `PoolWithinBounds`, `LossOnlyLate`, `StrayOnlyIfSwallowed`, `DeadWorkersVanish`, `StoppedLoopEnds`, `ShutdownCompletes` | removal, scaling and stop in every order keep the floor; a manager's stop loses only what was fetched after it began, or what an engine holds whose stop raised; an engine survives its manager only through the swallowed cancellation; every stop ends, whichever of its awaits is cut or raises |
| `rate_limiter` | 2 coroutines of 2 engines in 1 process, 1 scan, 1 configured domain, buckets of 1 and 2 tokens, 3 instants | `TypeOK` (with the capacities), `RateHolds`, `GlobalPaysForScans`, `ExpiryGrantsNothing`, `NoSilentRecovery`, `AcquireAnswers` | late scripts, expiry and failures cost what `RateHolds` says and no more; nothing passes unpaid |
| `analysis` | 2 tasks with answers of 2 bodies and one commit of each kind; 3 responses, all orders | `OrderIndependent`, `ReportNamesEveryBreach`, `ListedSuccessHasResponse`, `CopilotCountsOnce`, `SwapsAgreeWithReport` | views of several statements stay consistent; every breach between an administrator and another user is named |
| `api` | 3 requests of 2 addresses; limit 2 in a window of 3 s; 2 workers, a task and its scan with 3 statuses, 2 events under way, 1 broken stream; 8 documents, 6 sources, 3 bases | `LateRegistrationIsUser`, `UsedUpStaysUsedUp`, `WindowHolds`, `RetryAfterIsEnough`, `QuietStreamIsComplete`, `SwapsMeetCrawler`, `StaysOnTarget`, `MutationsSurvive` | accounts and tokens under overlap and timeout, the window's boundaries, what a stream leaves out, where generated requests go |
| `scan_closed_early` | | `FinishedMeansNothingPending` violated | finding 1 |
| `buried_processing` | | `BuriedNotProcessing` violated | finding 2 |
| `promotion_overflow` | | `RetryingIsCarried` violated | finding 3 |
| `queue_two_consumers` | | `DeliveredOnce` violated | finding 4 |

Findings, each a disagreement of the code with its own comment or docstring:

1. `_save_response` evaluates the scan while a failed task that has retries left
   is FAILED and not yet RETRYING. The scan is marked FAILED, and
   `scan_completed` is published, before the retry; a later success corrects the status.
2. When the database fails in `_save_response`, the error is swallowed there. A
   rate limited task is then buried in the dead letter list as PROCESSING,
   although the handler says "Never leave a task stuck in PROCESSING".
3. `_process_delayed_tasks` reads at most 50 due members and removes all of
   them. The rest is lost and their tasks stay RETRYING.
4. The read of the due members is outside the MULTI: two consumers promote the
   same payload and the task is executed twice.

The passing properties name, where they need one, the exception the code has: an
engine that only a swallowed cancellation leaves behind, a stop that raises, a refresh that
overlaps another, a commit without an event, a `base_url` that ends with a slash, a port that
contains the digits of an id. Each
exception is a disjunct of the property, so that everything else is excluded.

**Bounds.** Two tasks are enough for every interaction of the pipeline: tasks
meet only in the evaluation of their scan and in the queue, where one of them stands for
"the others". Two permits give every pair of concurrent coroutines and, in
`pipeline_fleet`, of concurrent promotions. `PromoteBatch = 2` cannot overflow
with two tasks of one engine, which separates finding 3 (run with a limit
of 1) from the other properties. One or two retries reach the exhausted budget
with and without an intermediate retry. `queue_solo` has more payloads than
permits, and every level that has a list of its own or falls back to one. No bound limits the
depth of a run of these two: the retry budget makes `ScanPipeline` finite, and `TaskQueue` is
finite as payloads circulate.

In `worker_pool` two engines in the list are the least at which one is removed while
another stays; that the list never grows beyond its ceiling needs a third, and is shown by
`PoolBounded` for every number. One payload is the least that a stop can lose, and at depth 10
the monitor wants more engines than there may be; `MaxSignals` is the only counter. In `rate_limiter` the clock is bounded by `MaxClock = 2`: a bucket can run
empty, refill and expire; two coroutines give every pair of scripts and reports. In
`analysis`, `MaxResults = 3` is a pair and one more response of any kind, `MaxDiffs`
lets a second processing follow a first; `Verdicts` restricts what is written
to the scan's row to one value, since no view depends on which. In `api`, three requests are two that
overlap and one that comes later; `MaxTime` is two and a half windows; `MaxStatus`, `MaxPending`
and `MaxBreaks` allow two workers a commit each after the insertion, a second event behind a
first, and a reconnection. The documents hold an operation of each kind the parser tells
apart; one base is `host:8010`, where `/v80/users/1` meets its digits inside the port,
another is `v2.host`.

Deadlock is checked in the pipeline and queue runs: a fetch loop always
has a next step. The other four end, and say `CHECK_DEADLOCK FALSE`: a process that has
exited, a clock at its bound, requests that are all answered.
`pipeline_faults` uses the symmetry of the permits and `api` that of requests and workers,
with safety properties only.

**Fairness.** In `ScanPipeline` weak fairness of each request, fetch loop and coroutine: the event
loop resumes every coroutine whose await has ended, and each await ends (BLPOP,
HTTP and the limiter have timeouts). Weak fairness of `BecomeDue`: time passes.
No failure is fair. A poll order has strong fairness in `TaskQueue`:
`_get_poll_queues` draws each with a positive probability on every fetch, so with
probability one each is drawn again and again while its list is not empty.
`WorkerPool` has weak fairness of the monitor, of each stop, fetch and task, and of
the expiry of keys, for the same reason; nothing makes a signal arrive
or the manager stop. `RateLimiter` has weak fairness of the clock and of each coroutine.

## 5. What TLAPS proves

For every value of the constants that satisfies the named assumptions of the modules
(types, and that the stand-ins for "none" are none of the values):

| Theorem | Module | Extra assumption | Statement |
|---|---|---|---|
| `TypeCorrect` | `ScanPipelineProofs` | | `Spec => []TypeOK` |
| `OneCarrierAlways` | `ScanPipelineProofs` | `Solo` | `Spec => []OneCarrier` |
| `NoTaskStranded` | `ScanPipelineStages` | | `Spec => []NoStrandedTask` |
| `AttemptsAlwaysAgree` | `ScanPipelineStages` | `Solo` | `Spec => []AttemptsAgree` |
| `DeadLettersExact` | `ScanPipelineStages` | `Solo` | `Spec => []DeadLetterExact` |
| `QuietScanAlwaysClosed` | `ScanPipelineStages` | `NoAbortNoDbError`, `NoEmptySubmission` | `Spec => []QuietScanIsClosed` |
| `DeletedForGood` | `ScanPipelineRows` | | `Spec => NoResurrection` |
| `RowsImplemented` | `ScanPipelineRows` | | `Spec => ImplementsScanRows` |
| `CompletedIsTrue` | `ScanPipelineRows` | `Solo`, `OneRequest` | `Spec => []CompletedMeansSuccess` |
| `AlwaysRightList` | `TaskQueueProofs` | | `Spec => []RightList` |
| `QueueDeliversOnce` | `TaskQueueProofs` | one consumer, no more payloads than `PromoteBatch` | `Spec => ImplementsWorkQueue` |
| `PoolTypeCorrect` | `WorkerPoolProofs` | | `Spec => []TypeOK` |
| `PoolBounded` | `WorkerPoolProofs` | | `Spec => []PoolWithinBounds` |
| `ManagerLosesOnlyLate` | `WorkerPoolProofs` | | `Spec => []LossOnlyLate` |
| `NoOtherStray` | `WorkerPoolProofs` | | `Spec => []StrayOnlyIfSwallowed` |
| `LimiterTypeCorrect` | `RateLimiterProofs` | | `Spec => []TypeOK` |
| `RateAlwaysHolds` | `RateLimiterProofs` | | `Spec => []RateHolds` |
| `GlobalAlwaysPaid` | `RateLimiterProofs` | | `Spec => []GlobalPaysForScans` |
| `ForgettingIsFree` | `RateLimiterProofs` | | `Spec => ExpiryGrantsNothing` |
| `RecoveryIsSeen` | `RateLimiterProofs` | | `Spec => NoSilentRecovery` |
| `EveryBreachIsNamed` | `RoutesProofs` | | `CollectorSpec => ReportNamesEveryBreach` |
| `FindingsUnordered` | `RoutesProofs` | | `CollectorSpec => []OrderIndependent` |
| `ListedSuccessAlwaysHasResponse` | `RoutesProofs` | | `ViewsSpec => []ListedSuccessHasResponse` |
| `SwapsAlwaysAgree` | `RoutesProofs` | | `ViewsSpec => []SwapsAgreeWithReport` |
| `CopilotAlwaysCountsOnce` | `RoutesProofs` | | `ViewsSpec => []CopilotCountsOnce` |
| `SwapsAlwaysMeetCrawler` | `RoutesProofs` | | `GenSpec => []SwapsMeetCrawler` |
| `AlwaysStaysOnTarget` | `RoutesProofs` | | `GenSpec => []StaysOnTarget` |
| `MutationsAlwaysSurvive` | `RoutesProofs` | | `GenSpec => []MutationsSurvive` |
| `AuthTypeCorrect` | `ApiProofs` | | `AuthSpec => []AuthTypeOK` |
| `UsedUpForGood` | `ApiProofs` | | `AuthSpec => []UsedUpStaysUsedUp` |
| `LateRegistrationStaysUser` | `ApiProofs` | | `AuthSpec => []LateRegistrationIsUser` |
| `WindowAlwaysHolds` | `ApiProofs` | | `WindowSpec => []WindowHolds` |
| `RetryAfterSuffices` | `ApiProofs` | | `WindowSpec => []RetryAfterIsEnough` |
| `QuietStreamStaysComplete` | `ApiProofs` | | `StreamSpec => []QuietStreamIsComplete` |

`Solo` says that there is at most one engine, as `executor/worker_main.py` starts
it, with any concurrency. With more engines `OneCarrier` is false (finding 4), and with it
what counts attempts; that no task is stranded and that a quiet scan is closed stay true, although
two coroutines may then write one row.
`OneRequest` says that all tasks come in one `POST /scans/{id}/tasks`: a second
submission adds tasks to a scan that may already say COMPLETED.

`AnalysisAssumption` says that the threshold is not below the 0.65 that `_check_bola`
(`issue_classifier.py`) hard-codes, as every caller passes 0.65 to the diff engine; `CollectorAssumption`
and `ViewsAssumption` are about types, and say that a scan's tasks are finitely many.

`NoAbortNoDbError` and `NoEmptySubmission` say that no request is cancelled, no
session fails and each submission has a task; Redis may fail, payloads may be lost, the process may
crash, and there may be any number of engines. They are needed: a cancelled request, an
evaluation that fails, or a submission of nothing leaves a scan open that nothing will ever close. The two hypotheses of
`QueueDeliversOnce` are needed as well, as the runs `queue_two_consumers` and
`promotion_overflow` show.

- *Types.* `TypeOK` is inductive: it includes that a coroutine about to schedule a
  retry has one left, from which the new payload is a payload (`RetryPayload`).
- *One carrier.* Not inductive alone. `SoloInv` adds `Fresh` (a task whose
  request has not published it has no payload and no coroutine, so publishing
  cannot make a second copy) and `ReadIsDelayed` (what a promotion has read
  is still in the sorted set, as only the one engine removes members, so the MULTI
  moves and never copies). Most actions satisfy `NoNewCarrier`, and one lemma
  covers them; publishing, promotion, BLPOP and scheduling have a lemma each.
- *No stranded task.* A coroutine may let go of a task only when its row is settled or somebody else
  will settle it. With several engines a payload may have been copied, so what a coroutine has loaded may be
  stale. `WayInv` says that of those who hold a pending task one is `Settling`: it has not loaded the row,
  or has loaded the status the row still has, and its save is not `Doomed`, by a response that another has
  inserted since, to fail on the unique key. What makes this inductive is that whoever dooms others settles the task himself:
  a save that is to insert the response has loaded QUEUED or PROCESSING, so that the verdict it writes replaces that
  status (`Informed`), as a status that a worker writes after an answer is never there without a
  response (`AnswerIsThere`) and a row is there before its payload (`KnownIsStored`).
- *Deletion.* `Gone` (no task and no response row) is stable, because each commit
  checks the row it writes; `VerdictKnown` (an evaluation writes COMPLETED or
  FAILED) shows that only `DeleteScan` enters it.
- *The rows refine `ScanRows`.* The refinement mapping is the identity on `scan`, `status`
  and `resp`, so each commit has to be a step of `ScanRows` and nothing else may write. `RowInv` says
  when: `Unstored` (a submission has no row before its INSERT), `RowStays` (a
  response that a session has loaded is still there unless the scan is deleted,
  so an unchanged column is not an empty one), `VerdictKnown`, and with `Solo` that nobody
  may still write a task that has succeeded (`SuccessIsFinal`): it is in no queue, and the
  coroutine that holds it has only its evaluation left. With two engines
  `ScanRows` allows the second write (`Again`), so the theorem needs no `Solo`.
- *Completed.* `AllOrNone` (one INSERT stores all rows) and `StillRight`: what an evaluation has
  read stays true until it commits, as by `SuccessIsFinal` only a deletion takes a SUCCESS away.
- *Attempts and dead letters.* `StageInv` relates what each coroutine has loaded to the current row: while it saves,
  its loaded row is current, since by `OneCarrier` nobody else writes it; once it has saved, the row has the
  outcome's status until it updates it. `LedgerInv` is the stage invariant continued: `Ledger` says what the
  place of a task's payload (publisher, list, sorted set, dead letter list, none) tells of its row,
  `Account` what a coroutine has counted and saved of it at each label. Both counters are only ever
  raised on the way through one coroutine, and by `OneCarrier` there is one.
- *Quiet scan.* An evaluation that finds a task pending returns early and leaves the scan to a later one. `EvaluationComes`
  says where that one comes from: a request, a queued payload, or a coroutine that has not loaded the
  scan yet, has loaded it unfinished, or will retry. The point is the commit that
  writes nothing as the session has loaded the verdict already: it is no coroutine's last unless the row still has it.
  With several engines a save that fails on the unique key is followed by no evaluation (`WillEvaluate` leaves it out), but the
  coroutine that has inserted the response goes on to evaluate; and the pending task for which an evaluation
  returns early is on its way by `WayInv` (`TooEarlyLeavesAnother`).
- *Queue.* `QueueInv`: a payload is in one place of one key (`Once`), and between its
  read and its MULTI the consumer has read exactly what it will remove (`Batch`). Then promotion is a
  stutter, and each other command one step of `WorkQueue`. The lemmas before it say what filtering,
  removal at a place and insertion in score order do to the members of a sequence.
- *Pool.* Bounds: the monitor may remove an engine only above the floor, and still is above it when `stop()` returns
  (`FloorKept`), as it awaits one `stop()` at a time (`MonitorAtOne`). Loss: `StoppedByManager` says how far each
  `stop()` has come: what `gather` does not await was fetched late, unless the stop has raised before it. `HeldOnce` keeps the payloads of engines apart. Strays: `NobodyScales`.
- *Limiter.* `AccountsHold` keeps an account per bucket: what was taken and what is left is at most a capacity and
  the refill up to `last_refill`, with `back` added in Redis; an expired hash starts again with
  a capacity, which `Lifetime` has paid for. `GlobalPaid` counts the coroutines that are past the global bucket as
  paid for and not yet granted. `FullAtExpiry` and `SeenIsCurrent` carry the two action properties.
- *Analysis.* `CollectorInv`: what was found belongs to the buffer as it was last processed, so a flush reports the
  whole buffer or hides what came later. The rest is about operators: a response's group is found under
  its endpoint, an administrator's response is paired with every challenger of the group, an anomaly of a
  pair becomes an issue and an issue a vulnerability of the report. A ratio above the threshold stays above it when
  rounded. With an administrator's response in each group of two or more, the pairs depend on the members
  of the buffer alone (`AllCompared`), so any rearrangement finds the same.
- *Role swaps.* `SwapsTold`: the answer was computed from what the session holds, in some order of its
  tasks; each of its pairs is one of the report's, whose rows are the same.
- *Views.* `ViewsInv` follows the session: what a list tells as a success has its response in what was read, or still in the
  table (`ListTrue`), as responses stay; what the copilot takes for a success is one until it counts (`CopilotTrue`).
  Both rest on `SuccessIsSaved`, an invariant of `ScanRows`.
- *Generation.* `GenInv`: the endpoints are the parser's, or the source itself, which needs no token (`FoundInv`),
  and every task is one of the three makers', the first two of which have made all of theirs when the tasks are submitted
  (`TasksMade`). The rest is about operators. Each mutation sets one part of a request, but for the
  method override (`Shaped`), and its URL goes where the original goes, or names no host, or keeps the path of
  one that is `Astray`, the digits of its last number being found in its host or port (`Near`); that the piece where
  a number is replaced holds those digits is `PlaceIsNumbered`. What the new digits are does not
  matter, so the recursive `Decimal` is never expanded. Of the mutations with
  one fingerprint the first is kept (`Deduplicated`), and equal fingerprints mean equal
  parts unless all are empty (`SamePrint`). What flattening a list of lists gives is `Flattened`: its
  recursion over the natural numbers is solved by their well-foundedness.
- *Accounts.* `AuthInv` gives the types of arguments and answers per operation.
  `UsedInv`: whoever has used a token up finds it in the table from then on, and whoever begins
  later still has to look or was refused. `LateInv`: an opened account is in the table,
  so no later registration finds itself first, and `RoleFor` gives it "user".
- *Window.* `Tracks`: the deque is a suffix of the history, and every request of
  the history that it dropped is more than a window old. Full means `Limit` members, so the one
  `Limit` places back is older than a window when another is let through. That a suffix
  starts at the oldest live entry needs a minimum of a set of naturals, which well-foundedness gives.
- *Retry-After.* `PromiseInv`: the first entry of a refused client's deque leaves the window before the
  promised time, since rounding down and adding one is no less than rounding up.
- *Stream.* `Alone`: a worker that nobody has disturbed at a row holds what is stored there and is its
  only holder. `Newest`: for every row that is not `unsure`, when nobody owes an event of it, its
  last event in the channel brings what is stored; when none is there, the client was told it.

Only model-checked: liveness (`TasksSettle`, `ScanSettles`, `NoStarvation`,
`DeadWorkersVanish`, `StoppedLoopEnds`, `ShutdownCompletes`, `AcquireAnswers`), which is out of
the prover's reach. For several engines `AttemptsAgree`,
`DeadLetterExact` and `CompletedMeansSuccess` are neither proved nor claimed: they rest on `OneCarrier`,
which finding 4 refutes there.

## 6. Not modelled

- The legacy queue, the Redis client, metrics, settings, the crawler, the
  frontend and the deployment files: `PROJECT.json` gives the reason of each.
- In the pipeline: malformed payloads in Redis (the code only writes what
  it can read), Redis evicting keys, two scans at once (they share only the queue and
  the limiter), and the text of requests and responses.
- In the middleware: health, security headers and logging, which only read.
- In the analysis: the JSON, Markdown and HTML renderings of a report, titles and recommendations.
- In the accounts: passwords and signatures (assumed sound) and the expiry of tokens, which
  only refuses more.
- In the generation: parameters (every caller passes none, so `paramMutator.js` returns nothing),
  the parser's resolution of references, the literal payload lists.
- `copilot_routes.py` beyond the context it gathers: prompts and an external
  language model.
