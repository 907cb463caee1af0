# Verification of fishRadar2

fishRadar2 watches second-hand market searches.  A Go service (`radar-control`)
serves the API and keeps tasks, tenants and results in MySQL; Python workers
(`radar-probe`) run the spiders and the AI analysis; a Vue portal shows it all.
This directory holds TLA+ models of its control logic, the TLC runs that check
them and TLAPS proofs about them.

Source paths below are relative to the repository root; `control/` stands for
`services/radar-control/internal/` and `probe/` for `services/radar-probe/`.

## 1. The system

| Component | State it keeps | Operations | Talks to |
|---|---|---|---|
| Task API (`control/http/task_handlers.go`, `control/tasks`, `control/runtime`) | table `tasks` (`enabled`, `is_running`, ...) | create, update (PATCH), delete, start, stop, generate | job queue, realtime hub |
| Job queue (`control/workerqueue`, `probe/tools/worker_job_runner.py`) | table `worker_jobs`, Redis list of job ids | enqueue, claim by id / key / oldest, finish, progress, give back stale claims | API on one side, workers on the other |
| Worker (`worker_job_runner.py`) | `running_tasks` in memory, one sequential loop | monitor, claim, handle start / stop / generate / reanalyze | MySQL, Redis, child processes |
| Generation and reanalysis (`control/generation`, `control/reanalysis`, `probe/tools/*_bridge.py`) | `worker_jobs` rows with steps and result | create job, poll job, wait for job, bridge events | worker, API client |
| Spider (`spider_v2.py`, `probe/src/scraper.py`, `rotation.py`) | attempt counter, rotation pools, processed links | attempt loop, rotation, risk-control errors | failure guard, dispatcher, browser |
| Failure guard (`probe/src/failure_guard.py`) | table `task_failure_guards`: failures, pause, day of the last notice, time of the login state file, by task name | should_skip_start, record_failure, record_success | spider, notifications |
| Item dispatcher and seller cache (`item_analysis_dispatcher.py`, `seller_profile_cache.py`) | asyncio tasks, semaphores, entries and loads in flight | submit, join, get_or_load | AI service, result storage, browser |
| AI analysis (`ai_service.py`, `ai_client.py`, `ai_account_service.py`, `image_runtime_service.py`, `platform_settings_service.py`) | table `ai_accounts`, settings in `app_metadata`, pictures on disk | download, choose an account, ask with fewer parameters, edit, save settings | providers, spider, reanalysis |
| Login states (`account_state_service.py`, `control/accounts`) | table `account_states`, runtime files written from it | upload, delete, rewrite the files at each launch | spider, failure guard |
| Result storage (`result_storage_service.py`, `control/results`) | `result_items`, `price_snapshots` | save once per link, query, delete, blacklist | spider, API |
| Auth, tenants, activation codes (`probe/src/services/auth_service.py`, `control/auth`, `control/tenants`) | sessions, users, tenants, codes | register, login, redeem, extend, disable, expire | API |
| Realtime hub (`control/realtime`) | set of clients with buffered channels | register, unregister, publish, dispatch | Redis pub/sub, portal |
| In-process host (`probe/src/services/process_service.py`, `scheduler_service.py`, `probe/legacy/web_api`) | processes, exit watchers, scheduled jobs, lists of manual tasks in `app_metadata` | start, stop, watch exit, reload jobs, enforce workspaces, restore after a restart | table `tasks`, spiders |
| Notifications, settings, prompts, announcements, logs, dashboard, portal | rows and files of their own | reads and single writes | - |

### What is hard

* A request is several SQL statements with no transaction; requests and workers
  interleave between any two of them.
* A job reaches a worker on two ways (Redis list, table poll) in two orders
  (the list is popped where it is pushed, the poll takes the oldest).
* A worker and its children die together; only the tables survive, and what
  they say (`is_running`, `claimed`, `running`) was true of the dead worker.
* Several workers share the queue but not `running_tasks`.
* Ends of processes are noticed by polling, between jobs; in the in-process host
  by watchers that interleave with everything else on one event loop.
* Rows are read, changed in memory and replaced as a whole (tasks, settings,
  tenants), by writers that overlap.
* The analysis tasks of an attempt run while its pages are walked, share its
  browser and a cache with loads in flight, and can each fail.
* Files are shared by name between processes: login states, pictures.

### What makes the components correct

* Queue: a job is handled by one worker at a time, finished once, never lost.
* Worker: no live process is forgotten; `is_running` and the registered process
  agree when no step is in between; a completed stop job has ended the process.
* Generation, reanalysis: a client that waits gets an answer; a completed job
  stays completed.
* Failure guard: a task is paused after its threshold, resumes after the pause
  or a new login state, and notifies at most once a day.
* Spider: at most the configured number of attempts, rotation never reuses a
  blocked item, risk control ends the run.
* Dispatcher: an item is analysed and told once per run, no task outlives the
  browser it uses, a run that ended well stored what it counts as processed.
* AI analysis: it fails only when every account failed for a reason of its own;
  the pictures it downloaded are in its requests.
* Tenants: registered whole or not at all; a spent code stays spent; a tenant
  that was disabled does not come back on its own; an extension adds its minutes.
* In-process host: no live process is forgotten, the flags settle, what a
  shutdown cut is restored, the spiders of a closed workspace are stopped.

## 2. Modules

| Module | Content | Extends / uses |
|---|---|---|
| `TaskControl` | start, stop, create, update, delete of tasks; `worker_jobs`, the Redis list, workers and their spiders | - |
| `JobQueue` | what the queue promises: submit, claim, finish, die, restart | - |
| `TaskControl_proofs` | theorems about `TaskControl` | `TaskControl`, `JobQueue` through it |
| `BridgeJobs` | generation and reanalysis jobs: client, row, worker, bridge process, pipe | - |
| `BridgeJobs_proofs` | theorems about `BridgeJobs` | `BridgeJobs` |
| `FailureGuard` | the three operations of the circuit breaker, clock, login state file | - |
| `FailureGuard_proofs` | theorems about `FailureGuard` | `FailureGuard` |
| `SpiderRuns` | launches, attempts and outcomes of the spiders of one task name | `FailureGuard` |
| `SpiderRuns_proofs` | theorems about `SpiderRuns` | `SpiderRuns` |
| `SpiderItems` | the inside of one run: rotation, walk over pages and items, dispatcher, seller cache, result rows | - |
| `SpiderItems_proofs` | theorems about `SpiderItems` | `SpiderItems` |
| `AiAnalysis` | the analysis of one item: pictures, accounts, requests and fallbacks, settings | - |
| `AiAnalysis_proofs` | theorems about `AiAnalysis` | `AiAnalysis` |
| `Tenancy` | registration, sessions, activation codes, the administrator's updates | - |
| `Tenancy_proofs` | theorems about `Tenancy` | `Tenancy` |
| `ProcessHost` | the in-process host: requests, cron, watchdog, hooks, lifespan | - |
| `ProcessHost_proofs` | theorems about `ProcessHost` | `ProcessHost` |
| `MCTaskControl`, `MCBridgeJobs`, `MCSpiderRuns`, `MCSpiderItems`, `MCAiAnalysis`, `MCTenancy`, `MCProcessHost` | values and symmetries for TLC | the module they check |

`TaskControl` is composed with its abstract `JobQueue` by a refinement;
`SpiderRuns` composes the spider with the operations of `FailureGuard`.  An
attempt that is one step of `SpiderRuns` (`Attempt`) is the subject of
`SpiderItems`; an analysis that is one step of a dispatcher's job there
(`Analyse`) is the subject of `AiAnalysis`.  A start or stop of `TaskControl`
has its counterpart in `ProcessHost`, the older runtime in which the web API is
its own worker.

### TaskControl

| Variable | In the code |
|---|---|
| `row`, `isRunning` | `tasks`: the row with its `enabled`, and `is_running` |
| `jobs`, `nextJob` | `worker_jobs` (type, task, status, worker), its AUTO_INCREMENT |
| `redis` | the list `QUEUE_NAME`, head first; RPUSH and BRPOP use the same end |
| `api[h]` | a request: the next statement and the values it has read |
| `wpc[w]`, `cur[w]`, `outcome[w]` | a worker: the next statement of `main`, the job, the status it will write |
| `scan[w]` | what is left of the loop of `monitor_finished_processes` |
| `entry[w]` | `running_tasks`, with what `process.poll()` would say |
| `stray[w]` | live processes no entry names: history, for `NoStraySpider` |

One action is one statement, one Redis command or one process operation, so any
two actors interleave where the code lets them.  `StartTask` and `StopTask` are
the reads of `worker_manager.go`; `CheckActive`, `InsertJob` and `PushJob` are
`hasActiveJob`, the INSERT and the RPUSH of `enqueueTaskJob`; `SaveTask` is the
upsert that ends both `Create` and `Update`, with the values read earlier.  On
the worker, `PollEntry`, `PopRedis` / `PopNothing`, `SelectOldest`, `ClaimJob` /
`ClaimLost` are one round of the loop, `LookupTask`, `LaunchSpider`,
`MarkRunning` are `handle_start_job`, `SignalSpider`, `ForgetSpider`,
`ClearRunning` are `handle_stop_job`, `FinishJob` is `finish_job_sync` and
`Boot` is `clear_stale_claimed_jobs_sync`.  `HandlerRaises` is the inner
`except` of `main`, `MainRaises` its `finally`, `Crash` a SIGKILL.

### BridgeJobs

| Variable | In the code |
|---|---|
| `jobs[j]` | the row: status, `claimed_by`, `current_step`, `steps_json`, result, error |
| `client[j]` | the page that polls `generate-jobs/{id}`, or the request in `waitForCompletion` |
| `bridge[j]` | the last process launched for the job, how far it is, and its stdout |
| `made[j]` | tasks created, or records gone through, for the job: history |
| `wpc[w]`, `cur[w]`, `local[w]` | the worker, its job, the `steps` and `last_step` of the handler |

The bridge (`BridgeProgress`, `CriteriaProgress`, `CriteriaFails`,
`BridgeCreate`, `BridgeRecord`, `BridgeResult`, `BridgeRaises`, `BridgeExits`)
runs ahead of the worker that reads its events: `ReadProgress`, `ReadResult`,
`ReadError`, `ReadEnd` are `handle_generate_job`, `ReadReanalysis` is
`handle_reanalyze_job`, and `WriteProgress`, `WriteCompleted`, `WriteFailed` are
the UPDATEs they make.  The criteria steps are those `generate_criteria`
reports, and its errors arrive as a failure of its own step.  After a result or
an error the handler waits five seconds (`Wait`, `WaitExpires`); whatever it
raises ends in `Fail`, the `except` of `main`, which also drops the reading end
of the pipe.  A claim is one step here; its races are the subject of
`TaskControl`.

### FailureGuard and SpiderRuns

`entry` is the row of one task name, `mtime` the modification time of the login
state file, `now` the clock.  `streak` (failures since a success or a new login
state) and `notices` (notices since then, on this day) are history.
`ShouldSkipStart`, `RecordFailure` and `RecordSuccess` are the methods of the
class, each one a transaction.  `GuardSpec` calls them in any order.

`SpiderRuns` replaces that freedom by the program: a launch rewrites the runtime
files twice (`launch_task_process` and `spider_v2.py`; `ClearFiles` and
`WriteFiles` are the two halves of `materialize_runtime_account_states_sync`),
`NoLoginState` and `NotRun` the runs `spider_v2.py` ends before they begin,
`Ask` is the question to the guard, `Attempt` the loop of `scrape_xianyu`,
`Succeed` and `Failed` the outcome it records.  Runs with the same task name are
separate processes that share the row and the file.

### SpiderItems

| Variable | In the code |
|---|---|
| `run` | where `scrape_xianyu` and `_run_scrape_attempt` are, with their locals: attempt, chosen login state, failed ones, page, links |
| `job[i]` | the asyncio task of the dispatcher for an item |
| `load[s]`, `profile` | `SellerProfileCache`: `_inflight` and `_entries` |
| `result[i]` | `result_items`: whose record is stored under the item's key |
| `past` | history: what the run knew, analysed, told and visited |

`Start` and `Skip` begin a run, `Select` is `_select_account` with the pool it
draws from (`Rotated`; `Marked` is `mark_bad`, which blacklists nothing when the
TTL, clamped by `Ttl`, is zero), `Open`, `Filter`,
`ListPage`, `TakeItem`, `Submit`, `Miss`, `PageDone`, `PagesEnd` are the walk of
`_run_scrape_attempt`, each with its failures, `Join` its `finally`, and
`AttemptEnds` the loop around it.  `Acquire`, `SellerKnown`, `SellerMissing`,
`Analyse`, `Save`, `Notify` are `_process_with_limit` and `_process_job`;
`LoadStores`, `LoadRaises`, `LoadEnds` are the load in flight of the cache; an
entry past its TTL is dropped in `SellerMissing`.  `Cancel` is SIGTERM, `Kill` SIGKILL, `DeleteResults` a
user, `OtherSaves` another process with the same keyword.  A step is what runs
between two awaits that matter.

### AiAnalysis

| Variable | In the code |
|---|---|
| `file[i]` | the picture file of an item |
| `account`, `gateway` | rows of `ai_accounts`, and what the gateway behind each can do |
| `stored` | `platform:ai_runtime_settings` in `app_metadata` |
| `job[n]`, `save[m]` | an analysis and a saving request, with what they have read |

`Look`, `Get`, `Write`, `Cleanup` are the pictures; `ListAccounts`,
`NextAccount`, `Prepare` the account pool; `Refuse`, `Empty`, `Invalid`,
`Answer` what may come back of a request, `Retried` which parameter
`AIClient` leaves out next; `SeedSettings`, `SaveReads`, `SaveSeeds`,
`SaveWrites` the settings.  `OtherTouches` is another process at
the same picture.

### Tenancy

| Variable | In the code |
|---|---|
| `tenant[t]`, `userId[t]` | the row of `tenants`, and `users.id` of its owner |
| `session` | owners with a row in `auth_sessions` |
| `code[c]` | the row of `activation_codes` |
| `req[q]` | what the thread of a request holds between its statements |

A request is a read and a write with anything in between: `RegisterReads` /
`RegisterWrites`, `LoginReads` / `SessionBegins`, `Ask` / `RedeemReads` /
`RedeemWrites`, `UpdateReads` / `UpdateWrites`; a registration goes on to begin a
session like a login (`Enters`).  `Unlimited` is `access_expires_at` NULL, an
access without an end.  `Overtake` is history: it marks
the requests whose row another one has just changed.

### ProcessHost

| Variable | In the code |
|---|---|
| `host`, `todo` | the lifespan of the app, and the tasks it has still to restore or stop |
| `row[t]`, `open` | `tasks`, and the tenants whose workspace is enabled |
| `jobs` | tasks with a job of the scheduler |
| `proc[p]` | processes of the operating system |
| `slot[t]`, `watch[p]` | `ProcessService.processes`, `exit_watchers` |
| `act[a]` | a request, the scheduler, the watchdog or the lifespan between two awaits |
| `writer[w]` | a read, change and REPLACE of a task row, of a hook or a request |
| `manual`, `saved`, `snapshot` | `_manual_task_ids`, and its two lists in `app_metadata` |

`Begin` to `Register` are `start_task` with its awaits, `Halt`, `Reaped`,
`Halted` are `stop_task`, `Exit`, `Killed`, `Reap` the end of a process and its
watcher, `ReadFlag`, `ReadRow`, `Replace` the writing of a row by a hook or by the
requests that patch and create tasks (`Written` is what follows), `Request...` the
routes,
`Sweep` and `Enforce` the watchdog, `CronFires` the scheduler, `Boot`,
`Restore`, `Shutdown`, `StopAll` the lifespan, `Crash` a SIGKILL of the host.

## 3. What TLC checks

| Run | Instance | States | Shows |
|---|---|---|---|
| `TaskControl_one_worker` | 2 requests at a time, 1 worker, 1 task, 3 jobs, 1 kill, 1 error | 489 664 | `TypeOK`; `FlagAgrees`: flag and registered process agree in every order of requests, exits and polls; `StopEndsSpider` |
| `TaskControl_two_workers` | 2 requests, 2 workers of different names, 2 jobs, 1 kill, 1 error | 888 172 | `ClaimExclusive`, `TerminalIsFinal`, and `ImplementsQueue`: the tables, the list and the races implement `JobQueue` |
| `TaskControl_requests` | 1 request at a time of any kind, 1 worker, 1 id that is freed and given again, 2 jobs, 1 kill, 1 error, fair | 164 603 | `NoStraySpider`, `NoDuplicateActive`; every job ends (`JobsFinish`), the end of a spider clears its flag (`ExitClearsFlag`) |
| `BridgeJobs_two_workers` | 1 generation, 1 reanalysis, 2 workers, 4 steps, 2 records, 1 kill, 1 error, 1 late exit | 1 405 609 | `StepsAgree`, `CompletedIsReal`, `AnswerStays`, `BridgesDoNotOverlap` |
| `BridgeJobs_live` | the same with 1 worker and 1 record, fair | 277 666 | `JobAnswered` |
| `FailureGuard_alone` | threshold 2, pause of 3 ticks, days of 2, 8 ticks, 3 new files, 4 failures | 16 457 | `GuardTypeOK`, `ToldOnceADay`, `OpensAtThreshold` |
| `SpiderRuns_shared_name` | 2 processes, 3 launches, 2 attempts each, 1 upload, 1 error or kill | 328 736 | `OneOutcome` |
| `SpiderItems_one_run` | 2 items of one seller, 2 login states, 2 attempts, 2 pages, 2 permits, a blacklist TTL of 0 or 300, 2 faults, 1 deletion, every strategy, fair | 1 420 834 | `TypeOK`, `WorkedOnOnce`, `BrowserOutlivesJobs`, `SuccessIsStored`, `VisitsAreShared`, `RotatesAway`, `RunEnds` |
| `AiAnalysis_one_item` | 1 analysis after another, 2 accounts, every kind of gateway behind the first, 1 administrator, 2 edits, saves or faults | 2 903 294 | `TypeOK`, `ErrorHasReason`, `PicturesArrive`, `SettingsHold` |
| `Tenancy_two_requests` | 2 requests at a time, 2 tenants and the platform's, 1 code, durations 1 and 2, clock to 1, 2 updates | 2 129 546 | `TypeOK`, `RegisteredWhole`, `SpentIsRefused`, `DisableHolds`, `ExtensionAdds` |
| `ProcessHost_one_task` | 1 task with a cron expression, 2 processes, 1 request at a time, 1 crash or change of the workspace or edit, fair | 441 590 | `TypeOK`, `NoStraySpider`, `FlagSettles`, `CutRunsAreRestored`, `ClosedTenantStops` |

The run `SpiderRuns_threshold` is the subject of section 4.  Each property of
the runs above has a mutant of the code in the module (a comment
`Mutant:` above it) under which the run fails.

### Why the bounds are enough

* Two requests and two workers: every race of the code is between two
  statements of two actors; more actors add repetitions.  The proofs of section
  5 hold for any number.
* Three jobs are start, stop, start of one task: each handler runs with every
  state of `running_tasks` it may find.  One task: `entry`, `isRunning` and
  `stray` of different tasks never meet in an action; what tasks share, the
  queue, is checked with start and stop jobs of one task.  With one id, a
  deleted task's id is given to the next one at once.
* One kill and one error at any step, together or apart: a restarted worker
  starts without memory from whatever the tables say, which is the case that
  matters.  What section 5 proves holds for any number of both.
* `BridgeJobs` takes four of the six steps: the first (prepare), one of those
  of `generate_criteria`, which are alike, the one that saves, and the last,
  which creates the task.
* The guard's clock runs over four days and two whole pauses; two failures reach
  the threshold, four go past it.
* `SpiderItems`: two items of one seller meet in the cache and at the semaphore;
  two pages let an item come up twice, two attempts let it come up again after a
  failure and the pool rotate.  The limit of attempts is computed from the two
  retry limits, one of them below one; the two TTLs are the two branches of
  `mark_bad`.  Two faults are an error in an attempt
  and another while it is being cleaned up.
* `AiAnalysis`: analyses share nothing but the picture, where `OtherTouches`
  stands for all the others.  A second account shows what the first one's
  failure leaves; behind the first is every combination of APIs and parameters.
* `Tenancy`: each race is between the read and the write of one request and the
  write of another; two tenants race for one id.  Section 5 has the proofs for
  any number.
* `ProcessHost`: tasks share only the scheduler and the lifespan, which treat
  each alike, and the two processes are an old one that still ends and a new
  one.  A request, cron, the watchdog, the lifespan and the hooks of both
  processes run at the same time.
* `SpiderRuns`: three launches are one more than the processes and than the
  threshold; `RunConstants` makes sure that neither bound of the guard ever
  stops a run.
* `CHECK_DEADLOCK FALSE` stands where jobs or launches are finite and all of
  them may be over.

### Fairness

* `TaskControl`: weak fairness of a worker's next step and of the SIGKILL that
  follows SIGTERM.  The loop never waits but for the process it signalled (ten,
  then five seconds), `BRPOP` has a timeout and the container is
  `restart: unless-stopped`.  No request, exit, kill or error is fair.
* `BridgeJobs`: the worker's next step; the bridge's, since its requests have
  timeouts; the poll of a client that has not given up.
* `SpiderItems`: the walk, each analysis task and each load in flight, since
  pages, requests and statements have timeouts and the event loop runs what is
  ready.  Which way a step ends is free, and nobody has to start or cancel a run.
* `ProcessHost`: the continuation of a stop, of a hook and of the watchdog, and
  the effect of a signal: the loop runs what is ready, and SIGKILL follows
  SIGTERM.  No request, cron, exit, crash or change of a workspace is fair.
* The other runs need none.

## 4. What the code does not hold to

`SpiderRuns_threshold` is the one run that finds its property violated:
`OpensAtThreshold`, which `FailureGuard_alone` shows of the guard by itself, fails
in the program.  Every launch rewrites the login state file; the guard takes it
for a new login state and starts its count again, so that a task with a login
state never reaches a threshold above one, although
`probe/tests/test_failure_guard.py:30` expects the third failure in a row to
open the circuit.

Further limits show in the conditions of the passing properties, or in what an
instance leaves out.  Task API, queue and worker:

* `FlagAgrees` leaves out the PATCH that reads the row, waits while the worker
  sets `is_running`, and upserts every column (`control/tasks/service.go:178`):
  the spider then runs with its flag at 0 and cannot be stopped, against
  `docs/business-flow.md:95-96`.  TLC finds it when the clients start and update.
* `StopEndsSpider` is checked with one worker: a second one that claims the stop
  job finds nothing in its `running_tasks`, clears the flag and completes the
  job while the spider runs on (`worker_job_runner.py:510`), although
  `docs/architecture.md:15` calls workers independently scalable.  TLC finds it
  in the instance of `TaskControl_two_workers`.
* `ExitClearsFlag` and `FlagAgrees` hold up to the first kill: nothing clears
  `is_running` of a dead worker's tasks (`ResetAllRunningFlags` has no caller).
* `JobAnswered` holds up to the first kill: rows in `running` are not given back.
* `AnswerStays` holds while bridges exit in time: `process.wait(timeout=5)`
  raises after the job was completed, and the `except` of `main` writes `failed`
  over it (`worker_job_runner.py:589`).
* Closing the AI client after a good answer is inside the same `try`
  (`prompt_utils.py:94-103`): if it raises, the criteria are lost.
* `ClaimExclusive` needs workers with different `WORKER_ID`s; the compose files
  give every container of the service the same one.
* A start job that comes between a spider's end and the next poll replaces its
  entry (`LookupTask`, `LaunchSpider`), and the end is never published.
* With two requests at once `hasActiveJob` lets two active jobs of a kind
  through; `NoStraySpider` shows that the handler then finds the first process.

Spider:

* A task paused for want of a login state has no `cookie_mtime`; an uploaded
  login state does not compare as newer and the pause stays
  (`failure_guard.py:77`, against the notice of `scraper.py:1251`).
* `RiskControlError` of an item's detail page (`scraper.py:1044`) is caught by
  the `except Exception` around the item (`:1166`) and the walk goes on (`Miss`).
* A seller profile of which pages were missing is kept for the whole TTL like a
  whole one (`scraper.py:455-462`).
* With a blacklist TTL of zero, which the settings allow, `mark_bad` blacklists
  nothing (`rotation.py:41`) and the next attempt may draw the account that just
  failed; `RotatesAway` is about positive TTLs.
* An item whose record could not be saved is not known to the next run, which
  analyses and tells it again: `WorkedOnOnce` is about one run.
* Links are marked as seen before their price snapshot is stored
  (`price_history_service.py:144`), and two runs within a second share a
  `run_id` (`scraper.py:489`).

AI analysis:

* Pictures are files named after task name and URL; another process at the same
  item can remove the file, or leave half of it, which is then taken as it is
  (`image_runtime_service.py:100`, `:133`).  `PicturesArrive` excepts the
  analyses whose file another process touched.
* The first load of the settings writes the defaults, possibly over a save that
  happens meanwhile, and overlapping saves lose fields
  (`platform_settings_service.py:187`): `SettingsHold` excepts both.
* The four requests of one account are exactly enough to leave out API, JSON
  format and temperature; a fifth fallback would need a fifth.
* A database error while an account is read ends the analysis
  (`ai_service.py:42`), although others are left, and so does an error while the
  client is closed (`:53`), even after a good answer (`GivesUp`).

Tenants:

* Two redemptions that overlap can spend one code for two tenants
  (`auth_service.py:936`): `SpentIsRefused` is about redemptions that do not.
* A redemption or an extension computed from a row another request has changed
  since makes a disabled tenant active again (`:945`) or loses an extension
  (`:600-608`): `DisableHolds` and `ExtensionAdds` except the overtaken.
* A tenant without an end of access, for example one whose activation was waived
  (`auth_service.py:594-597`), is given one by an extension: now plus the minutes
  (`:599-614`, and `control/tenants/service.go:265-270`).  The portal shows such a
  tenant as "No expiry" and answers "Tenant access extended." (`en-US.ts:163`,
  `:510`).  `ExtensionAdds` is about accesses that have an end.
* A login reads the tenant and begins the session on two connections: a tenant
  disabled between the two gets a session, of which every later request asks
  the status again.
* Go and Python write the same column in different time formats
  (`control/tenants/service.go:270`, `auth_service.py:526`).

In-process host:

* Two overlapping starts of one task leave a spider nobody knows
  (`process_service.py:341`, `:361`); spiders outlive a crash of the host
  (`:313`).  `NoStraySpider` excepts the tasks where that happened.
* Hooks read and replace whole rows: two that overlap lose an update, a hook
  after a DELETE brings the row back (`legacy/web_api/app.py:75`), and a spider
  that ends before the start hook has written leaves `is_running` set.
  `FlagSettles` excepts tasks with overlapping writers.
* A crash while tasks are restored after a clean shutdown loses those that were
  not restored yet from the snapshot (`process_service.py:124`);
  `CutRunsAreRestored` is about what ran when the host ended.
* A task without a row counts as one of an open workspace (`:162-172`), and a
  scheduler reload works on a list that may be old (`routes/tasks.py:47-52`).

## 5. What is proved

Every invariant and every action property of a passing run is a theorem here:
TLC shows it on the small instance of the run, the proof for every value of the
constants.  Besides the named assumptions of the modules, which say what kind of
thing a constant is and which TLC evaluates, a theorem has only the premises its
statement names.

| Module | Premise | Meaning |
|---|---|---|
| `TaskControl`, `BridgeJobs` | `DistinctNames` | every worker has a `WORKER_ID` of its own (see section 4) |
| `ProcessHost` | `DistinctNames` | a process, a request, a fixed actor and nobody are told apart |
| `AiAnalysis` | `DistinctNames` | an analysis is not an administrator's request |
| `TaskControl` | `OneHandler` | requests come one at a time |
| `TaskControl` | `OneWorker` | one worker serves the queue |
| `TaskControl` | `OnlyStartStop` | clients start and stop tasks, and do not create, edit or delete them meanwhile |
| `SpiderItems` | `IsFiniteSet(Items)` | the market lists finitely many items |
| `Tenancy` | `IsFiniteSet(Tenants)`, `None \notin Tenants` | finitely many tenants, none of them the absent one |

`OneHandler`, `OneWorker` and `OnlyStartStop` are the conditions under which the
runs check the same properties, and the code needs each: section 4 tells what
happens without.

| Theorem | Premises | Statement |
|---|---|---|
| `TaskControl_proofs!TypeCorrect` | `DistinctNames` | `Spec => []TypeOK` |
| `TaskControl_proofs!ClaimsAreExclusive` | `DistinctNames` | `Spec => []ClaimExclusive` |
| `TaskControl_proofs!SpidersAreRegistered` | `DistinctNames` | `Spec => []NoStraySpider` |
| `TaskControl_proofs!FinishedJobsStay` | `DistinctNames` | `Spec => TerminalIsFinal` |
| `TaskControl_proofs!QueueImplemented` | `DistinctNames` | `Spec => ImplementsQueue`, the refinement of `JobQueue` |
| `TaskControl_proofs!OneActiveJob` | `DistinctNames`, `OneHandler` | `Spec => []NoDuplicateActive` |
| `TaskControl_proofs!StopJobsEndSpiders` | `DistinctNames`, `OneWorker` | `Spec => StopEndsSpider` |
| `TaskControl_proofs!FlagsHaveSpiders` | `DistinctNames`, `OnlyStartStop` | `Spec => []FlagHasSpider` |
| `TaskControl_proofs!FlagsAgree` | `DistinctNames`, `OneWorker`, `OnlyStartStop` | `Spec => []FlagAgrees` |
| `BridgeJobs_proofs!StepsAlwaysAgree` | `DistinctNames` | `Spec => []StepsAgree` |
| `BridgeJobs_proofs!CompletedAlwaysReal` | `DistinctNames` | `Spec => []CompletedIsReal` |
| `BridgeJobs_proofs!AnswerAlwaysStays` | `DistinctNames` | `Spec => AnswerStays` |
| `BridgeJobs_proofs!BridgesNeverOverlap` | `DistinctNames` | `Spec => BridgesDoNotOverlap` |
| `FailureGuard_proofs!TypeCorrect` | - | `GuardSpec => []GuardTypeOK` |
| `FailureGuard_proofs!ToldOnce` | - | `GuardSpec => []ToldOnceADay` |
| `FailureGuard_proofs!CircuitOpens` | - | `GuardSpec => OpensAtThreshold` |
| `SpiderRuns_proofs!OneOutcomeEach` | - | `Spec => OneOutcome` |
| `SpiderItems_proofs!TypeCorrect` | `IsFiniteSet(Items)` | `Spec => []TypeOK` |
| `SpiderItems_proofs!EachItemOnce` | - | `Spec => []WorkedOnOnce` |
| `SpiderItems_proofs!BrowserOutlives` | - | `Spec => []BrowserOutlivesJobs` |
| `SpiderItems_proofs!SuccessAlwaysStored` | - | `Spec => []SuccessIsStored` |
| `SpiderItems_proofs!VisitsAlwaysShared` | - | `Spec => []VisitsAreShared` |
| `SpiderItems_proofs!NextLoginDiffers` | - | `Spec => RotatesAway` |
| `AiAnalysis_proofs!TypeCorrect` | `DistinctNames` | `Spec => []TypeOK` |
| `AiAnalysis_proofs!ErrorAlwaysHasReason` | `DistinctNames` | `Spec => []ErrorHasReason` |
| `AiAnalysis_proofs!PicturesAlwaysArrive` | `DistinctNames` | `Spec => []PicturesArrive` |
| `AiAnalysis_proofs!SettingsAlwaysHold` | `DistinctNames` | `Spec => []SettingsHold` |
| `Tenancy_proofs!TypeCorrect` | finite `Tenants` without `None` | `Spec => []TypeOK` |
| `Tenancy_proofs!Registered` | - | `Spec => []RegisteredWhole` |
| `Tenancy_proofs!SpentCodesRefused` | - | `Spec => []SpentIsRefused` |
| `Tenancy_proofs!DisabledStays` | - | `Spec => DisableHolds` |
| `Tenancy_proofs!ExtensionsAdd` | - | `Spec => ExtensionAdds` |
| `ProcessHost_proofs!TypeCorrect` | `DistinctNames` | `Spec => []TypeOK` |
| `ProcessHost_proofs!NoSpiderLost` | `DistinctNames` | `Spec => []NoStraySpider` |
| `ProcessHost_proofs!FlagAlwaysSettles` | `DistinctNames` | `Spec => []FlagSettles` |
| `ProcessHost_proofs!CutRunsAlwaysRestored` | `DistinctNames` | `Spec => CutRunsAreRestored` |

Each proof module states its inductive invariant `IInv` first, as a conjunction
of named parts, then lemmas on the operators, one lemma for each action or group
of actions, and the theorems last.

### TaskControl

`IInv` is `TypeOK`, `JobsInv` (rows name tasks, rows to come are blank),
`ApiInv` (a request writes where it read), `CurInv` (a selected job exists),
`ClaimInv` (a handler holds the claim of its job), `LaunchInv` (a launch finds
no live entry) and `NoStraySpider`.  `ClaimInv` is why the rest works:
`finish_job_sync` has no condition in its UPDATE, and only the claim, which no
other worker and no other worker's restart can take, keeps it from writing over
someone else's job.  With distinct names two handlers of one job would both be
the row's `claimed_by`, hence the same worker.  The refinement maps a step of a
worker to `Claim`, `Finish`, `Die`, `Restart` or to a stutter, an `InsertJob` to
`Submit`, and everything else to a stutter.

Three stronger invariants stand on it:

* `OneActiveJob` needs `InsertInv`: between the check of a request and its
  INSERT the job is still not there.  Workers, restarts and errors only move
  jobs that are active already (lemma `ActiveBefore`); only a second request
  could add one, which `OneHandler` excludes.
* `StopJobsEndSpiders` needs `FitsInv`: what a handler has reached tells what
  kind of job it has, whether its `running_tasks` has a live process for the
  task, and which status it will write.  A stop writes `completed` only after
  the entry is no longer live, and by `NoStraySpider` there is no process
  without an entry.  An entry is that of one worker, hence `OneWorker`.
* `FlagsHaveSpiders` needs only `OnlyStartStop`: whoever sets the flag has
  registered a process, and a worker stops caring for a task (`Cares`) only in
  the step that clears the flag (`CaresUntilCleared`), for any number of
  workers.  `FlagsAgree` adds the other direction, an entry whose flag is not
  yet set or just cleared has a handler in between, where a second worker could
  clear the flag of the first: `OneWorker` again.

### BridgeJobs

* `WorkInv` binds the work to what was said of it: a bridge has done what its
  place and the events in its pipe say, and a row that says completed was
  written from such an event.
* `AliveInv`: a live bridge works for a finished job, or its worker still handles
  the job.  This gives `BridgesNeverOverlap`: a job is launched by whoever holds
  the claim, and the old bridge of a pending job died with its worker.
* `StepsInv` and `RowInv` say what a row looks like in each status, `HandlerInv`
  that the place of a handler says how far the row is; the claim keeps others
  out, as in `TaskControl`.
* `AnswerAlwaysStays` rests on the part of `HandlerInv` about `late`: the `except`
  of `main` comes to a finished job only after a bridge that did not end in time.

### FailureGuard and SpiderRuns

`ToldOnceADay` is inductive only with what the row knows.  `NoticeIInv` adds that
a counted notice is the one of `last_notified_date` and that no newer file will
clear it; `CountIInv` that the row's count is never behind the failures since the
last success or login state.  The invariant of `SpiderRuns` is one sentence: a run
that is going on has told the guard nothing yet.  Each action either leaves that
so or is the one that tells the outcome and ends the run.

### SpiderItems

* `WalkInv` says what the locals of the run are where it is; `known`, the links
  loaded before the first attempt, stays part of `links`.
* `ItemInv`: an item has a task exactly if this run submitted it, and how far the
  task is says what was done for the item.  The set of links is what makes
  `submit` happen once, however often pages and attempts list the item, so each
  count is at most one.  `join` before the browser is closed gives
  `BrowserOutlives`, on each of the ways an attempt ends.
* `SellerInv`: a load in flight has an item that waits for it, and while a seller
  is neither cached nor being loaded one more visit is allowed.  The strict
  inequality is the strengthening: without it the bound on the visits is not
  inductive.
* `NextLoginDiffers` follows the selection itself and needs no history; the
  condition of `RotatesAway` that the TTL is positive is where it uses that the
  failed account is blacklisted before the next one is drawn.
  `TypeCorrect` alone needs finitely many items, as it bounds a cardinality.

### AiAnalysis

* `PictureInv` follows a file from when it is closed to the `finally` of the
  analysis that wrote it, as long as nobody `disturbed` that analysis.
* `AskInv` has a measure, `Missing`: the parameters of the request that the
  gateway does not support.  While an account is not to blame, the requests it
  has left are more than `Missing`; each complaint takes one away.  So no account
  is given up without a reason, and the error comes only after all were tried.
  That the next account is well defined (`FirstOfAccounts`, from `LeastNumber`)
  uses the well-founded order of the natural numbers.
* `SaveInv` and `HeldInv`: a save that will write has read every field as it was
  last saved, and nobody is about to write the defaults over a saved section.

### Tenancy

Ids are unique because a registration that finds its id or name taken is rolled
back.  That the next id is above zero, and so never the id of nobody, needs a
largest id to exist: `WholeInv` has it as a conjunct, which each registration
keeps.  `SpentInv` follows a redemption from its start, where it knows what is
spent, to its write.  `FreshInv` is what the two action properties rest on: a
request that was not overtaken acts on the row as it is, since every write of a
row marks the others, and an extension counts from the row's end or from a time
the clock has reached (`Adds`).  `TypeOK` bounds the ids by the number of tenants: `DenseIds`
says that the ids in use have no gap and `NextIds` that a pending registration
found one of them or the next, and `IdsAreFew` injects `1..n` into the tenants.

### ProcessHost

* `Role`, `ActorInv` and `WriterInv` say where each coroutine can be at each stage
  of the host and what its locals are; a process that is being created is nobody
  else's.
* `ProcInv` and `SlotInv`: a live process is in the table, or being created, or its
  task was raced for; what is in the table has its watcher.  `StartInv` makes it
  inductive: where nothing raced, a task has one start at a time, and while that
  runs no process but its own.
* `FlagInv`: where no writers overlapped, the one writer of a row that is about to
  set the flag has the right value, and the row has it when nobody is.
* `CutInv`, `StopInv`, `HostInv`: what runs by hand is in the list in memory and in
  the stored one, the shutdown has yet to come to whatever is in the table, and
  the snapshot holds what ran when the host ended.

### Only model-checked

* Liveness under fairness, which is beyond the prover: `JobsFinish` and
  `ExitClearsFlag` of `TaskControl`, `JobAnswered` of `BridgeJobs`, `RunEnds` of
  `SpiderItems`, `ClosedTenantStops` of `ProcessHost`.
* What a recursive function computes for every input.  No module declares a
  RECURSIVE operator.
* That `SpiderRuns` violates `OpensAtThreshold` is a counterexample of TLC.

## 6. What the models leave out

* A failed statement has no effect; a lost answer of a statement that took
  effect is not modelled.  Published events and their suppressed exceptions are
  left out.
* `monitor_finished_processes` updates the flag and removes the entry in one
  step.  Spiders and bridges die with their container.
* Jobs of unknown type, unreadable payloads, `process_id`, messages and
  timestamps, roles, validation and listing.
* Generation jobs in the non-AI mode of the bridge: `radar-control` creates such
  tasks itself.  `refresh.go`, the AI calls and the text they produce.
* In `ProcessHost`: a PATCH of `is_running`, which `TaskUpdate` accepts
  (`domain/models/task.py:261`) and the portal's form never sends; database errors
  of the hooks and of the lists of manual tasks (`process_service.py:341-348`,
  `:449-452`); ids that two creations overlapping between `MAX(id)` and REPLACE
  give twice (`mysql_task_repository.py:78-118`), as the owner of a row is not part
  of the state.  A hook's REPLACE that its thread completes after a shutdown
  cancelled the hook counts as having come before; the next start resets the flags.
* In `SpiderItems`, a cancellation drops all tasks of the dispatcher in one step,
  while `gather` returns when the first of them is cancelled.
* In the guard: reasons, e-mail or chat delivery of the notices.
* Proxies of the spider, which rotate like login states; the content of pages;
  price history beyond its failure in `PageFails`.
* Tests of AI accounts, the building and parsing of requests beyond success,
  complaint or failure, and the keyword rules that take the place of an analysis.
* The Go handlers of the tables of `Tenancy`, roles, the login rate limit; the
  legacy `PUT` routes of settings; the in-process `TaskGenerationService`, whose
  jobs live in memory only.
* Queries, statistics, blacklists and filters over results: SQL text over rows
  whose writes are modelled.
* The fan-out of notifications and the realtime hub: best effort, no state of
  the program depends on either.  Announcements, prompts and logs are single
  statements or files; the portal is a user interface.

## 7. Plan

Done: `TaskControl` with `JobQueue`, `BridgeJobs`, `FailureGuard` with
`SpiderRuns`, `SpiderItems`, `AiAnalysis`, `Tenancy`, `ProcessHost`; the
theorems of section 5.

Next, in this order: an abstract specification of what a client of a generation
or reanalysis job may rely on, with `BridgeJobs` shown to implement it, as
`TaskControl` implements `JobQueue`; `SpiderRuns` shown to use the guard only
through its three operations, so that the theorems of `FailureGuard` carry over
to it; an abstract table of running tasks that `ProcessHost` implements where
nothing raced.
