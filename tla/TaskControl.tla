---------------------------- MODULE TaskControl ----------------------------
(***************************************************************************)
(* Starting and stopping spiders through the worker_jobs queue.            *)
(*                                                                         *)
(* Actors: the HTTP handlers of radar-control (each one a goroutine that   *)
(* reads and writes MySQL in separate statements), the worker processes    *)
(* of radar-probe (tools/worker_job_runner.py, one sequential loop each)   *)
(* and the spider processes they launch.  Shared state: the tables tasks   *)
(* and worker_jobs, and the Redis list that announces new jobs.            *)
(*                                                                         *)
(* One action is one database statement (or one select-and-decide), one    *)
(* Redis command or one process operation, so that actors interleave       *)
(* wherever the code lets them.                                            *)
(***************************************************************************)
EXTENDS Naturals, Sequences, FiniteSets

CONSTANTS
    Handlers,       \* concurrent HTTP requests
    Workers,        \* worker processes
    WorkerName,     \* the WORKER_ID each worker runs with
    MaxTaskId,      \* bound: task ids are 1..MaxTaskId
    InitialTasks,   \* ids of the tasks stored at the beginning
    Ops,            \* the API operations the clients use
    PatchedFlags,   \* values clients send as is_running in a PATCH
    UseRedis,       \* QUEUE_BACKEND = redis
    MaxJobs,        \* bound: rows ever inserted into worker_jobs
    MaxCrashes,     \* bound: kills of a worker container
    MaxFaults       \* bound: database, Redis or launch errors

TaskIds == 1..MaxTaskId
JobIds == 1..MaxJobs
NoJob == 0
NoTask == 0
NoName == "none"

ASSUME ConstantsOK ==
    /\ MaxTaskId \in Nat /\ MaxJobs \in Nat
    /\ MaxCrashes \in Nat /\ MaxFaults \in Nat
    /\ InitialTasks \subseteq TaskIds
    /\ PatchedFlags \subseteq BOOLEAN /\ UseRedis \in BOOLEAN
    /\ \A w \in Workers : WorkerName[w] # NoName

VARIABLES
    row,        \* tasks: "absent", or the enabled column of the row
    isRunning,  \* tasks.is_running
    jobs,       \* worker_jobs
    nextJob,    \* AUTO_INCREMENT of worker_jobs
    redis,      \* the Redis list of job ids, head first
    api,        \* per handler: where it is and the values it has read
    wpc,        \* per worker: where its main loop is
    cur,        \* per worker: the job selected, then claimed
    outcome,    \* per worker: the status finish_job_sync will write
    scan,       \* per worker: entries monitor_finished_processes has left
    entry,      \* per worker: running_tasks, by what poll() says
    stray,      \* per worker: live spiders no entry of running_tasks names
    crashes, faults

tables == <<row, isRunning, jobs, nextJob, redis>>
locals == <<cur, outcome, scan>>
spiders == <<entry, stray>>
budget == <<crashes, faults>>
vars == <<row, isRunning, jobs, nextJob, redis, api, wpc, cur, outcome,
          scan, entry, stray, crashes, faults>>

Terminal == {"completed", "failed"}
Statuses == {"absent", "pending", "claimed"} \union Terminal
NoJobRow == [type |-> "start", task |-> NoTask, status |-> "absent",
             worker |-> NoName]
Idle == [pc |-> "idle", op |-> "none", task |-> NoTask, job |-> NoJob,
         row |-> "absent", running |-> FALSE]

Init ==
    /\ row = [t \in TaskIds |-> IF t \in InitialTasks THEN "enabled" ELSE "absent"]
    /\ isRunning = [t \in TaskIds |-> FALSE]
    /\ jobs = [j \in JobIds |-> NoJobRow]
    /\ nextJob = 1
    /\ redis = <<>>
    /\ api = [h \in Handlers |-> Idle]
    /\ wpc = [w \in Workers |-> "down"]
    /\ cur = [w \in Workers |-> NoJob]
    /\ outcome = [w \in Workers |-> "completed"]
    /\ scan = [w \in Workers |-> {}]
    /\ entry = [w \in Workers |-> [t \in TaskIds |-> "none"]]
    /\ stray = [w \in Workers |-> [t \in TaskIds |-> 0]]
    /\ crashes = 0
    /\ faults = 0

-----------------------------------------------------------------------------
(* Statements on the tables                                                *)

\* UPDATE tasks SET is_running = v WHERE id = t: no row, no effect.
SetRunning(t, v) ==
    isRunning' = IF t \in TaskIds /\ row[t] # "absent"
                 THEN [isRunning EXCEPT ![t] = v] ELSE isRunning

\* SELECT COALESCE(MAX(id), -1) + 1: an id freed at the top is given again.
NextTaskId ==
    CHOOSE t \in 1..(MaxTaskId + 1) :
        /\ \A u \in TaskIds : u >= t => row[u] = "absent"
        /\ t > 1 => row[t - 1] # "absent"

\* Mutant: the check forgets the jobs a worker has claimed.
ActiveUnclaimed(j) == jobs[j].status = "pending"

\* Jobs the enqueueing check regards as in flight.
Active(j) == jobs[j].status \in {"pending", "claimed"}

HasActiveJob(t, type) ==
    \E j \in JobIds : jobs[j].task = t /\ jobs[j].type = type /\ Active(j)

-----------------------------------------------------------------------------
(* HTTP handlers of radar-control                                          *)

Enter(h, pc, op, t, r, run) ==
    /\ op \in Ops
    /\ api[h].pc = "idle"
    /\ api' = [api EXCEPT ![h] = [pc |-> pc, op |-> op, task |-> t, job |-> NoJob,
                                  row |-> r, running |-> run]]
    /\ UNCHANGED <<tables, wpc, locals, spiders, budget>>

Return(h) == api' = [api EXCEPT ![h] = Idle]

\* POST /api/tasks/start/{id}, up to the read that decides.
StartTask(h, t) ==
    /\ row[t] = "enabled"
    /\ ~isRunning[t]
    /\ Enter(h, "check", "start", t, row[t], isRunning[t])

\* POST /api/tasks/stop/{id}, up to the read that decides.
StopTask(h, t) ==
    /\ row[t] # "absent"
    /\ isRunning[t]
    /\ Enter(h, "check", "stop", t, row[t], isRunning[t])

\* hasActiveJob: the request is refused while a job of its kind is active.
CheckActive(h) ==
    /\ api[h].pc = "check"
    /\ IF HasActiveJob(api[h].task, api[h].op)
       THEN Return(h)
       ELSE api' = [api EXCEPT ![h].pc = "insert"]
    /\ UNCHANGED <<tables, wpc, locals, spiders, budget>>

InsertJob(h) ==
    /\ api[h].pc = "insert"
    /\ nextJob <= MaxJobs
    /\ jobs' = [jobs EXCEPT ![nextJob] =
                  [type |-> api[h].op, task |-> api[h].task,
                   status |-> "pending", worker |-> NoName]]
    /\ nextJob' = nextJob + 1
    /\ IF UseRedis
       THEN api' = [api EXCEPT ![h].pc = "push", ![h].job = nextJob]
       ELSE Return(h)
    /\ UNCHANGED <<row, isRunning, redis, wpc, locals, spiders, budget>>

\* enqueueDelivery: RPUSH.
PushJob(h) ==
    /\ api[h].pc = "push"
    /\ redis' = Append(redis, api[h].job)
    /\ Return(h)
    /\ UNCHANGED <<row, isRunning, jobs, nextJob, wpc, locals, spiders, budget>>

\* The RPUSH fails, or radar-control dies first: the client sees an error,
\* the inserted row stays.
PushFails(h) ==
    /\ api[h].pc = "push"
    /\ faults < MaxFaults
    /\ faults' = faults + 1
    /\ Return(h)
    /\ UNCHANGED <<tables, wpc, locals, spiders, crashes>>

\* POST /api/tasks, up to the id it will use.
CreateTask(h) ==
    /\ NextTaskId \in TaskIds
    /\ \E r \in {"enabled", "disabled"} :
          Enter(h, "save", "create", NextTaskId, r, FALSE)

\* PATCH /api/tasks/{id}: Update reads the row it will write back.
UpdateTask(h, t) ==
    /\ row[t] # "absent"
    /\ \E r \in {"enabled", "disabled"}, run \in {isRunning[t]} \union PatchedFlags :
          Enter(h, "save", "update", t, r, run)

\* INSERT ... ON DUPLICATE KEY UPDATE of every column, is_running with them.
SaveTask(h) ==
    /\ api[h].pc = "save"
    /\ row' = [row EXCEPT ![api[h].task] = api[h].row]
    /\ isRunning' = [isRunning EXCEPT ![api[h].task] = api[h].running]
    /\ Return(h)
    /\ UNCHANGED <<jobs, nextJob, redis, wpc, locals, spiders, budget>>

\* DELETE /api/tasks/{id}: no stop job, the row's flag is cleared instead.
DeleteTask(h, t) ==
    /\ row[t] # "absent"
    /\ Enter(h, IF isRunning[t] THEN "unflag" ELSE "delete", "delete", t,
             row[t], isRunning[t])

ClearFlagBeforeDelete(h) ==
    /\ api[h].pc = "unflag"
    /\ SetRunning(api[h].task, FALSE)
    /\ api' = [api EXCEPT ![h].pc = "delete"]
    /\ UNCHANGED <<row, jobs, nextJob, redis, wpc, locals, spiders, budget>>

DeleteRow(h) ==
    /\ api[h].pc = "delete"
    /\ row' = [row EXCEPT ![api[h].task] = "absent"]
    /\ isRunning' = [isRunning EXCEPT ![api[h].task] = FALSE]
    /\ Return(h)
    /\ UNCHANGED <<jobs, nextJob, redis, wpc, locals, spiders, budget>>

HandlerStep(h) ==
    \/ CheckActive(h) \/ InsertJob(h) \/ PushJob(h) \/ PushFails(h)
    \/ SaveTask(h) \/ ClearFlagBeforeDelete(h) \/ DeleteRow(h)
    \/ CreateTask(h)
    \/ \E t \in TaskIds :
          StartTask(h, t) \/ StopTask(h, t) \/ UpdateTask(h, t) \/ DeleteTask(h, t)

-----------------------------------------------------------------------------
(* The main loop of a worker of radar-probe                                *)

Task(w) == jobs[cur[w]].task

\* Between the claim of a job and the last write of its handler.
Handling == {"start", "launch", "mark", "stop", "stopping", "clear", "finish"}
Looping == {"monitor", "oldest", "cas_id", "cas_oldest"}

Registered(w) == {t \in TaskIds : entry[w][t] # "none"}

\* Back to the top of the loop, where monitor_finished_processes begins.
BackToLoop(w) ==
    /\ wpc' = [wpc EXCEPT ![w] = "monitor"]
    /\ scan' = [scan EXCEPT ![w] = {t \in TaskIds : entry'[w][t] # "none"}]
    /\ cur' = [cur EXCEPT ![w] = NoJob]

Goto(w, pc) == wpc' = [wpc EXCEPT ![w] = pc]

FinishWith(w, status) ==
    /\ outcome' = [outcome EXCEPT ![w] = status]
    /\ Goto(w, "finish")

SetEntry(w, t, state) == entry' = [entry EXCEPT ![w][t] = state]

\* running_tasks lets go of what it holds for t; a live process becomes a stray.
ReleaseEntry(w, t) ==
    stray' = IF entry[w][t] = "live" THEN [stray EXCEPT ![w][t] = @ + 1] ELSE stray

\* Mutants of the re-queueing: whatever the status, whoever the worker, none.
BootRequeuesFinished(w) ==
    /\ wpc[w] = "down"
    /\ jobs' = [j \in JobIds |-> IF jobs[j].worker = WorkerName[w]
                  THEN [jobs[j] EXCEPT !.status = "pending", !.worker = NoName] ELSE jobs[j]]
    /\ UNCHANGED entry
    /\ BackToLoop(w)
    /\ UNCHANGED <<row, isRunning, nextJob, redis, api, outcome, stray, budget>>

BootRequeuesAll(w) ==
    /\ wpc[w] = "down"
    /\ jobs' = [j \in JobIds |-> IF jobs[j].status = "claimed"
                  THEN [jobs[j] EXCEPT !.status = "pending", !.worker = NoName] ELSE jobs[j]]
    /\ UNCHANGED entry
    /\ BackToLoop(w)
    /\ UNCHANGED <<row, isRunning, nextJob, redis, api, outcome, stray, budget>>

BootRequeuesNone(w) ==
    /\ wpc[w] = "down"
    /\ UNCHANGED entry
    /\ BackToLoop(w)
    /\ UNCHANGED <<tables, api, outcome, stray, budget>>

\* Start of main: clear_stale_claimed_jobs_sync returns to the queue what a
\* worker of this name had claimed.
Boot(w) ==
    /\ wpc[w] = "down"
    /\ jobs' = [j \in JobIds |->
                  IF jobs[j].status = "claimed" /\ jobs[j].worker = WorkerName[w]
                  THEN [jobs[j] EXCEPT !.status = "pending", !.worker = NoName]
                  ELSE jobs[j]]
    /\ UNCHANGED entry
    /\ BackToLoop(w)
    /\ UNCHANGED <<row, isRunning, nextJob, redis, api, outcome, stray, budget>>

\* Mutant: the flag of an ended process is left alone.
PollKeepsFlag(w) ==
    /\ wpc[w] = "monitor"
    /\ \E t \in scan[w] :
          /\ scan' = [scan EXCEPT ![w] = @ \ {t}]
          /\ IF entry[w][t] = "dead" THEN SetEntry(w, t, "none") ELSE UNCHANGED entry
    /\ UNCHANGED <<tables, api, wpc, cur, outcome, stray, budget>>

\* One round of the loop of monitor_finished_processes.
PollEntry(w) ==
    /\ wpc[w] = "monitor"
    /\ \E t \in scan[w] :
          /\ scan' = [scan EXCEPT ![w] = @ \ {t}]
          /\ IF entry[w][t] = "dead"
             THEN SetRunning(t, FALSE) /\ SetEntry(w, t, "none")
             ELSE UNCHANGED <<isRunning, entry>>
    /\ UNCHANGED <<row, jobs, nextJob, redis, api, wpc, cur, outcome, stray, budget>>

\* BRPOP takes the element pushed last; claim_job_by_id_sync then reads it.
PopRedis(w) ==
    /\ wpc[w] = "monitor" /\ scan[w] = {}
    /\ redis # <<>>
    /\ redis' = SubSeq(redis, 1, Len(redis) - 1)
    /\ LET j == redis[Len(redis)] IN
          IF jobs[j].status = "pending"
          THEN cur' = [cur EXCEPT ![w] = j] /\ Goto(w, "cas_id")
          ELSE UNCHANGED cur /\ Goto(w, "oldest")
    /\ UNCHANGED <<row, isRunning, jobs, nextJob, api, outcome, scan, spiders, budget>>

\* BRPOP times out, or there is no Redis.
PopNothing(w) ==
    /\ wpc[w] = "monitor" /\ scan[w] = {}
    /\ redis = <<>>
    /\ Goto(w, "oldest")
    /\ UNCHANGED <<tables, api, locals, spiders, budget>>

\* claim_next_job_sync: SELECT ... WHERE status = 'pending' ORDER BY id LIMIT 1.
SelectOldest(w) ==
    /\ wpc[w] = "oldest"
    /\ LET pending == {j \in JobIds : jobs[j].status = "pending"} IN
          \/ /\ pending = {}
             /\ UNCHANGED entry
             /\ BackToLoop(w)
          \/ \E j \in pending :
                /\ \A i \in pending : j <= i
                /\ cur' = [cur EXCEPT ![w] = j]
                /\ Goto(w, "cas_oldest")
                /\ UNCHANGED <<scan, entry>>
    /\ UNCHANGED <<tables, api, outcome, stray, budget>>

\* Mutant: the UPDATE does not repeat the condition on the status.
ClaimUnconditionally(w) ==
    /\ wpc[w] \in {"cas_id", "cas_oldest"}
    /\ jobs' = [jobs EXCEPT ![cur[w]].status = "claimed",
                            ![cur[w]].worker = WorkerName[w]]
    /\ Goto(w, jobs[cur[w]].type)
    /\ UNCHANGED <<row, isRunning, nextJob, redis, api, locals, spiders, budget>>

\* UPDATE worker_jobs SET status = 'claimed' ... AND status = 'pending'.
ClaimJob(w) ==
    /\ wpc[w] \in {"cas_id", "cas_oldest"}
    /\ jobs[cur[w]].status = "pending"
    /\ jobs' = [jobs EXCEPT ![cur[w]].status = "claimed",
                            ![cur[w]].worker = WorkerName[w]]
    /\ Goto(w, jobs[cur[w]].type)
    /\ UNCHANGED <<row, isRunning, nextJob, redis, api, locals, spiders, budget>>

\* rowcount is 0: after the Redis attempt the oldest pending job is tried,
\* after that one the loop sleeps and starts again.
ClaimLost(w) ==
    /\ wpc[w] \in {"cas_id", "cas_oldest"}
    /\ jobs[cur[w]].status # "pending"
    /\ UNCHANGED entry
    /\ IF wpc[w] = "cas_id"
       THEN /\ Goto(w, "oldest")
            /\ cur' = [cur EXCEPT ![w] = NoJob]
            /\ UNCHANGED scan
       ELSE BackToLoop(w)
    /\ UNCHANGED <<tables, api, outcome, stray, budget>>

-----------------------------------------------------------------------------
(* handle_start_job                                                        *)

LookupTask(w) ==
    /\ wpc[w] = "start"
    /\ LET t == Task(w) IN
          IF row[t] # "enabled" THEN FinishWith(w, "failed")
          ELSE IF entry[w][t] = "live" THEN FinishWith(w, "completed")
          ELSE Goto(w, "launch") /\ UNCHANGED outcome
    /\ UNCHANGED <<tables, api, cur, scan, spiders, budget>>

\* Popen, and the new process replaces whatever running_tasks held.
LaunchSpider(w) ==
    /\ wpc[w] = "launch"
    /\ SetEntry(w, Task(w), "live")
    /\ ReleaseEntry(w, Task(w))
    /\ Goto(w, "mark")
    /\ UNCHANGED <<tables, api, locals, budget>>

MarkRunning(w) ==
    /\ wpc[w] = "mark"
    /\ SetRunning(Task(w), TRUE)
    /\ FinishWith(w, "completed")
    /\ UNCHANGED <<row, jobs, nextJob, redis, api, cur, scan, spiders, budget>>

(* handle_stop_job                                                         *)

\* Mutant: the process is signalled but not waited for.
SignalWithoutWaiting(w) ==
    /\ wpc[w] = "stop"
    /\ Goto(w, "clear")
    /\ UNCHANGED <<tables, api, locals, spiders, budget>>

SignalSpider(w) ==
    /\ wpc[w] = "stop"
    /\ Goto(w, IF entry[w][Task(w)] = "live" THEN "stopping" ELSE "clear")
    /\ UNCHANGED <<tables, api, locals, spiders, budget>>

\* Mutant: the entry is popped before the process has ended.
ForgetTooEarly(w) ==
    /\ wpc[w] = "stopping"
    /\ SetEntry(w, Task(w), "none")
    /\ ReleaseEntry(w, Task(w))
    /\ Goto(w, "clear")
    /\ UNCHANGED <<tables, api, locals, budget>>

\* process.wait returns, the entry is popped.
ForgetSpider(w) ==
    /\ wpc[w] = "stopping"
    /\ entry[w][Task(w)] = "dead"
    /\ SetEntry(w, Task(w), "none")
    /\ ReleaseEntry(w, Task(w))
    /\ Goto(w, "clear")
    /\ UNCHANGED <<tables, api, locals, budget>>

ClearRunning(w) ==
    /\ wpc[w] = "clear"
    /\ SetRunning(Task(w), FALSE)
    /\ FinishWith(w, "completed")
    /\ UNCHANGED <<row, jobs, nextJob, redis, api, cur, scan, spiders, budget>>

\* finish_job_sync, whose UPDATE has no condition on the status.
FinishJob(w) ==
    /\ wpc[w] = "finish"
    /\ jobs' = [jobs EXCEPT ![cur[w]].status = outcome[w]]
    /\ UNCHANGED entry
    /\ BackToLoop(w)
    /\ UNCHANGED <<row, isRunning, nextJob, redis, api, outcome, stray, budget>>

\* Mutant: a status that no reader of worker_jobs knows.
RaisesWithOwnStatus(w) ==
    /\ wpc[w] \in Handling
    /\ faults < MaxFaults
    /\ faults' = faults + 1
    /\ FinishWith(w, "error")
    /\ UNCHANGED <<tables, api, cur, scan, spiders, crashes>>

\* An exception inside a handler: main's except writes the job as failed and
\* leaves the tables, the spider and running_tasks as they are.
HandlerRaises(w) ==
    /\ wpc[w] \in Handling
    /\ faults < MaxFaults
    /\ faults' = faults + 1
    /\ FinishWith(w, "failed")
    /\ UNCHANGED <<tables, api, cur, scan, spiders, crashes>>

-----------------------------------------------------------------------------
(* Processes ending                                                        *)

\* A spider ends on its own.
SpiderExits(w, t) ==
    /\ entry[w][t] = "live"
    /\ SetEntry(w, t, "dead")
    /\ UNCHANGED <<tables, api, wpc, locals, stray, budget>>

\* A stopped spider ends by SIGTERM, or by the SIGKILL ten seconds later.
SpiderKilled(w) ==
    /\ wpc[w] = "stopping"
    /\ SpiderExits(w, Task(w))

\* The worker's memory is lost, and its spiders die with its container.
WorkerGone(w) ==
    /\ Goto(w, "down")
    /\ cur' = [cur EXCEPT ![w] = NoJob]
    /\ scan' = [scan EXCEPT ![w] = {}]
    /\ entry' = [entry EXCEPT ![w] = [t \in TaskIds |-> "none"]]
    /\ stray' = [stray EXCEPT ![w] = [t \in TaskIds |-> 0]]
    /\ UNCHANGED outcome

\* SIGKILL (or SIGTERM, for which the worker has no handler).
Crash(w) ==
    /\ wpc[w] # "down"
    /\ crashes < MaxCrashes
    /\ crashes' = crashes + 1
    /\ WorkerGone(w)
    /\ UNCHANGED <<tables, api, faults>>

\* An exception outside the handlers, or in the write of a job's last
\* status, ends main through its finally: the flags of the registered tasks
\* are cleared, those whose UPDATE fails too are skipped.
MainRaises(w) ==
    /\ wpc[w] \in Looping \union {"finish"}
    /\ faults < MaxFaults
    /\ faults' = faults + 1
    /\ \E cleared \in SUBSET Registered(w) :
          isRunning' = [t \in TaskIds |-> isRunning[t] /\ t \notin cleared]
    /\ WorkerGone(w)
    /\ UNCHANGED <<row, jobs, nextJob, redis, api, crashes>>

-----------------------------------------------------------------------------

\* What the single thread of a worker does by itself.
WorkerStep(w) ==
    \/ Boot(w) \/ PollEntry(w) \/ PopRedis(w) \/ PopNothing(w)
    \/ SelectOldest(w) \/ ClaimJob(w) \/ ClaimLost(w)
    \/ LookupTask(w) \/ LaunchSpider(w) \/ MarkRunning(w)
    \/ SignalSpider(w) \/ ForgetSpider(w) \/ ClearRunning(w)
    \/ FinishJob(w)

WorkerFails(w) == HandlerRaises(w) \/ Crash(w) \/ MainRaises(w)

SpiderStep(w) == SpiderKilled(w) \/ \E t \in TaskIds : SpiderExits(w, t)

Next ==
    \/ \E h \in Handlers : HandlerStep(h)
    \/ \E w \in Workers : WorkerStep(w) \/ WorkerFails(w) \/ SpiderStep(w)

Spec == Init /\ [][Next]_vars

\* A worker's loop never waits for anything but a spider it has signalled,
\* the operating system delivers SIGKILL, and the container is restarted.
Fairness ==
    \A w \in Workers : WF_vars(WorkerStep(w)) /\ WF_vars(SpiderKilled(w))

FairSpec == Spec /\ Fairness

-----------------------------------------------------------------------------
(* Correctness                                                             *)

JobRows == [type : {"start", "stop"}, task : TaskIds \union {NoTask},
            status : Statuses, worker : {WorkerName[w] : w \in Workers} \union {NoName}]

RowStates == {"absent", "enabled", "disabled"}
Requests == [pc : {"idle", "check", "insert", "push", "save", "unflag", "delete"},
             op : {"none", "start", "stop", "create", "update", "delete"},
             task : TaskIds \union {NoTask}, job : JobIds \union {NoJob},
             row : RowStates, running : BOOLEAN]
WorkerStates == {"down"} \union Looping \union Handling

\* The shape of the tables, of the requests in progress and of the workers'
\* memory.
TypeOK ==
    /\ row \in [TaskIds -> RowStates]
    /\ isRunning \in [TaskIds -> BOOLEAN]
    /\ jobs \in [JobIds -> JobRows]
    /\ nextJob \in 1..(MaxJobs + 1)
    /\ redis \in Seq(JobIds)
    /\ api \in [Handlers -> Requests]
    /\ wpc \in [Workers -> WorkerStates]
    /\ cur \in [Workers -> JobIds \union {NoJob}]
    /\ outcome \in [Workers -> Terminal]
    /\ scan \in [Workers -> SUBSET TaskIds]
    /\ entry \in [Workers -> [TaskIds -> {"none", "live", "dead"}]]
    /\ stray \in [Workers -> [TaskIds -> Nat]]
    /\ crashes \in 0..MaxCrashes
    /\ faults \in 0..MaxFaults

\* A worker that runs a handler holds the claim of its job, and no other
\* worker handles the same job: the conditional UPDATE of claim_job_by_id_sync
\* and claim_next_job_sync, and the re-queueing at a restart, never give one
\* job to two workers, through Redis and the table poll together.
ClaimExclusive ==
    /\ \A w \in Workers : wpc[w] \in Handling =>
          jobs[cur[w]].status = "claimed" /\ jobs[cur[w]].worker = WorkerName[w]
    /\ \A v, w \in Workers :
          wpc[v] \in Handling /\ wpc[w] \in Handling /\ cur[v] = cur[w] => v = w

\* No worker loses track of a spider it launched: handle_start_job never
\* replaces, and handle_stop_job never pops, the running_tasks entry of a
\* live process, which neither monitor nor a stop job would ever find again.
NoStraySpider == \A w \in Workers, t \in TaskIds : stray[w][t] = 0

\* As long as nothing crashed and no error was met, a task flagged as running
\* is one that a worker has registered, or whose flag it is about to clear: no
\* order of start and stop requests, spider exits and polls leaves the flag
\* set with no process that could clear it, which would make StartTask refuse
\* the task for ever.
FlagHasSpider ==
    crashes = 0 /\ faults = 0 =>
        \A t \in TaskIds : isRunning[t] =>
            \E w \in Workers : entry[w][t] # "none" \/ (wpc[w] = "clear" /\ Task(w) = t)

\* As long as no error was met, a live spider is flagged, but for the moment
\* between its launch and the UPDATE of handle_start_job: StopTask refuses a
\* task that is not flagged.
SpiderHasFlag ==
    faults = 0 =>
        \A w \in Workers, t \in TaskIds :
            /\ entry[w][t] = "live"
            /\ row[t] # "absent"
            /\ ~(wpc[w] = "mark" /\ Task(w) = t)
            => isRunning[t]

\* The two accounts of what runs, tasks.is_running in the database and
\* running_tasks in the workers' memory, agree in both directions, through
\* every order of requests, polls and exits.
FlagAgrees == FlagHasSpider /\ SpiderHasFlag

\* The check of enqueueTaskJob keeps two active jobs of one kind for one task
\* out of the queue when requests come one at a time, whatever the workers
\* and their restarts do meanwhile.
NoDuplicateActive ==
    \A i, j \in JobIds :
        /\ Active(i) /\ Active(j)
        /\ jobs[i].type = jobs[j].type /\ jobs[i].task = jobs[j].task
        => i = j

\* A finished job stays as it was written: finish_job_sync and the re-queueing
\* of stale claims, none of which looks at the old status and at the worker
\* together, never touch it again.
TerminalIsFinal ==
    [][\A j \in JobIds : jobs[j].status \in Terminal => jobs'[j] = jobs[j]]_vars

\* When a stop job is written as completed no worker has a live spider of the
\* task (docs/business-flow.md: the worker ends the task's process group).
StopEndsSpider ==
    [][\A j \in JobIds :
          /\ jobs[j].type = "stop"
          /\ jobs[j].status # "completed" /\ jobs'[j].status = "completed"
          => \A w \in Workers : entry[w][jobs[j].task] # "live"]_vars

\* Every inserted job ends as completed or failed: a lost Redis message, a
\* failed RPUSH and a crash in the middle of the handler included.
JobsFinish ==
    \A j \in JobIds : jobs[j].status = "pending" ~> jobs[j].status \in Terminal

\* A spider that ended is taken out of running_tasks and its task's flag is
\* cleared, unless a new spider of the task was launched meanwhile, or the
\* worker was killed or met an error first.
ExitClearsFlag ==
    \A w \in Workers, t \in TaskIds :
        entry[w][t] = "dead" ~>
            (~isRunning[t] \/ entry[w][t] = "live" \/ crashes + faults > 0)

(* The queue the users of the API see                                      *)

Queue == INSTANCE JobQueue WITH
    Jobs <- JobIds,
    status <- [j \in JobIds |-> jobs[j].status],
    holder <- [j \in JobIds |-> jobs[j].worker],
    working <- [w \in Workers |-> IF wpc[w] \in Handling THEN cur[w] ELSE NoJob]

\* The two tables, the Redis list, the races for a claim and the restarts
\* implement a queue that hands each job to one worker at a time, lets only
\* that worker finish it, and takes it back only at that worker's restart.
ImplementsQueue == Queue!Spec
=============================================================================
