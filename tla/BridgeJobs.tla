----------------------------- MODULE BridgeJobs -----------------------------
(***************************************************************************)
(* Jobs a worker hands to a bridge process: generating the criteria of a   *)
(* new task (task_generation_bridge.py) and analysing a result set again   *)
(* (result_reanalysis_bridge.py).                                          *)
(*                                                                         *)
(* The client posts a job and polls its row of worker_jobs.  The worker    *)
(* launches the bridge, reads its events from a pipe and writes each one   *)
(* to the row.  The bridge runs ahead of the reader, and the worker dies   *)
(* with its bridges.  How a job is announced and claimed, one statement    *)
(* at a time, is the subject of TaskControl; here a claim is one step, on  *)
(* any pending job.                                                        *)
(***************************************************************************)
EXTENDS Naturals, Sequences

CONSTANTS
    Generate,       \* job keys of generate_task jobs
    Reanalyze,      \* job keys of reanalyze_result jobs
    Workers,        \* worker processes
    WorkerName,     \* the WORKER_ID each worker runs with
    Records,        \* records in the result set of a reanalyze job
    StepCount,      \* steps of a generate job: six in the code, from prepare to task
    MaxLate,        \* bound: bridges that need over 5 s to exit after their last event
    MaxCrashes,     \* bound: kills of a worker container
    MaxFaults       \* bound: database, Redis or launch errors, killed bridges

Jobs == Generate \union Reanalyze
NoName == "none"
NoStep == 0

ASSUME BridgeConstants ==
    /\ Generate \intersect Reanalyze = {}
    /\ Records \in Nat \ {0}
    /\ StepCount \in Nat /\ StepCount >= 3
    /\ MaxLate \in Nat
    /\ MaxCrashes \in Nat /\ MaxFaults \in Nat
    /\ \A w \in Workers : WorkerName[w] # NoName

VARIABLES
    jobs,       \* worker_jobs, by job_key
    client,     \* per job: whether its client still waits for an answer
    bridge,     \* per job: its bridge process and the pipe of its events
    made,       \* per job: tasks created, or records gone through, for it
    wpc,        \* per worker: where its main loop is
    cur,        \* per worker: the job it handles
    local,      \* per worker: the handler's steps and last_step
    crashes, faults, late

budget == <<crashes, faults, late>>
vars == <<jobs, client, bridge, made, wpc, cur, local, budget>>

Terminal == {"completed", "failed"}
DefaultSteps == [i \in 1..StepCount |-> "pending"]
NewSteps(j) == IF j \in Generate THEN DefaultSteps ELSE <<>>
NoRow == [status |-> "absent", worker |-> NoName, step |-> NoStep,
          steps |-> <<>>, result |-> FALSE, error |-> "none"]
NoBridge == [state |-> "none", by |-> NoName, at |-> 0, out |-> <<>>,
             reader |-> FALSE, ok |-> FALSE]
Alive == {"running", "closing"}

Progress(i) == [type |-> "progress", step |-> i]
Result == [type |-> "result", step |-> NoStep]
Failure == [type |-> "error", step |-> NoStep]

NoLocal == [steps |-> <<>>, step |-> NoStep]

\* A value of cur no job key has.
NoJob == "no job"

Init ==
    /\ jobs = [j \in Jobs |-> NoRow]
    /\ client = [j \in Jobs |-> "idle"]
    /\ bridge = [j \in Jobs |-> NoBridge]
    /\ made = [j \in Jobs |-> 0]
    /\ wpc = [w \in Workers |-> "down"]
    /\ cur = [w \in Workers |-> NoJob]
    /\ local = [w \in Workers |-> NoLocal]
    /\ crashes = 0
    /\ faults = 0
    /\ late = 0

-----------------------------------------------------------------------------
(* Steps shown to the client                                               *)

\* The steps before k are over, those after it are not begun.
ApplyStepProgress(steps, k) ==
    [i \in DOMAIN steps |->
        IF i # k /\ steps[i] = "failed" THEN "failed"
        ELSE IF i < k THEN "completed"
        ELSE IF i = k THEN "running" ELSE "pending"]

FinalizeSteps(steps, status, k) ==
    IF status = "completed"
    THEN [i \in DOMAIN steps |-> IF steps[i] = "failed" THEN "failed" ELSE "completed"]
    ELSE [i \in DOMAIN steps |-> IF i = k THEN "failed" ELSE steps[i]]

NormalizeJobStatus(s) ==
    CASE s \in {"claimed", "running"} -> "running"
      [] s \in Terminal -> s
      [] OTHER -> "queued"

\* What GET /api/tasks/generate-jobs/{key} and the waiting request see.
View(j) ==
    [status |-> NormalizeJobStatus(jobs[j].status), step |-> jobs[j].step,
     steps |-> jobs[j].steps, result |-> jobs[j].result, error |-> jobs[j].error]

-----------------------------------------------------------------------------
(* Clients                                                                 *)

\* CreateJob, Reanalyze: the row is inserted; if the push to Redis fails the
\* client is told the request failed, and the job is there all the same.
Post(j) ==
    /\ client[j] = "idle"
    /\ jobs' = [jobs EXCEPT ![j] = [NoRow EXCEPT !.status = "pending",
                                                 !.steps = NewSteps(j)]]
    /\ \/ client' = [client EXCEPT ![j] = "polling"]
          /\ UNCHANGED faults
       \/ /\ faults < MaxFaults
          /\ faults' = faults + 1
          /\ client' = [client EXCEPT ![j] = "gone"]
    /\ UNCHANGED <<bridge, made, wpc, cur, local, crashes, late>>

\* One look at the row: the client, or waitForCompletion, stops at an answer.
Poll(j) ==
    /\ client[j] = "polling"
    /\ View(j).status \in Terminal
    /\ client' = [client EXCEPT ![j] = "done"]
    /\ UNCHANGED <<jobs, bridge, made, wpc, cur, local, budget>>

\* The page is left, a poll fails, or the context of the request ends.
GiveUp(j) ==
    /\ client[j] = "polling"
    /\ client' = [client EXCEPT ![j] = "gone"]
    /\ UNCHANGED <<jobs, bridge, made, wpc, cur, local, budget>>

-----------------------------------------------------------------------------
(* Bridge processes                                                        *)

\* emit(): to a pipe nobody reads it raises, and the handler of that
\* exception emits again, so the process ends.
Emit(j, event, next) ==
    bridge' = [bridge EXCEPT ![j] =
        IF bridge[j].reader
        THEN [next EXCEPT !.out = Append(bridge[j].out, event)]
        ELSE [bridge[j] EXCEPT !.state = "exited", !.ok = FALSE]]

\* The steps of generate_criteria: between prepare and persist.
Criteria == 2..(StepCount - 2)

\* The bridge's own steps: prepare, persist and task.
BridgeProgress(j) ==
    LET k == bridge[j].at + 1 IN
    /\ j \in Generate
    /\ bridge[j].state = "running" /\ k <= StepCount /\ k \notin Criteria
    /\ Emit(j, Progress(k), [bridge[j] EXCEPT !.at = k])
    /\ UNCHANGED made

\* generate_criteria reports before it reads the reference, builds the prompt
\* and asks the AI accounts.
CriteriaProgress(j) ==
    LET k == bridge[j].at + 1 IN
    /\ j \in Generate
    /\ bridge[j].state = "running" /\ k \in Criteria
    /\ Emit(j, Progress(k), [bridge[j] EXCEPT !.at = k])
    /\ UNCHANGED made

\* It raises: no reference, no account that answers, or a client that cannot be
\* closed after its answer.
CriteriaFails(j) ==
    /\ j \in Generate
    /\ bridge[j].state = "running" /\ bridge[j].at \in Criteria
    /\ Emit(j, Failure, [bridge[j] EXCEPT !.state = "closing"])
    /\ UNCHANGED made

\* create_task, after the progress event of its step.
BridgeCreate(j) ==
    /\ j \in Generate
    /\ bridge[j].state = "running" /\ bridge[j].at = StepCount
    /\ bridge' = [bridge EXCEPT ![j].at = @ + 1]
    /\ made' = [made EXCEPT ![j] = @ + 1]

\* One record of reanalyze_result_file, whether or not its row still exists.
BridgeRecord(j) ==
    /\ j \in Reanalyze
    /\ bridge[j].state = "running" /\ bridge[j].at < Records
    /\ bridge' = [bridge EXCEPT ![j].at = @ + 1]
    /\ made' = [made EXCEPT ![j] = @ + 1]

\* Mutant: the result is reported before the last piece of work.
WorkAlmostDone(j) == bridge[j].at = IF j \in Generate THEN StepCount ELSE Records - 1

\* Everything the result reports has been done.
WorkDone(j) == bridge[j].at = IF j \in Generate THEN StepCount + 1 ELSE Records

BridgeResult(j) ==
    /\ bridge[j].state = "running" /\ WorkDone(j)
    /\ Emit(j, Result, [bridge[j] EXCEPT !.state = "closing", !.ok = TRUE])
    /\ UNCHANGED made

\* Any other exception of the bridge: a request it cannot read, a statement.
BridgeRaises(j) ==
    /\ bridge[j].state = "running"
    /\ j \in Generate => bridge[j].at \notin Criteria
    /\ Emit(j, Failure, [bridge[j] EXCEPT !.state = "closing"])
    /\ UNCHANGED made

BridgeExits(j) ==
    /\ bridge[j].state = "closing"
    /\ bridge' = [bridge EXCEPT ![j].state = "exited"]
    /\ UNCHANGED made

BridgeStep(j) ==
    /\ \/ BridgeProgress(j) \/ CriteriaProgress(j) \/ CriteriaFails(j)
       \/ BridgeCreate(j) \/ BridgeRecord(j) \/ BridgeResult(j) \/ BridgeRaises(j) \/ BridgeExits(j)
    /\ UNCHANGED <<jobs, client, wpc, cur, local, budget>>

\* The process is killed: no event, a non-zero exit code.
BridgeKilled(j) ==
    /\ faults < MaxFaults
    /\ faults' = faults + 1
    /\ bridge[j].state \in Alive
    /\ bridge' = [bridge EXCEPT ![j].state = "exited", ![j].ok = FALSE]
    /\ UNCHANGED <<jobs, client, made, wpc, cur, local, crashes, late>>

-----------------------------------------------------------------------------
(* The worker                                                              *)

Goto(w, pc) == wpc' = [wpc EXCEPT ![w] = pc]
\* The handler's frame goes.
Forget(w) ==
    /\ cur' = [cur EXCEPT ![w] = NoJob]
    /\ local' = [local EXCEPT ![w] = NoLocal]

Leave(w) == Goto(w, "poll") /\ Forget(w)

\* Mutant: jobs whose progress was already written are given back too.
GivenBackRunning(w) == {j \in Jobs : /\ jobs[j].status \in {"claimed", "running"}
                                     /\ jobs[j].worker = WorkerName[w]}

\* Mutant: whoever holds the claim.
GivenBackAll(w) == {j \in Jobs : jobs[j].status = "claimed"}

\* Claims given back by a worker that starts: never a 'running' row.
GivenBack(w) == {j \in Jobs : /\ jobs[j].status = "claimed"
                              /\ jobs[j].worker = WorkerName[w]}

Boot(w) ==
    /\ wpc[w] = "down"
    /\ jobs' = [j \in Jobs |->
                  IF j \in GivenBack(w)
                  THEN [jobs[j] EXCEPT !.status = "pending", !.worker = NoName,
                                       !.error = "restarted"]
                  ELSE jobs[j]]
    /\ Goto(w, "poll")
    /\ UNCHANGED <<client, bridge, made, cur, local, budget>>

\* The claimed row carries the steps the handler begins with.
Claim(w, j) ==
    /\ wpc[w] = "poll"
    /\ jobs[j].status = "pending"
    /\ jobs' = [jobs EXCEPT ![j].status = "claimed", ![j].worker = WorkerName[w]]
    /\ cur' = [cur EXCEPT ![w] = j]
    /\ local' = [local EXCEPT ![w] = [steps |-> jobs[j].steps, step |-> NoStep]]
    /\ Goto(w, IF j \in Reanalyze THEN "announce" ELSE "launch")
    /\ UNCHANGED <<client, bridge, made, budget>>

\* update_job_progress_sync.
WriteProgress(j, k, steps) ==
    jobs' = [jobs EXCEPT ![j].status = "running", ![j].step = k, ![j].steps = steps]

\* complete_generate_job_sync: the row a client reads as the final answer.
WriteCompleted(j, steps) ==
    jobs' = [jobs EXCEPT
       ![j] = [@ EXCEPT !.status = "completed", !.step = NoStep, !.steps = steps,
                        !.result = TRUE, !.error = "none"]]

\* fail_generate_job_sync.
WriteFailed(j, k, steps) ==
    jobs' = [jobs EXCEPT
       ![j] = [@ EXCEPT !.status = "failed", !.step = k, !.steps = steps,
                        !.error = "failure"]]

\* handle_reanalyze_job writes its only progress before the launch.
Announce(w) ==
    /\ wpc[w] = "announce"
    /\ WriteProgress(cur[w], 1, jobs[cur[w]].steps)
    /\ Goto(w, "launch")
    /\ UNCHANGED <<client, bridge, made, cur, local, budget>>

Launch(w) ==
    /\ wpc[w] = "launch"
    /\ bridge' = [bridge EXCEPT ![cur[w]] =
                    [NoBridge EXCEPT !.state = "running", !.by = w, !.reader = TRUE]]
    /\ Goto(w, "read")
    /\ UNCHANGED <<jobs, client, made, cur, local, budget>>

\* The handler takes the next event of the pipe.
Receives(w, type) ==
    /\ wpc[w] = "read"
    /\ bridge[cur[w]].out # <<>>
    /\ Head(bridge[cur[w]].out).type = type
    /\ bridge' = [bridge EXCEPT ![cur[w]].out = Tail(@)]

\* The pipe ended: the process is gone and nothing is left to read.
PipeEnds(w) ==
    /\ wpc[w] = "read"
    /\ bridge[cur[w]].out = <<>> /\ bridge[cur[w]].state = "exited"

ReadProgress(w) ==
    LET k == Head(bridge[cur[w]].out).step
        steps == ApplyStepProgress(local[w].steps, k)
    IN  /\ Receives(w, "progress")
        /\ local' = [local EXCEPT ![w] = [steps |-> steps, step |-> k]]
        /\ WriteProgress(cur[w], k, steps)
        /\ UNCHANGED <<client, made, wpc, cur, budget>>

ReadResult(w) ==
    /\ cur[w] \in Generate
    /\ Receives(w, "result")
    /\ WriteCompleted(cur[w], FinalizeSteps(local[w].steps, "completed", NoStep))
    /\ Goto(w, "wait")
    /\ UNCHANGED <<client, made, cur, local, budget>>

\* The step the failure is shown at is `k'.
Failed(w, k) ==
    WriteFailed(cur[w], local[w].step, FinalizeSteps(local[w].steps, "failed", k))

ReadError(w) ==
    /\ cur[w] \in Generate
    /\ Receives(w, "error")
    /\ Failed(w, local[w].step)
    /\ Goto(w, "wait")
    /\ UNCHANGED <<client, made, cur, local, budget>>

\* The pipe ended without a result: only an exit code that is not zero
\* marks the step.
ReadEnd(w) ==
    /\ cur[w] \in Generate
    /\ PipeEnds(w)
    /\ Failed(w, IF bridge[cur[w]].ok THEN NoStep ELSE local[w].step)
    /\ Leave(w)
    /\ UNCHANGED <<client, bridge, made, budget>>

\* handle_reanalyze_job: a result, an error or the end; its steps stay.
ReadReanalysis(w) ==
    LET j == cur[w] IN
    /\ j \in Reanalyze
    /\ \/ /\ Receives(w, "result")
          /\ WriteCompleted(j, jobs[j].steps)
          /\ Goto(w, "wait") /\ UNCHANGED <<cur, local>>
       \/ /\ Receives(w, "error")
          /\ WriteFailed(j, 1, jobs[j].steps)
          /\ Goto(w, "wait") /\ UNCHANGED <<cur, local>>
       \/ /\ PipeEnds(w)
          /\ WriteFailed(j, 1, jobs[j].steps)
          /\ Leave(w) /\ UNCHANGED bridge
    /\ UNCHANGED <<client, made, budget>>

\* process.wait(timeout=5) after the last event.
Wait(w) ==
    /\ wpc[w] = "wait"
    /\ bridge[cur[w]].state = "exited"
    /\ Leave(w)
    /\ UNCHANGED <<jobs, client, bridge, made, budget>>

\* Mutant: the wait gives up although nothing may time out.
WaitAlwaysExpires(w) ==
    /\ wpc[w] = "wait"
    /\ Goto(w, "failing")
    /\ UNCHANGED <<jobs, client, bridge, made, cur, local, budget>>

\* TimeoutExpired leaves the handler.
WaitExpires(w) ==
    /\ wpc[w] = "wait"
    /\ bridge[cur[w]].state # "exited"
    /\ late < MaxLate
    /\ late' = late + 1
    /\ Goto(w, "failing")
    /\ UNCHANGED <<jobs, client, bridge, made, cur, local, crashes, faults>>

\* A statement, the launch or the write to the bridge raises.
HandlerRaises(w) ==
    /\ wpc[w] \in {"announce", "launch", "read"}
    /\ faults < MaxFaults
    /\ faults' = faults + 1
    /\ Goto(w, "failing")
    /\ UNCHANGED <<jobs, client, bridge, made, cur, local, crashes, late>>

\* Mutant: the except clause only logs.
FailForgets(w) ==
    /\ wpc[w] = "failing"
    /\ bridge' = [bridge EXCEPT ![cur[w]].reader = FALSE, ![cur[w]].out = <<>>]
    /\ Leave(w)
    /\ UNCHANGED <<jobs, client, made, budget>>

\* main's except clause: finish_job_sync, whatever the row says by then.  The
\* handler's frame goes, and with it the reading end of the pipe.
Fail(w) ==
    /\ wpc[w] = "failing"
    /\ jobs' = [jobs EXCEPT ![cur[w]].status = "failed", ![cur[w]].error = "failure"]
    /\ bridge' = [bridge EXCEPT ![cur[w]].reader = FALSE, ![cur[w]].out = <<>>]
    /\ Leave(w)
    /\ UNCHANGED <<client, made, budget>>

\* The container is killed, and every bridge in it.
Crash(w) ==
    /\ crashes < MaxCrashes
    /\ crashes' = crashes + 1
    /\ wpc[w] # "down"
    /\ Goto(w, "down")
    /\ Forget(w)
    /\ bridge' = [j \in Jobs |->
                    IF bridge[j].by = w /\ bridge[j].state \in Alive
                    THEN [bridge[j] EXCEPT !.state = "exited", !.ok = FALSE, !.out = <<>>]
                    ELSE bridge[j]]
    /\ UNCHANGED <<jobs, client, made, faults, late>>

WorkerStep(w) ==
    \/ Boot(w) \/ Announce(w) \/ Launch(w)
    \/ \E j \in Jobs : Claim(w, j)
    \/ ReadProgress(w) \/ ReadResult(w) \/ ReadError(w) \/ ReadEnd(w)
    \/ ReadReanalysis(w)
    \/ Wait(w) \/ WaitExpires(w) \/ Fail(w)

Next ==
    \/ \E j \in Jobs : Post(j) \/ Poll(j) \/ GiveUp(j) \/ BridgeStep(j) \/ BridgeKilled(j)
    \/ \E w \in Workers : WorkerStep(w) \/ HandlerRaises(w) \/ Crash(w)

Spec == Init /\ [][Next]_vars

\* The loop of a worker never waits for ever (its container is restarted,
\* each read ends with the bridge), the requests of a bridge have timeouts,
\* and a client that still waits keeps polling.
Fairness ==
    /\ \A w \in Workers : WF_vars(WorkerStep(w))
    /\ \A j \in Jobs : WF_vars(BridgeStep(j)) /\ WF_vars(Poll(j))

FairSpec == Spec /\ Fairness

-----------------------------------------------------------------------------
(* Properties                                                              *)

\* The steps a client is shown for a generate job agree with the status of
\* the row, through restarts and errors: nothing has begun while the job is
\* queued or claimed (so a job that is handled again starts afresh), exactly
\* the current step runs while it runs, with the earlier ones completed and
\* the later ones not begun, and all are completed when it is.  A failed job
\* never shows a step behind the failed one as begun.
StepsAgree ==
    \A j \in Generate :
        LET r == jobs[j] IN
        /\ r.status \in {"pending", "claimed"} =>
              r.steps = DefaultSteps /\ r.step = NoStep /\ ~r.result
        /\ r.status = "running" =>
              /\ r.step # NoStep
              /\ r.steps = ApplyStepProgress(DefaultSteps, r.step)
        /\ r.status = "completed" =>
              /\ r.steps = [i \in 1..StepCount |-> "completed"]
              /\ r.step = NoStep /\ r.result /\ r.error = "none"
        /\ r.status = "failed" =>
              /\ r.error = "failure"
              /\ \A i, k \in 1..StepCount :
                    i < k /\ r.steps[i] # "completed" => r.steps[k] = "pending"
              /\ faults = 0 => \A i \in 1..StepCount : r.steps[i] # "running"

\* A completed job has done what its answer says: the task of a generate job
\* exists, every record of a reanalysed result set was gone through.  The
\* bridge works ahead of the worker, so this relates a row to the process.
CompletedIsReal ==
    \A j \in Jobs : jobs[j].status = "completed" =>
        made[j] >= IF j \in Generate THEN 1 ELSE Records

\* The answer a client got is final, as long as every bridge exits in time:
\* after its last poll the row never shows another status, step, result or
\* error, whatever is raised, killed or given back.
AnswerStays ==
    [][\A j \in Jobs : client[j] = "done" /\ late' = 0 => View(j)' = View(j)]_vars

\* No job is ever in the hands of two bridges: one that is alive is never
\* replaced by another, whatever restarts give the job to.
BridgesDoNotOverlap ==
    [][\A j \in Jobs : bridge[j].state \in Alive =>
          bridge'[j].by = bridge[j].by /\ bridge'[j].at >= bridge[j].at]_vars

\* A client that keeps polling is answered, unless a worker is killed.
JobAnswered ==
    \A j \in Jobs : client[j] = "polling" ~> (client[j] \in {"done", "gone"} \/ crashes > 0)
=============================================================================
