-------------------------- MODULE TaskControl_proofs --------------------------
(***************************************************************************)
(* Proofs about TaskControl, for any number of requests, workers, tasks,   *)
(* jobs, crashes and errors.                                               *)
(***************************************************************************)
EXTENDS TaskControl, SequenceTheorems, TLAPS

\* Every worker has a WORKER_ID of its own.
DistinctNames == \A v, w \in Workers : WorkerName[v] = WorkerName[w] => v = w

\* Rows of worker_jobs name a task, rows not yet inserted are blank.
JobsInv ==
    \A j \in JobIds : /\ jobs[j].status # "absent" => jobs[j].task \in TaskIds
                      /\ j >= nextJob => jobs[j].status = "absent"
                      /\ jobs[j].status = "absent" => jobs[j].worker = NoName

\* What a request has read is there when it writes.
ApiInv ==
    \A h \in Handlers :
        /\ api[h].pc # "idle" => api[h].task \in TaskIds
        /\ api[h].pc \in {"check", "insert"} => api[h].op \in {"start", "stop"}
        /\ api[h].pc = "push" => api[h].job \in JobIds

\* A selected job is a row of the table.
CurInv ==
    \A w \in Workers : wpc[w] \in {"cas_id", "cas_oldest"} \union Handling =>
        cur[w] \in JobIds /\ jobs[cur[w]].status # "absent"

\* A handler holds the claim of its job.
ClaimInv ==
    \A w \in Workers : wpc[w] \in Handling =>
        jobs[cur[w]].status = "claimed" /\ jobs[cur[w]].worker = WorkerName[w]

\* A spider is launched only where no live one is registered.
LaunchInv ==
    \A w \in Workers : wpc[w] = "launch" => entry[w][Task(w)] # "live"

IInv ==
    TypeOK /\ JobsInv /\ ApiInv /\ CurInv /\ ClaimInv /\ LaunchInv /\ NoStraySpider

-----------------------------------------------------------------------------
(* How the helpers keep the types of the variables they write              *)

LEMMA ReturnType ==
    ASSUME TypeOK, NEW h \in Handlers, Return(h)
    PROVE  api' \in [Handlers -> Requests]
<1>1. Idle \in Requests
  BY DEF Idle, Requests, RowStates, TaskIds, JobIds
<1> QED
  BY <1>1 DEF TypeOK, Return

LEMMA SetRunningType ==
    ASSUME TypeOK, NEW t, NEW v \in BOOLEAN, SetRunning(t, v)
    PROVE  isRunning' \in [TaskIds -> BOOLEAN]
  BY DEF TypeOK, SetRunning

LEMMA GotoType ==
    ASSUME TypeOK, NEW w \in Workers, NEW pc \in WorkerStates, Goto(w, pc)
    PROVE  wpc' \in [Workers -> WorkerStates]
  BY DEF TypeOK, Goto

\* The states of the main loop, by name.
LEMMA States ==
    /\ WorkerStates = {"down", "monitor", "oldest", "cas_id", "cas_oldest", "start",
                       "launch", "mark", "stop", "stopping", "clear", "finish"}
    /\ Handling = {"start", "launch", "mark", "stop", "stopping", "clear", "finish"}
  BY DEF WorkerStates, Looping, Handling

LEMMA LoopType ==
    ASSUME TypeOK, NEW w \in Workers, BackToLoop(w)
    PROVE  /\ wpc' \in [Workers -> WorkerStates]
           /\ scan' \in [Workers -> SUBSET TaskIds]
           /\ cur' \in [Workers -> JobIds \union {NoJob}]
<1>1. {t \in TaskIds : entry'[w][t] # "none"} \in SUBSET TaskIds
  OBVIOUS
<1> QED
  BY <1>1, States DEF TypeOK, BackToLoop

LEMMA EntryType ==
    ASSUME TypeOK, NEW w \in Workers, NEW t, NEW s \in {"none", "live", "dead"},
           SetEntry(w, t, s)
    PROVE  entry' \in [Workers -> [TaskIds -> {"none", "live", "dead"}]]
<1>1. [entry[w] EXCEPT ![t] = s] \in [TaskIds -> {"none", "live", "dead"}]
  BY DEF TypeOK
<1> QED
  BY <1>1 DEF TypeOK, SetEntry

LEMMA GoneType ==
    ASSUME TypeOK, NEW w \in Workers, WorkerGone(w)
    PROVE  /\ wpc' \in [Workers -> WorkerStates]
           /\ cur' \in [Workers -> JobIds \union {NoJob}]
           /\ scan' \in [Workers -> SUBSET TaskIds]
           /\ entry' \in [Workers -> [TaskIds -> {"none", "live", "dead"}]]
           /\ stray' \in [Workers -> [TaskIds -> Nat]]
           /\ outcome' \in [Workers -> Terminal]
<1>1. wpc' \in [Workers -> WorkerStates]
  BY GotoType, States DEF WorkerGone
<1>2. [t \in TaskIds |-> "none"] \in [TaskIds -> {"none", "live", "dead"}]
  OBVIOUS
<1>3. [t \in TaskIds |-> 0] \in [TaskIds -> Nat]
  OBVIOUS
<1>4. entry' \in [Workers -> [TaskIds -> {"none", "live", "dead"}]]
  BY <1>2 DEF TypeOK, WorkerGone
<1>5. stray' \in [Workers -> [TaskIds -> Nat]]
  BY <1>3 DEF TypeOK, WorkerGone
<1>6. /\ cur' \in [Workers -> JobIds \union {NoJob}]
      /\ scan' \in [Workers -> SUBSET TaskIds]
      /\ outcome' \in [Workers -> Terminal]
  BY DEF TypeOK, WorkerGone
<1> QED
  BY <1>1, <1>4, <1>5, <1>6

LEMMA FinishWithType ==
    ASSUME TypeOK, NEW w \in Workers, NEW s \in Terminal, FinishWith(w, s)
    PROVE  /\ wpc' \in [Workers -> WorkerStates]
           /\ outcome' \in [Workers -> Terminal]
<1>1. wpc' \in [Workers -> WorkerStates]
  BY GotoType, States DEF FinishWith
<1> QED
  BY <1>1 DEF TypeOK, FinishWith

-----------------------------------------------------------------------------
(* The types are preserved                                                 *)

LEMMA EnterType ==
    ASSUME TypeOK, NEW h \in Handlers, NEW t \in TaskIds, NEW r \in RowStates,
           NEW run \in BOOLEAN,
           NEW pc \in {"check", "save", "unflag", "delete"},
           NEW op \in {"start", "stop", "create", "update", "delete"},
           Enter(h, pc, op, t, r, run)
    PROVE  TypeOK'
<1> DEFINE request == [pc |-> pc, op |-> op, task |-> t, job |-> NoJob,
                       row |-> r, running |-> run]
<1>1. request \in Requests
  BY DEF Requests
<1>2. api' \in [Handlers -> Requests]
  BY <1>1 DEF TypeOK, Enter
<1> QED
  BY <1>2 DEF TypeOK, Enter, tables, locals, spiders, budget

LEMMA AdvanceType ==
    ASSUME TypeOK, NEW h \in Handlers,
           NEW pc \in {"insert", "push", "delete"}, NEW j \in JobIds \union {NoJob},
           \/ api' = [api EXCEPT ![h].pc = pc]
           \/ api' = [api EXCEPT ![h].pc = pc, ![h].job = j]
    PROVE  api' \in [Handlers -> Requests]
<1> DEFINE r1 == [api[h] EXCEPT !.pc = pc]
           r2 == [r1 EXCEPT !.job = j]
<1>1. api[h] \in Requests
  BY DEF TypeOK
<1>2. r1 \in Requests
  BY <1>1 DEF Requests
<1>3. r2 \in Requests
  <2> HIDE DEF r1
  <2> QED
    BY <1>2 DEF Requests
<1>4. CASE api' = [api EXCEPT ![h].pc = pc]
  <2>1. api' = [api EXCEPT ![h] = r1]
    BY <1>4
  <2> QED
    BY <2>1, <1>2 DEF TypeOK
<1>5. CASE api' = [api EXCEPT ![h].pc = pc, ![h].job = j]
  <2>1. api' = [api EXCEPT ![h] = r2]
    BY <1>5 DEF TypeOK
  <2> QED
    BY <2>1, <1>3 DEF TypeOK
<1> QED
  BY <1>4, <1>5

LEMMA HandlerType ==
    ASSUME IInv, NEW h \in Handlers, HandlerStep(h)
    PROVE  TypeOK'
<1> USE DEF tables, locals, spiders, budget
<1>0. TypeOK /\ ApiInv
  BY DEF IInv
<1>1. CASE CheckActive(h)
  <2>1. ASSUME api' = [api EXCEPT ![h].pc = "insert"] PROVE api' \in [Handlers -> Requests]
    BY <1>0, <2>1, AdvanceType
  <2> QED
    BY <1>0, <1>1, <2>1, ReturnType DEF TypeOK, CheckActive
<1>2. CASE InsertJob(h)
  <2>1. /\ api[h].op \in {"start", "stop"}
        /\ api[h].task \in TaskIds
        /\ nextJob \in JobIds
    BY <1>0, <1>2, ConstantsOK DEF InsertJob, ApiInv, TypeOK, JobIds
  <2>2. jobs' \in [JobIds -> JobRows]
    BY <1>0, <1>2, <2>1 DEF TypeOK, InsertJob, JobRows, Statuses
  <2>3. nextJob' \in 1..(MaxJobs + 1)
    BY <1>0, <1>2, ConstantsOK DEF TypeOK, InsertJob
  <2>4. api' \in [Handlers -> Requests]
    <3>1. CASE api' = [api EXCEPT ![h].pc = "push", ![h].job = nextJob]
      BY <1>0, <2>1, <3>1, AdvanceType
    <3> QED
      BY <1>0, <1>2, <3>1, ReturnType DEF InsertJob
  <2> QED
    BY <1>0, <1>2, <2>2, <2>3, <2>4 DEF TypeOK, InsertJob
<1>3. CASE PushJob(h)
  <2>1. redis' \in Seq(JobIds)
    BY <1>0, <1>3 DEF TypeOK, PushJob, ApiInv
  <2> QED
    BY <1>0, <1>3, <2>1, ReturnType DEF TypeOK, PushJob
<1>4. CASE PushFails(h)
  <2>1. faults' \in 0..MaxFaults
    BY <1>0, <1>4, ConstantsOK DEF TypeOK, PushFails
  <2> QED
    BY <1>0, <1>4, <2>1, ReturnType DEF TypeOK, PushFails
<1>5. CASE SaveTask(h)
  <2>1. api[h].row \in RowStates /\ api[h].running \in BOOLEAN
    BY <1>0 DEF TypeOK, Requests
  <2> QED
    BY <1>0, <1>5, <2>1, ReturnType DEF TypeOK, SaveTask
<1>6. CASE ClearFlagBeforeDelete(h)
  <2>1. api' \in [Handlers -> Requests]
    BY <1>0, <1>6, AdvanceType DEF ClearFlagBeforeDelete
  <2> QED
    BY <1>0, <1>6, <2>1, SetRunningType DEF TypeOK, ClearFlagBeforeDelete
<1>7. CASE DeleteRow(h)
  BY <1>0, <1>7, ReturnType DEF TypeOK, DeleteRow, RowStates
<1>8. CASE CreateTask(h)
  BY <1>0, <1>8, EnterType DEF CreateTask, RowStates
<1>9. ASSUME NEW t \in TaskIds, StartTask(h, t) PROVE TypeOK'
  BY <1>0, <1>9, EnterType DEF StartTask, TypeOK
<1>10. ASSUME NEW t \in TaskIds, StopTask(h, t) PROVE TypeOK'
  BY <1>0, <1>10, EnterType DEF StopTask, TypeOK
<1>11. ASSUME NEW t \in TaskIds, UpdateTask(h, t) PROVE TypeOK'
  <2>1. PICK r \in {"enabled", "disabled"}, run \in {isRunning[t]} \union PatchedFlags :
            Enter(h, "save", "update", t, r, run)
    BY <1>11 DEF UpdateTask
  <2>2. r \in RowStates /\ run \in BOOLEAN
    BY <1>0, <1>11, ConstantsOK DEF TypeOK, RowStates
  <2> QED
    BY <1>0, <2>1, <2>2, EnterType
<1>12. ASSUME NEW t \in TaskIds, DeleteTask(h, t) PROVE TypeOK'
  BY <1>0, <1>12, EnterType DEF DeleteTask, TypeOK
<1> QED
  BY <1>1, <1>2, <1>3, <1>4, <1>5, <1>6, <1>7, <1>8, <1>9, <1>10, <1>11, <1>12
     DEF HandlerStep

LEMMA ReleaseType ==
    ASSUME TypeOK, NEW w \in Workers, NEW t, ReleaseEntry(w, t)
    PROVE  stray' \in [Workers -> [TaskIds -> Nat]]
<1> DEFINE more == [stray[w] EXCEPT ![t] = @ + 1]
<1>1. more \in [TaskIds -> Nat]
  <2>1. stray[w] \in [TaskIds -> Nat]
    BY DEF TypeOK
  <2>2. ASSUME t \in TaskIds PROVE stray[w][t] + 1 \in Nat
    BY <2>1, <2>2
  <2> QED
    BY <2>1, <2>2
<1>2. CASE stray' = [stray EXCEPT ![w][t] = @ + 1]
  <2>1. stray' = [stray EXCEPT ![w] = more]
    BY <1>2 DEF TypeOK
  <2> QED
    BY <2>1, <1>1 DEF TypeOK
<1> QED
  BY <1>2 DEF ReleaseEntry, TypeOK

\* A job row with another status, and possibly another worker, is a job row.
LEMMA RowType ==
    ASSUME NEW r \in JobRows, NEW s \in Statuses,
           NEW n \in {WorkerName[w] : w \in Workers} \union {NoName}
    PROVE  /\ [r EXCEPT !.status = s] \in JobRows
           /\ [r EXCEPT !.status = s, !.worker = n] \in JobRows
<1> DEFINE r1 == [r EXCEPT !.status = s]
<1>1. r1 \in JobRows
  BY DEF JobRows
<1>2. [r1 EXCEPT !.worker = n] \in JobRows
  <2> HIDE DEF r1
  <2> QED
    BY <1>1 DEF JobRows
<1>3. [r1 EXCEPT !.worker = n] = [r EXCEPT !.status = s, !.worker = n]
  BY DEF JobRows
<1> QED
  BY <1>1, <1>2, <1>3

LEMMA WorkerType ==
    ASSUME IInv, NEW w \in Workers, WorkerStep(w)
    PROVE  TypeOK'
<1> USE DEF tables, locals, spiders, budget
<1>0. TypeOK /\ CurInv
  BY DEF IInv
<1>1. CASE Boot(w)
  <2>1. ASSUME NEW j \in JobIds
        PROVE  [jobs[j] EXCEPT !.status = "pending", !.worker = NoName] \in JobRows
    BY <1>0, RowType DEF TypeOK, Statuses
  <2>2. jobs' \in [JobIds -> JobRows]
    BY <1>0, <1>1, <2>1 DEF TypeOK, Boot
  <2> QED
    BY <1>0, <1>1, <2>2, LoopType DEF TypeOK, Boot
<1>2. CASE PollEntry(w)
  <2>1. PICK t \in scan[w] :
          /\ scan' = [scan EXCEPT ![w] = @ \ {t}]
          /\ IF entry[w][t] = "dead"
             THEN SetRunning(t, FALSE) /\ SetEntry(w, t, "none")
             ELSE UNCHANGED <<isRunning, entry>>
    BY <1>2 DEF PollEntry
  <2>2. scan' \in [Workers -> SUBSET TaskIds]
    BY <1>0, <2>1 DEF TypeOK
  <2>3. isRunning' \in [TaskIds -> BOOLEAN]
    BY <1>0, <2>1, SetRunningType DEF TypeOK
  <2>4. entry' \in [Workers -> [TaskIds -> {"none", "live", "dead"}]]
    BY <1>0, <2>1, EntryType DEF TypeOK
  <2> QED
    BY <1>0, <1>2, <2>2, <2>3, <2>4 DEF TypeOK, PollEntry
<1>3. CASE PopRedis(w)
  <2>1. redis' \in Seq(JobIds) /\ redis[Len(redis)] \in JobIds
    BY <1>0, <1>3 DEF TypeOK, PopRedis
  <2>2. wpc' \in [Workers -> WorkerStates]
    BY <1>0, <1>3, GotoType, States DEF PopRedis
  <2>3. cur' \in [Workers -> JobIds \union {NoJob}]
    BY <1>0, <1>3, <2>1 DEF TypeOK, PopRedis
  <2> QED
    BY <1>0, <1>3, <2>1, <2>2, <2>3 DEF TypeOK, PopRedis
<1>4. CASE PopNothing(w)
  BY <1>0, <1>4, GotoType, States DEF TypeOK, PopNothing
<1>5. CASE SelectOldest(w)
  <2>1. /\ wpc' \in [Workers -> WorkerStates]
        /\ scan' \in [Workers -> SUBSET TaskIds]
        /\ cur' \in [Workers -> JobIds \union {NoJob}]
    <3>1. CASE BackToLoop(w)
      BY <1>0, <3>1, LoopType
    <3>2. ASSUME NEW j \in JobIds, cur' = [cur EXCEPT ![w] = j],
                 Goto(w, "cas_oldest"), UNCHANGED scan
          PROVE  <2>1
      BY <1>0, <3>2, GotoType, States DEF TypeOK
    <3> QED
      BY <1>5, <3>1, <3>2 DEF SelectOldest
  <2> QED
    BY <1>0, <1>5, <2>1 DEF TypeOK, SelectOldest
<1>6. CASE ClaimJob(w)
  <2> DEFINE r == [jobs[cur[w]] EXCEPT !.status = "claimed", !.worker = WorkerName[w]]
  <2>1. cur[w] \in JobIds
    BY <1>0, <1>6 DEF CurInv, ClaimJob
  <2>2. r \in JobRows
    BY <1>0, <2>1, RowType DEF TypeOK, Statuses
  <2>3. jobs' = [jobs EXCEPT ![cur[w]] = r]
    BY <1>0, <1>6, <2>1 DEF TypeOK, ClaimJob
  <2>4. jobs' \in [JobIds -> JobRows]
    BY <1>0, <2>1, <2>2, <2>3 DEF TypeOK
  <2>5. jobs[cur[w]].type \in WorkerStates
    BY <1>0, <2>1, States DEF TypeOK, JobRows
  <2> QED
    BY <1>0, <1>6, <2>4, <2>5, GotoType DEF TypeOK, ClaimJob
<1>7. CASE ClaimLost(w)
  <2>1. /\ wpc' \in [Workers -> WorkerStates]
        /\ scan' \in [Workers -> SUBSET TaskIds]
        /\ cur' \in [Workers -> JobIds \union {NoJob}]
    <3>1. CASE wpc[w] = "cas_id"
      BY <1>0, <1>7, <3>1, GotoType, States DEF TypeOK, ClaimLost
    <3> QED
      BY <1>0, <1>7, <3>1, LoopType DEF ClaimLost
  <2> QED
    BY <1>0, <1>7, <2>1 DEF TypeOK, ClaimLost
<1>8. CASE LookupTask(w)
  BY <1>0, <1>8, GotoType, FinishWithType, States DEF TypeOK, LookupTask, Terminal
<1>9. CASE LaunchSpider(w)
  BY <1>0, <1>9, GotoType, EntryType, ReleaseType, States DEF TypeOK, LaunchSpider
<1>10. CASE MarkRunning(w)
  BY <1>0, <1>10, SetRunningType, FinishWithType DEF TypeOK, MarkRunning, Terminal
<1>11. CASE SignalSpider(w)
  BY <1>0, <1>11, GotoType, States DEF TypeOK, SignalSpider
<1>12. CASE ForgetSpider(w)
  BY <1>0, <1>12, GotoType, EntryType, ReleaseType, States DEF TypeOK, ForgetSpider
<1>13. CASE ClearRunning(w)
  BY <1>0, <1>13, SetRunningType, FinishWithType DEF TypeOK, ClearRunning, Terminal
<1>14. CASE FinishJob(w)
  <2> DEFINE r == [jobs[cur[w]] EXCEPT !.status = outcome[w]]
  <2>1. cur[w] \in JobIds
    BY <1>0, <1>14 DEF CurInv, FinishJob, Handling
  <2>2. r \in JobRows
    BY <1>0, <2>1, RowType DEF TypeOK, Statuses
  <2>3. jobs' = [jobs EXCEPT ![cur[w]] = r]
    BY <1>0, <1>14, <2>1 DEF TypeOK, FinishJob
  <2>4. jobs' \in [JobIds -> JobRows]
    BY <1>0, <2>1, <2>2, <2>3 DEF TypeOK
  <2> QED
    BY <1>0, <1>14, <2>4, LoopType DEF TypeOK, FinishJob
<1> QED
  BY <1>1, <1>2, <1>3, <1>4, <1>5, <1>6, <1>7, <1>8, <1>9, <1>10, <1>11, <1>12,
     <1>13, <1>14 DEF WorkerStep

LEMMA FailureType ==
    ASSUME IInv, NEW w \in Workers, WorkerFails(w) \/ SpiderStep(w)
    PROVE  TypeOK'
<1> USE DEF tables, locals, spiders, budget
<1>0. TypeOK
  BY DEF IInv
<1>1. CASE HandlerRaises(w)
  <2>1. faults' \in 0..MaxFaults
    BY <1>0, <1>1, ConstantsOK DEF TypeOK, HandlerRaises
  <2> QED
    BY <1>0, <1>1, <2>1, FinishWithType DEF TypeOK, HandlerRaises, Terminal
<1>2. CASE Crash(w)
  <2>1. crashes' \in 0..MaxCrashes
    BY <1>0, <1>2, ConstantsOK DEF TypeOK, Crash
  <2> QED
    BY <1>0, <1>2, <2>1, GoneType DEF TypeOK, Crash
<1>3. CASE MainRaises(w)
  <2>1. faults' \in 0..MaxFaults
    BY <1>0, <1>3, ConstantsOK DEF TypeOK, MainRaises
  <2>2. isRunning' \in [TaskIds -> BOOLEAN]
    <3>1. PICK cleared \in SUBSET Registered(w) :
            isRunning' = [t \in TaskIds |-> isRunning[t] /\ t \notin cleared]
      BY <1>3 DEF MainRaises
    <3>2. \A t \in TaskIds : (isRunning[t] /\ t \notin cleared) \in BOOLEAN
      OBVIOUS
    <3> QED
      BY <3>1, <3>2, Zenon
  <2> QED
    BY <1>0, <1>3, <2>1, <2>2, GoneType DEF TypeOK, MainRaises
<1>4. ASSUME NEW t, SpiderExits(w, t) PROVE TypeOK'
  BY <1>0, <1>4, EntryType DEF TypeOK, SpiderExits
<1> QED
  BY <1>1, <1>2, <1>3, <1>4 DEF WorkerFails, SpiderStep, SpiderKilled
LEMMA TypeStep == IInv /\ [Next]_vars => TypeOK'
<1> SUFFICES ASSUME IInv, [Next]_vars PROVE TypeOK'
  OBVIOUS
<1>1. CASE UNCHANGED vars
  BY <1>1 DEF IInv, TypeOK, vars
<1> QED
  BY <1>1, HandlerType, WorkerType, FailureType DEF Next

-----------------------------------------------------------------------------
(* What a step does to worker_jobs                                         *)

\* The table changes in four ways only.
LEMMA JobsStep ==
    ASSUME IInv, [Next]_vars
    PROVE  \/ UNCHANGED <<jobs, nextJob>>
           \/ \E h \in Handlers : InsertJob(h)
           \/ \E w \in Workers : Boot(w) \/ ClaimJob(w) \/ FinishJob(w)
<1> USE DEF tables
<1>1. ASSUME NEW h \in Handlers, HandlerStep(h), ~InsertJob(h)
      PROVE  UNCHANGED <<jobs, nextJob>>
  BY <1>1 DEF HandlerStep, CheckActive, PushJob, PushFails, SaveTask,
     ClearFlagBeforeDelete, DeleteRow, CreateTask, StartTask, StopTask, UpdateTask,
     DeleteTask, Enter
<1>2. ASSUME NEW w \in Workers, WorkerStep(w), ~Boot(w), ~ClaimJob(w), ~FinishJob(w)
      PROVE  UNCHANGED <<jobs, nextJob>>
  BY <1>2 DEF WorkerStep, PollEntry, PopRedis, PopNothing, SelectOldest, ClaimLost,
     LookupTask, LaunchSpider, MarkRunning, SignalSpider, ForgetSpider, ClearRunning
<1>3. ASSUME NEW w \in Workers, WorkerFails(w) \/ SpiderStep(w)
      PROVE  UNCHANGED <<jobs, nextJob>>
  BY <1>3 DEF WorkerFails, HandlerRaises, Crash, MainRaises, SpiderStep, SpiderKilled,
     SpiderExits
<1> QED
  BY <1>1, <1>2, <1>3 DEF Next, vars

\* An inserted job keeps its type and its task, and is never absent again.
LEMMA JobsKept ==
    ASSUME IInv, [Next]_vars, NEW j \in JobIds, jobs[j].status # "absent"
    PROVE  /\ jobs'[j].status # "absent"
           /\ jobs'[j].type = jobs[j].type
           /\ jobs'[j].task = jobs[j].task
<1> USE DEF IInv, TypeOK
<1>1. ASSUME NEW h \in Handlers, InsertJob(h) PROVE jobs'[j] = jobs[j]
  <2>1. j # nextJob
    BY DEF JobsInv, JobIds
  <2> QED
    BY <1>1, <2>1 DEF InsertJob
<1>2. ASSUME NEW w \in Workers, Boot(w)
      PROVE  /\ jobs'[j].status # "absent"
             /\ jobs'[j].type = jobs[j].type
             /\ jobs'[j].task = jobs[j].task
  BY <1>2 DEF Boot, JobRows
<1>3. ASSUME NEW w \in Workers, ClaimJob(w)
      PROVE  /\ jobs'[j].status # "absent"
             /\ jobs'[j].type = jobs[j].type
             /\ jobs'[j].task = jobs[j].task
  BY <1>3 DEF ClaimJob, JobRows
<1>4. ASSUME NEW w \in Workers, FinishJob(w)
      PROVE  /\ jobs'[j].status # "absent"
             /\ jobs'[j].type = jobs[j].type
             /\ jobs'[j].task = jobs[j].task
  <2>1. outcome[w] # "absent"
    BY DEF Terminal
  <2>2. jobs' = [jobs EXCEPT ![cur[w]].status = outcome[w]]
    BY <1>4 DEF FinishJob
  <2> QED
    BY <2>1, <2>2 DEF JobRows
<1> QED
  BY <1>1, <1>2, <1>3, <1>4, JobsStep

LEMMA JobsInvStep == IInv /\ [Next]_vars => JobsInv'
<1> DEFINE Good(j) == /\ jobs'[j].status # "absent" => jobs'[j].task \in TaskIds
                      /\ j >= nextJob' => jobs'[j].status = "absent"
                      /\ jobs'[j].status = "absent" => jobs'[j].worker = NoName
<1> SUFFICES ASSUME IInv, [Next]_vars, NEW j \in JobIds PROVE Good(j)
  BY DEF JobsInv
<1> USE DEF IInv, TypeOK, JobsInv, JobIds
<1>1. ASSUME NEW h \in Handlers, InsertJob(h) PROVE Good(j)
  BY <1>1 DEF InsertJob, ApiInv
<1>2. ASSUME NEW w \in Workers, Boot(w) \/ ClaimJob(w) \/ FinishJob(w) PROVE Good(j)
  <2>1. nextJob' = nextJob
    BY <1>2 DEF Boot, ClaimJob, FinishJob
  <2>2. CASE jobs[j].status # "absent"
    BY <2>1, <2>2, JobsKept
  <2>3. CASE jobs[j].status = "absent"
    <3>1. jobs'[j] = jobs[j]
      BY <1>2, <2>3 DEF Boot, ClaimJob, FinishJob, CurInv, Handling
    <3> QED
      BY <2>1, <2>3, <3>1
  <2> QED
    BY <2>2, <2>3
<1> QED
  BY <1>1, <1>2, JobsStep

LEMMA ApiInvStep == IInv /\ [Next]_vars => ApiInv'
<1> DEFINE Good(r) == /\ r.pc # "idle" => r.task \in TaskIds
                      /\ r.pc \in {"check", "insert"} => r.op \in {"start", "stop"}
                      /\ r.pc = "push" => r.job \in JobIds
<1>0. ApiInv <=> \A g \in Handlers : Good(api[g])
  BY DEF ApiInv
<1> SUFFICES ASSUME IInv, [Next]_vars, NEW g \in Handlers
             PROVE  Good(api'[g])
  BY DEF ApiInv
<1>1. api[g] \in Requests /\ Good(api[g])
  BY <1>0 DEF IInv, TypeOK
<1>2. CASE UNCHANGED api
  BY <1>1, <1>2
<1>3. Good(Idle)
  BY DEF Idle
<1>4. ASSUME NEW h \in Handlers, HandlerStep(h)
      PROVE  Good(api'[g])
  <2>1. ASSUME h # g PROVE api'[g] = api[g]
    BY <1>4, <2>1 DEF IInv, TypeOK, HandlerStep, CheckActive, InsertJob, PushJob, PushFails,
       SaveTask, ClearFlagBeforeDelete, DeleteRow, CreateTask, StartTask, StopTask,
       UpdateTask, DeleteTask, Enter, Return
  <2>2. CASE api' = [api EXCEPT ![g] = Idle]
    BY <1>3, <2>2 DEF IInv, TypeOK
  <2>8. ASSUME NEW pc, api' = [api EXCEPT ![g].pc = pc]
        PROVE  /\ api'[g].pc = pc
               /\ api'[g].op = api[g].op
               /\ api'[g].task = api[g].task
    BY <1>1, <2>8 DEF IInv, TypeOK, Requests
  <2>9. ASSUME NEW pc, NEW j, api' = [api EXCEPT ![g].pc = pc, ![g].job = j]
        PROVE  /\ api'[g].pc = pc
               /\ api'[g].job = j
               /\ api'[g].task = api[g].task
    <3> DEFINE r1 == [api[g] EXCEPT !.pc = pc]
    <3>1. api'[g] = [r1 EXCEPT !.job = j]
      BY <2>9 DEF IInv, TypeOK
    <3> QED
      BY <1>1, <3>1 DEF Requests
  <2>3. CASE h = g /\ (CheckActive(h) \/ ClearFlagBeforeDelete(h))
    <3>1. CASE api' = [api EXCEPT ![g].pc = "insert"] /\ api[g].pc = "check"
      BY <1>1, <2>8, <3>1
    <3>2. CASE api' = [api EXCEPT ![g].pc = "delete"] /\ api[g].pc = "unflag"
      BY <1>1, <2>8, <3>2
    <3> QED
      BY <2>2, <2>3, <3>1, <3>2 DEF CheckActive, ClearFlagBeforeDelete, Return
  <2>4. CASE h = g /\ InsertJob(h)
    <3>1. nextJob \in JobIds
      BY <2>4, ConstantsOK DEF IInv, TypeOK, InsertJob, JobIds
    <3>2. CASE api' = [api EXCEPT ![g].pc = "push", ![g].job = nextJob] /\ api[g].pc = "insert"
      BY <1>1, <2>9, <3>1, <3>2
    <3> QED
      BY <2>2, <2>4, <3>2 DEF InsertJob, Return
  <2>5. CASE h = g /\ (PushJob(h) \/ PushFails(h) \/ SaveTask(h) \/ DeleteRow(h))
    BY <2>2, <2>5 DEF PushJob, PushFails, SaveTask, DeleteRow, Return
  <2>6. ASSUME NEW t \in TaskIds, NEW r, NEW run, NEW pc, NEW op,
               pc \in {"check", "save", "unflag", "delete"},
               pc = "check" => op \in {"start", "stop"},
               Enter(g, pc, op, t, r, run)
        PROVE  Good(api'[g])
    BY <2>6 DEF IInv, TypeOK, Enter
  <2>7. CASE h = g /\ (CreateTask(h) \/ \E t \in TaskIds :
               StartTask(h, t) \/ StopTask(h, t) \/ UpdateTask(h, t) \/ DeleteTask(h, t))
    <3>1. CASE CreateTask(g)
      <4>1. PICK r \in {"enabled", "disabled"} :
              Enter(g, "save", "create", NextTaskId, r, FALSE) /\ NextTaskId \in TaskIds
        BY <3>1 DEF CreateTask
      <4> QED
        BY <4>1 DEF IInv, TypeOK, Enter
    <3>2. ASSUME NEW t \in TaskIds, UpdateTask(g, t) PROVE Good(api'[g])
      <4>1. PICK r \in {"enabled", "disabled"}, run \in {isRunning[t]} \union PatchedFlags :
              Enter(g, "save", "update", t, r, run)
        BY <3>2 DEF UpdateTask
      <4> QED
        BY <4>1, <2>6
    <3>3. ASSUME NEW t \in TaskIds, StartTask(g, t) PROVE Good(api'[g])
      BY <3>3, <2>6 DEF StartTask
    <3>4. ASSUME NEW t \in TaskIds, StopTask(g, t) PROVE Good(api'[g])
      BY <3>4 DEF IInv, TypeOK, StopTask, Enter
    <3>5. ASSUME NEW t \in TaskIds, DeleteTask(g, t) PROVE Good(api'[g])
      <4>1. PICK pc \in {"unflag", "delete"} :
              Enter(g, pc, "delete", t, row[t], isRunning[t])
        BY <3>5 DEF DeleteTask
      <4> QED
        BY <4>1, <2>6
    <3> QED
      BY <2>7, <3>1, <3>2, <3>3, <3>4, <3>5
  <2> QED
    BY <1>1, <1>4, <2>1, <2>3, <2>4, <2>5, <2>7 DEF HandlerStep
<1>5. ASSUME NEW w \in Workers, WorkerStep(w) \/ WorkerFails(w) \/ SpiderStep(w)
      PROVE  UNCHANGED api
  BY <1>5 DEF WorkerStep, Boot, PollEntry, PopRedis, PopNothing, SelectOldest, ClaimJob,
     ClaimLost, LookupTask, LaunchSpider, MarkRunning, SignalSpider, ForgetSpider,
     ClearRunning, FinishJob, WorkerFails, HandlerRaises, Crash, MainRaises, SpiderStep,
     SpiderKilled, SpiderExits
<1> QED
  BY <1>2, <1>4, <1>5 DEF Next, vars

-----------------------------------------------------------------------------
(* What a step does to the memory of the workers                           *)

WorkerMemory(v) == <<wpc[v], cur[v], entry[v], stray[v]>>

LEMMA HandlersLeaveWorkers ==
    ASSUME NEW h \in Handlers, HandlerStep(h)
    PROVE  UNCHANGED <<wpc, cur, entry, stray>>
  BY DEF HandlerStep, CheckActive, InsertJob, PushJob, PushFails, SaveTask,
     ClearFlagBeforeDelete, DeleteRow, CreateTask, StartTask, StopTask, UpdateTask,
     DeleteTask, Enter, locals, spiders

LEMMA OthersKept ==
    ASSUME IInv, NEW v \in Workers, NEW w \in Workers, v # w,
           WorkerStep(w) \/ WorkerFails(w) \/ SpiderStep(w)
    PROVE  UNCHANGED WorkerMemory(v)
<1> USE DEF IInv, TypeOK, WorkerMemory, locals, spiders
<1>1. CASE Boot(w) \/ FinishJob(w)
  BY <1>1 DEF Boot, FinishJob, BackToLoop
<1>2. CASE PollEntry(w)
  BY <1>2 DEF PollEntry, SetEntry
<1>3. CASE PopRedis(w) \/ PopNothing(w) \/ ClaimJob(w)
  BY <1>3 DEF PopRedis, PopNothing, ClaimJob, Goto
<1>4. CASE SelectOldest(w)
  BY <1>4 DEF SelectOldest, BackToLoop, Goto
<1>5. CASE ClaimLost(w)
  BY <1>5 DEF ClaimLost, BackToLoop, Goto
<1>6. CASE LookupTask(w) \/ MarkRunning(w) \/ SignalSpider(w) \/ ClearRunning(w) \/ HandlerRaises(w)
  BY <1>6 DEF LookupTask, MarkRunning, SignalSpider, ClearRunning, HandlerRaises,
     FinishWith, Goto
<1>7. CASE LaunchSpider(w) \/ ForgetSpider(w)
  BY <1>7 DEF LaunchSpider, ForgetSpider, SetEntry, ReleaseEntry, Goto
<1>8. CASE Crash(w) \/ MainRaises(w)
  BY <1>8 DEF Crash, MainRaises, WorkerGone, Goto
<1>9. ASSUME NEW t, SpiderExits(w, t) PROVE UNCHANGED WorkerMemory(v)
  BY <1>9 DEF SpiderExits, SetEntry
<1> QED
  BY <1>1, <1>2, <1>3, <1>4, <1>5, <1>6, <1>7, <1>8, <1>9
     DEF WorkerStep, WorkerFails, SpiderStep, SpiderKilled

\* How the acting worker comes to select, claim and handle a job.
LEMMA OwnStep ==
    ASSUME IInv, NEW w \in Workers,
           WorkerStep(w) \/ WorkerFails(w) \/ SpiderStep(w),
           wpc'[w] \in {"cas_id", "cas_oldest"} \union Handling
    PROVE  \/ /\ wpc'[w] \in {"cas_id", "cas_oldest"}
              /\ cur'[w] \in JobIds
              /\ jobs[cur'[w]].status = "pending"
              /\ UNCHANGED jobs
           \/ ClaimJob(w)
           \/ /\ wpc[w] \in Handling /\ wpc'[w] \in Handling
              /\ cur'[w] = cur[w]
              /\ UNCHANGED jobs
           \/ UNCHANGED <<wpc, cur, jobs>>
<1> USE States DEF IInv, TypeOK, tables, locals, spiders
<1>1. CASE Boot(w) \/ FinishJob(w)
  BY <1>1 DEF Boot, FinishJob, BackToLoop
<1>2. CASE PollEntry(w) \/ PopNothing(w)
  BY <1>2 DEF PollEntry, PopNothing, Goto
<1>3. CASE PopRedis(w)
  <2>1. redis[Len(redis)] \in JobIds
    BY <1>3 DEF PopRedis
  <2> QED
    BY <1>3, <2>1 DEF PopRedis, Goto
<1>4. CASE SelectOldest(w)
  BY <1>4 DEF SelectOldest, BackToLoop, Goto
<1>5. CASE ClaimLost(w)
  BY <1>5 DEF ClaimLost, BackToLoop, Goto
<1>6. CASE LookupTask(w) \/ MarkRunning(w) \/ SignalSpider(w) \/ ClearRunning(w) \/ HandlerRaises(w)
  BY <1>6 DEF LookupTask, MarkRunning, SignalSpider, ClearRunning, HandlerRaises,
     FinishWith, Goto
<1>7. CASE LaunchSpider(w) \/ ForgetSpider(w)
  BY <1>7 DEF LaunchSpider, ForgetSpider, Goto
<1>8. CASE Crash(w) \/ MainRaises(w)
  BY <1>8 DEF Crash, MainRaises, WorkerGone, Goto
<1>9. ASSUME NEW t, SpiderExits(w, t) PROVE UNCHANGED <<wpc, cur, jobs>>
  BY <1>9 DEF SpiderExits
<1> QED
  BY <1>1, <1>2, <1>3, <1>4, <1>5, <1>6, <1>7, <1>8, <1>9
     DEF WorkerStep, WorkerFails, SpiderStep, SpiderKilled

-----------------------------------------------------------------------------
(* The parts of the invariant about the workers                            *)

LEMMA CurInvStep == IInv /\ [Next]_vars => CurInv'
<1> SUFFICES ASSUME IInv, [Next]_vars, NEW v \in Workers,
                    wpc'[v] \in {"cas_id", "cas_oldest"} \union Handling
             PROVE  cur'[v] \in JobIds /\ jobs'[cur'[v]].status # "absent"
  BY DEF CurInv
<1>1. CASE UNCHANGED WorkerMemory(v)
  BY <1>1, JobsKept DEF IInv, CurInv, WorkerMemory
<1>2. CASE WorkerStep(v) \/ WorkerFails(v) \/ SpiderStep(v)
  <2>1. CASE ClaimJob(v)
    <3>1. cur' = cur /\ cur[v] \in JobIds /\ jobs[cur[v]].status # "absent"
      BY <2>1 DEF IInv, CurInv, ClaimJob, locals
    <3> QED
      BY <3>1, JobsKept
  <2>2. CASE wpc[v] \in Handling /\ cur'[v] = cur[v] /\ UNCHANGED jobs
    BY <2>2 DEF IInv, CurInv
  <2> QED
    BY <1>1, <1>2, <2>1, <2>2, OwnStep DEF IInv, CurInv
<1> QED
  BY <1>1, <1>2, OthersKept, HandlersLeaveWorkers DEF Next, vars, WorkerMemory

LEMMA ClaimInvStep ==
    ASSUME DistinctNames, IInv, [Next]_vars
    PROVE  ClaimInv'
<1> USE States
<1> DEFINE Held(v) == jobs[cur[v]].status = "claimed" /\ jobs[cur[v]].worker = WorkerName[v]
<1> SUFFICES ASSUME NEW v \in Workers, wpc'[v] \in Handling
             PROVE  Held(v)'
  BY DEF ClaimInv
<1>1. ASSUME UNCHANGED <<wpc[v], cur[v]>>, ~WorkerStep(v) PROVE Held(v)'
  <2>1. wpc[v] \in Handling /\ Held(v) /\ cur[v] \in JobIds
    BY <1>1 DEF IInv, ClaimInv, CurInv
  <2>2. CASE UNCHANGED jobs
    BY <1>1, <2>1, <2>2
  <2>3. ASSUME NEW h \in Handlers, InsertJob(h) PROVE jobs'[cur[v]] = jobs[cur[v]]
    <3>1. cur[v] # nextJob
      BY <2>1 DEF IInv, TypeOK, JobsInv, JobIds
    <3> QED
      BY <2>1, <2>3, <3>1 DEF IInv, TypeOK, InsertJob
  <2>4. ASSUME NEW w \in Workers, w # v, Boot(w) \/ ClaimJob(w) \/ FinishJob(w)
        PROVE  jobs'[cur[v]] = jobs[cur[v]]
    <3>1. WorkerName[w] # WorkerName[v]
      BY <2>4 DEF DistinctNames
    <3>2. CASE Boot(w)
      BY <2>1, <3>1, <3>2 DEF Boot
    <3>3. CASE ClaimJob(w)
      BY <2>1, <3>3 DEF IInv, TypeOK, ClaimJob
    <3>4. CASE FinishJob(w)
      <4>1. jobs[cur[w]].worker = WorkerName[w]
        BY <3>4 DEF IInv, ClaimInv, FinishJob
      <4> QED
        BY <2>1, <3>1, <3>4, <4>1 DEF IInv, TypeOK, FinishJob
    <3> QED
      BY <2>4, <3>2, <3>3, <3>4
  <2>5. ~(Boot(v) \/ ClaimJob(v) \/ FinishJob(v))
    BY <1>1 DEF WorkerStep
  <2> QED
    BY <1>1, <2>1, <2>2, <2>3, <2>4, <2>5, JobsStep
<1>2. CASE WorkerStep(v) \/ WorkerFails(v) \/ SpiderStep(v)
  <2>1. CASE ClaimJob(v)
    <3>1. cur' = cur /\ cur[v] \in JobIds
      BY <2>1 DEF IInv, CurInv, ClaimJob, locals
    <3> QED
      BY <2>1, <3>1 DEF IInv, TypeOK, JobRows, ClaimJob
  <2>2. CASE wpc[v] \in Handling /\ cur'[v] = cur[v] /\ UNCHANGED jobs
    BY <2>2 DEF IInv, ClaimInv
  <2>3. CASE UNCHANGED <<wpc, cur, jobs>>
    BY <2>3 DEF IInv, ClaimInv
  <2> QED
    BY <1>2, <2>1, <2>2, <2>3, OwnStep
<1>3. CASE UNCHANGED vars
  BY <1>3 DEF vars, IInv, ClaimInv
<1>4. ASSUME NEW h \in Handlers, HandlerStep(h), ~WorkerStep(v) PROVE Held(v)'
  BY <1>1, <1>4, HandlersLeaveWorkers
<1>5. ASSUME NEW w \in Workers, w # v, WorkerStep(w) \/ WorkerFails(w) \/ SpiderStep(w),
             ~WorkerStep(v)
      PROVE  Held(v)'
  BY <1>1, <1>5, OthersKept DEF WorkerMemory
<1> QED
  BY <1>2, <1>3, <1>4, <1>5 DEF Next

LEMMA LaunchInvStep == IInv /\ [Next]_vars => LaunchInv'
<1> USE States
<1> SUFFICES ASSUME IInv, [Next]_vars, NEW v \in Workers, wpc'[v] = "launch"
             PROVE  entry'[v][Task(v)'] # "live"
  BY DEF LaunchInv
<1>1. ASSUME wpc[v] = "launch", cur'[v] = cur[v],
             \/ entry'[v] = entry[v]
             \/ \E t : entry' = [entry EXCEPT ![v][t] = "dead"]
      PROVE  entry'[v][Task(v)'] # "live"
  <2>1. cur[v] \in JobIds /\ jobs[cur[v]].status # "absent" /\ entry[v][Task(v)] # "live"
    BY <1>1 DEF IInv, CurInv, LaunchInv
  <2>2. Task(v)' = Task(v)
    BY <1>1, <2>1, JobsKept DEF Task
  <2>3. entry'[v][Task(v)] # "live"
    <3>1. Task(v) \in TaskIds /\ entry[v] \in [TaskIds -> {"none", "live", "dead"}]
      BY <2>1 DEF IInv, TypeOK, JobsInv, Task
    <3>2. ASSUME NEW t, entry' = [entry EXCEPT ![v][t] = "dead"]
          PROVE  entry'[v] = [entry[v] EXCEPT ![t] = "dead"]
      BY <3>2 DEF IInv, TypeOK
    <3> QED
      BY <1>1, <2>1, <3>1, <3>2
  <2> QED
    BY <2>2, <2>3
<1>2. CASE UNCHANGED WorkerMemory(v)
  BY <1>1, <1>2 DEF WorkerMemory
<1>3. CASE WorkerStep(v) \/ WorkerFails(v) \/ SpiderStep(v)
  <2>1. CASE LookupTask(v)
    <3>1. Task(v)' = Task(v) /\ entry' = entry
      BY <2>1 DEF LookupTask, Task, tables, spiders
    <3>2. entry[v][Task(v)] # "live"
      BY <2>1 DEF IInv, TypeOK, LookupTask, FinishWith, Goto
    <3> QED
      BY <3>1, <3>2
  <2>2. ASSUME NEW t, SpiderExits(v, t) PROVE entry'[v][Task(v)'] # "live"
    <3>1. wpc' = wpc /\ cur' = cur /\ entry' = [entry EXCEPT ![v][t] = "dead"]
      BY <2>2 DEF SpiderExits, SetEntry, locals
    <3> QED
      BY <1>1, <3>1
  <2>3. CASE PollEntry(v)
    BY <2>3 DEF PollEntry
  <2>4. CASE ClaimJob(v)
    <3>1. cur[v] \in JobIds
      BY <2>4 DEF IInv, CurInv, ClaimJob
    <3> QED
      BY <2>4, <3>1 DEF IInv, TypeOK, JobRows, ClaimJob, Goto
  <2>5. ~(Boot(v) \/ FinishJob(v) \/ PopRedis(v) \/ PopNothing(v) \/ SelectOldest(v) \/ ClaimLost(v))
    BY DEF IInv, TypeOK, Boot, FinishJob, PopRedis, PopNothing, SelectOldest, ClaimLost,
       BackToLoop, Goto
  <2>6. ~(LaunchSpider(v) \/ MarkRunning(v) \/ SignalSpider(v) \/ ForgetSpider(v)
          \/ ClearRunning(v) \/ HandlerRaises(v) \/ Crash(v) \/ MainRaises(v))
    BY DEF IInv, TypeOK, LaunchSpider, MarkRunning, SignalSpider, ForgetSpider, ClearRunning,
       HandlerRaises, Crash, MainRaises, WorkerGone, FinishWith, Goto
  <2> QED
    BY <1>3, <2>1, <2>2, <2>3, <2>4, <2>5, <2>6
       DEF WorkerStep, WorkerFails, SpiderStep, SpiderKilled
<1> QED
  BY <1>2, <1>3, OthersKept, HandlersLeaveWorkers DEF Next, vars, WorkerMemory

LEMMA StrayStep == IInv /\ [Next]_vars => NoStraySpider'
<1> SUFFICES ASSUME IInv, [Next]_vars, NEW v \in Workers, NEW t \in TaskIds
             PROVE  stray'[v][t] = 0
  BY DEF NoStraySpider
<1> USE DEF IInv, TypeOK, NoStraySpider
<1>1. CASE UNCHANGED WorkerMemory(v)
  BY <1>1 DEF WorkerMemory
<1>2. CASE LaunchSpider(v)
  BY <1>2 DEF LaunchSpider, LaunchInv, ReleaseEntry
<1>3. CASE ForgetSpider(v)
  BY <1>3 DEF ForgetSpider, ReleaseEntry
<1>4. CASE Crash(v) \/ MainRaises(v)
  BY <1>4 DEF Crash, MainRaises, WorkerGone
<1>5. CASE (WorkerStep(v) /\ ~LaunchSpider(v) /\ ~ForgetSpider(v)) \/ HandlerRaises(v) \/ SpiderStep(v)
  <2>1. UNCHANGED stray
    BY <1>5 DEF WorkerStep, Boot, PollEntry, PopRedis, PopNothing, SelectOldest, ClaimJob,
       ClaimLost, LookupTask, MarkRunning, SignalSpider, ClearRunning, FinishJob,
       HandlerRaises, SpiderStep, SpiderKilled, SpiderExits, spiders
  <2> QED
    BY <2>1
<1> QED
  BY <1>1, <1>2, <1>3, <1>4, <1>5, OthersKept, HandlersLeaveWorkers
     DEF Next, vars, WorkerMemory, WorkerFails

-----------------------------------------------------------------------------
(* The theorems                                                            *)

LEMMA InitInv == Init => IInv
<1> SUFFICES ASSUME Init PROVE IInv
  OBVIOUS
<1> USE DEF Init
<1>1. NoJobRow \in JobRows /\ Idle \in Requests
  BY DEF NoJobRow, Idle, JobRows, Requests, RowStates, Statuses, TaskIds, JobIds
<1>2. /\ [t \in TaskIds |-> "none"] \in [TaskIds -> {"none", "live", "dead"}]
      /\ [t \in TaskIds |-> 0] \in [TaskIds -> Nat]
  OBVIOUS
<1>3. /\ row \in [TaskIds -> RowStates] /\ isRunning \in [TaskIds -> BOOLEAN]
      /\ jobs \in [JobIds -> JobRows] /\ nextJob \in 1..(MaxJobs + 1)
      /\ redis \in Seq(JobIds) /\ api \in [Handlers -> Requests]
  BY <1>1, ConstantsOK DEF RowStates
<1>4. /\ entry \in [Workers -> [TaskIds -> {"none", "live", "dead"}]]
      /\ stray \in [Workers -> [TaskIds -> Nat]]
  BY <1>2
<1>5. /\ wpc \in [Workers -> WorkerStates]
      /\ cur \in [Workers -> JobIds \union {NoJob}]
      /\ outcome \in [Workers -> Terminal] /\ scan \in [Workers -> SUBSET TaskIds]
      /\ crashes \in 0..MaxCrashes /\ faults \in 0..MaxFaults
  BY States, ConstantsOK DEF Terminal
<1>6. TypeOK
  BY <1>3, <1>4, <1>5 DEF TypeOK
<1>7. JobsInv /\ ApiInv /\ NoStraySpider
  BY DEF JobsInv, ApiInv, NoStraySpider, NoJobRow, Idle
<1>8. CurInv /\ ClaimInv /\ LaunchInv
  BY States DEF CurInv, ClaimInv, LaunchInv
<1> QED
  BY <1>6, <1>7, <1>8 DEF IInv

LEMMA InvStep == DistinctNames /\ IInv /\ [Next]_vars => IInv'
  BY TypeStep, JobsInvStep, ApiInvStep, CurInvStep, ClaimInvStep, LaunchInvStep, StrayStep
     DEF IInv

LEMMA Invariance == DistinctNames => (Spec => []IInv)
<1>1. SUFFICES ASSUME DistinctNames PROVE Spec => []IInv
  OBVIOUS
<1>2. IInv /\ [Next]_vars => IInv'
  BY <1>1, InvStep
<1> QED
  BY <1>2, InitInv, PTL DEF Spec

\* The variables of the tables, the requests and the workers' memory keep
\* their shape, for any number of each.
THEOREM TypeCorrect == DistinctNames => (Spec => []TypeOK)
<1>1. IInv => TypeOK
  BY DEF IInv
<1> QED
  BY <1>1, Invariance, PTL

\* Workers with WORKER_IDs of their own never handle one job together: the
\* conditional UPDATE and the re-queueing at a restart keep claims exclusive.
THEOREM ClaimsAreExclusive == DistinctNames => (Spec => []ClaimExclusive)
<1>1. SUFFICES ASSUME DistinctNames PROVE Spec => []ClaimExclusive
  OBVIOUS
<1>2. IInv => ClaimExclusive
  BY <1>1 DEF IInv, ClaimInv, ClaimExclusive, DistinctNames
<1>3. Spec => []IInv
  BY <1>1, Invariance
<1> QED
  BY <1>2, <1>3, PTL

\* Every live spider stays registered in running_tasks of its worker.
THEOREM SpidersAreRegistered == DistinctNames => (Spec => []NoStraySpider)
<1>1. IInv => NoStraySpider
  BY DEF IInv
<1> QED
  BY <1>1, Invariance, PTL

LEMMA TerminalStep ==
    ASSUME IInv, [Next]_vars, NEW j \in JobIds, jobs[j].status \in Terminal
    PROVE  jobs'[j] = jobs[j]
<1> USE DEF IInv, TypeOK, Terminal
<1>1. ASSUME NEW h \in Handlers, InsertJob(h) PROVE jobs'[j] = jobs[j]
  <2>1. j # nextJob
    BY DEF JobsInv, JobIds
  <2> QED
    BY <1>1, <2>1 DEF InsertJob
<1>2. ASSUME NEW w \in Workers, Boot(w) PROVE jobs'[j] = jobs[j]
  BY <1>2 DEF Boot
<1>3. ASSUME NEW w \in Workers, ClaimJob(w) PROVE jobs'[j] = jobs[j]
  BY <1>3 DEF ClaimJob
<1>4. ASSUME NEW w \in Workers, FinishJob(w) PROVE jobs'[j] = jobs[j]
  <2>1. jobs[cur[w]].status = "claimed"
    BY <1>4, States DEF ClaimInv, FinishJob
  <2> QED
    BY <1>4, <2>1 DEF FinishJob
<1> QED
  BY <1>1, <1>2, <1>3, <1>4, JobsStep

\* A finished job is never written again, although finish_job_sync does not
\* look at the status: only the worker that holds the claim comes to run it.
THEOREM FinishedJobsStay == DistinctNames => (Spec => TerminalIsFinal)
<1>1. SUFFICES ASSUME DistinctNames PROVE Spec => TerminalIsFinal
  OBVIOUS
<1>2. IInv /\ [Next]_vars =>
        [\A j \in JobIds : jobs[j].status \in Terminal => jobs'[j] = jobs[j]]_vars
  BY TerminalStep
<1> QED
  BY <1>1, <1>2, Invariance, PTL DEF Spec, TerminalIsFinal

-----------------------------------------------------------------------------
(* The tables, the list and the workers implement JobQueue                 *)

\* What the abstract queue sees of a worker.
Working(w) == IF wpc[w] \in Handling THEN cur[w] ELSE NoJob

LEMMA QueueInit == Init => Queue!Init
  BY States DEF Init, Queue!Init, NoJobRow

\* A step that leaves the rows and what workers handle is not seen.
LEMMA Unseen ==
    ASSUME UNCHANGED jobs, \A w \in Workers : Working(w)' = Working(w)
    PROVE  UNCHANGED Queue!vars
  BY DEF Queue!vars, Working

LEMMA OtherWorking ==
    ASSUME IInv, NEW w \in Workers, NEW v \in Workers, v # w,
           WorkerStep(w) \/ WorkerFails(w) \/ SpiderStep(w)
    PROVE  Working(v)' = Working(v)
  BY OthersKept DEF Working, WorkerMemory

LEMMA SubmitStep ==
    ASSUME IInv, NEW h \in Handlers, InsertJob(h)
    PROVE  Queue!Next
<1> USE DEF IInv, TypeOK
<1>1. nextJob \in JobIds
  BY ConstantsOK DEF InsertJob, JobIds
<1>2. /\ jobs[nextJob].status = "absent"
      /\ jobs[nextJob].worker = NoName
  BY <1>1 DEF JobsInv, JobIds
<1>3. UNCHANGED <<wpc, cur>>
  BY DEF InsertJob, locals
<1>4. \A j \in JobIds : jobs'[j] = IF j = nextJob
        THEN [type |-> api[h].op, task |-> api[h].task,
              status |-> "pending", worker |-> NoName] ELSE jobs[j]
  BY <1>1 DEF InsertJob
<1>5. PICK n \in JobIds : n = nextJob
  BY <1>1
<1>6. Queue!Submit(n)
  <2>1. [j \in JobIds |-> jobs'[j].status]
          = [[j \in JobIds |-> jobs[j].status] EXCEPT ![n] = "pending"]
    <3>1. \A j \in JobIds : jobs'[j].status = IF j = n THEN "pending" ELSE jobs[j].status
      BY <1>4, <1>5
    <3> QED
      BY <3>1, Zenon
  <2>2. [j \in JobIds |-> jobs'[j].worker] = [j \in JobIds |-> jobs[j].worker]
    BY <1>2, <1>4, <1>5
  <2>3. jobs[n].status = "absent"
    BY <1>2, <1>5
  <2>4. UNCHANGED [w \in Workers |-> IF wpc[w] \in Handling THEN cur[w] ELSE NoJob]
    BY <1>3
  <2> QED
    BY <2>1, <2>2, <2>3, <2>4 DEF Queue!Submit
<1> QED
  BY <1>6 DEF Queue!Next

LEMMA ClaimStep ==
    ASSUME IInv, NEW w \in Workers, ClaimJob(w)
    PROVE  Queue!Next
<1> USE States DEF IInv, TypeOK
<1>1. /\ cur[w] \in JobIds
      /\ jobs[cur[w]].status = "pending"
      /\ wpc[w] \notin Handling
  BY DEF ClaimJob, CurInv
<1>2. wpc' = [wpc EXCEPT ![w] = jobs[cur[w]].type] /\ cur' = cur
  BY DEF ClaimJob, Goto, locals
<1>3. jobs[cur[w]].type \in Handling
  BY <1>1 DEF JobRows
<1>4. \A j \in JobIds :
        /\ jobs'[j].status = IF j = cur[w] THEN "claimed" ELSE jobs[j].status
        /\ jobs'[j].worker = IF j = cur[w] THEN WorkerName[w] ELSE jobs[j].worker
  BY <1>1 DEF ClaimJob, JobRows
<1>5. \A v \in Workers : Working(v)' = IF v = w THEN cur[w] ELSE Working(v)
  BY <1>2, <1>3 DEF Working
<1>6. PICK n \in JobIds : n = cur[w]
  BY <1>1
<1>7. Queue!Claim(w, n)
  BY <1>1, <1>4, <1>5, <1>6 DEF Queue!Claim, Working
<1> QED
  BY <1>7 DEF Queue!Next

LEMMA FinishStep ==
    ASSUME IInv, NEW w \in Workers, FinishJob(w)
    PROVE  Queue!Next
<1> USE States DEF IInv, TypeOK
<1>1. /\ cur[w] \in JobIds
      /\ wpc[w] \in Handling
      /\ jobs[cur[w]].status = "claimed"
      /\ jobs[cur[w]].worker = WorkerName[w]
  BY DEF FinishJob, CurInv, ClaimInv
<1>2. wpc' = [wpc EXCEPT ![w] = "monitor"] /\ cur' = [cur EXCEPT ![w] = NoJob]
  BY DEF FinishJob, BackToLoop
<1>3. \A j \in JobIds :
        /\ jobs'[j].status = IF j = cur[w] THEN outcome[w] ELSE jobs[j].status
        /\ jobs'[j].worker = jobs[j].worker
  BY <1>1 DEF FinishJob, JobRows
<1>4. \A v \in Workers : Working(v)' = IF v = w THEN NoJob ELSE Working(v)
  BY <1>2 DEF Working
<1>5. outcome[w] \in {"completed", "failed"}
  BY DEF Terminal
<1>6. PICK n \in JobIds : n = cur[w]
  BY <1>1
<1>7. Queue!Finish(w, n)
  BY <1>1, <1>3, <1>4, <1>5, <1>6 DEF Queue!Finish, Working
<1> QED
  BY <1>7 DEF Queue!Next

LEMMA RestartStep ==
    ASSUME IInv, NEW w \in Workers, Boot(w)
    PROVE  Queue!Next \/ UNCHANGED Queue!vars
<1> USE States DEF IInv, TypeOK
<1> DEFINE stale == {j \in JobIds :
                       jobs[j].status = "claimed" /\ jobs[j].worker = WorkerName[w]}
<1>1. wpc[w] \notin Handling /\ wpc'[w] \notin Handling
  BY DEF Boot, BackToLoop
<1>2. \A v \in Workers : Working(v)' = Working(v)
  BY <1>1, OtherWorking DEF Working, WorkerStep
<1>3. \A j \in JobIds :
        jobs'[j] = IF j \in stale
                   THEN [jobs[j] EXCEPT !.status = "pending", !.worker = NoName]
                   ELSE jobs[j]
  BY DEF Boot
<1>4. \A j \in JobIds :
        /\ jobs'[j].status = IF j \in stale THEN "pending" ELSE jobs[j].status
        /\ jobs'[j].worker = IF j \in stale THEN NoName ELSE jobs[j].worker
  BY <1>3 DEF JobRows
<1>5. CASE stale = {}
  BY <1>2, <1>4, <1>5 DEF Queue!vars, Working
<1>6. CASE stale # {}
  <2>1. Queue!Restart(w)
    BY <1>1, <1>2, <1>4, <1>6 DEF Queue!Restart, Working
  <2> QED
    BY <2>1 DEF Queue!Next
<1> QED
  BY <1>5, <1>6

LEMMA DieStep ==
    ASSUME IInv, NEW w \in Workers, Crash(w) \/ MainRaises(w)
    PROVE  Queue!Next \/ UNCHANGED Queue!vars
<1> USE States DEF IInv, TypeOK
<1>1. UNCHANGED jobs
  BY DEF Crash, MainRaises, tables
<1>2. wpc' = [wpc EXCEPT ![w] = "down"]
  BY DEF Crash, MainRaises, WorkerGone, Goto
<1>3. \A v \in Workers : Working(v)' = IF v = w THEN NoJob ELSE Working(v)
  BY <1>2, OtherWorking DEF Working, WorkerFails
<1>4. CASE Working(w) = NoJob
  BY <1>1, <1>3, <1>4, Unseen
<1>5. CASE Working(w) # NoJob
  <2>1. Queue!Die(w)
    BY <1>1, <1>3, <1>5 DEF Queue!Die, Working
  <2> QED
    BY <2>1 DEF Queue!Next
<1> QED
  BY <1>4, <1>5

\* What is left for a worker to do without the queue noticing.
LEMMA SilentStep ==
    ASSUME IInv, NEW w \in Workers,
           WorkerStep(w) \/ HandlerRaises(w) \/ SpiderStep(w),
           ~Boot(w), ~ClaimJob(w), ~FinishJob(w)
    PROVE  UNCHANGED Queue!vars
<1> USE States DEF IInv, TypeOK, tables, locals, spiders
<1>1. UNCHANGED jobs /\ Working(w)' = Working(w)
  <2>1. CASE PollEntry(w) \/ PopRedis(w) \/ PopNothing(w)
    BY <2>1 DEF PollEntry, PopRedis, PopNothing, Goto, Working
  <2>2. CASE SelectOldest(w) \/ ClaimLost(w)
    BY <2>2 DEF SelectOldest, ClaimLost, BackToLoop, Goto, Working
  <2>3. CASE LookupTask(w) \/ MarkRunning(w) \/ SignalSpider(w) \/ ClearRunning(w) \/ HandlerRaises(w)
    BY <2>3 DEF LookupTask, MarkRunning, SignalSpider, ClearRunning, HandlerRaises,
       FinishWith, Goto, Working
  <2>4. CASE LaunchSpider(w) \/ ForgetSpider(w)
    BY <2>4 DEF LaunchSpider, ForgetSpider, Goto, Working
  <2>5. ASSUME NEW t, SpiderExits(w, t) PROVE UNCHANGED jobs /\ Working(w)' = Working(w)
    BY <2>5 DEF SpiderExits, Working
  <2> QED
    BY <2>1, <2>2, <2>3, <2>4, <2>5 DEF WorkerStep, SpiderStep, SpiderKilled
<1>2. \A v \in Workers : Working(v)' = Working(v)
  BY <1>1, OtherWorking DEF WorkerFails
<1> QED
  BY <1>1, <1>2, Unseen

LEMMA QueueStep == IInv /\ [Next]_vars => [Queue!Next]_(Queue!vars)
<1> SUFFICES ASSUME IInv, [Next]_vars
             PROVE  Queue!Next \/ UNCHANGED Queue!vars
  OBVIOUS
<1>1. CASE UNCHANGED vars
  BY <1>1 DEF vars, Queue!vars
<1>2. ASSUME NEW h \in Handlers, HandlerStep(h), ~InsertJob(h)
      PROVE  UNCHANGED Queue!vars
  <2>1. UNCHANGED jobs
    BY <1>2 DEF HandlerStep, CheckActive, PushJob, PushFails, SaveTask,
       ClearFlagBeforeDelete, DeleteRow, CreateTask, StartTask, StopTask, UpdateTask,
       DeleteTask, Enter, tables
  <2> QED
    BY <1>2, <2>1, HandlersLeaveWorkers DEF Queue!vars
<1>3. ASSUME NEW w \in Workers, WorkerStep(w) \/ WorkerFails(w) \/ SpiderStep(w)
      PROVE  Queue!Next \/ UNCHANGED Queue!vars
  BY <1>3, ClaimStep, FinishStep, RestartStep, DieStep, SilentStep DEF WorkerFails
<1> QED
  BY <1>1, <1>2, <1>3, SubmitStep DEF Next

\* The rows, the list, the polls, the races for a claim and the restarts
\* implement the abstract queue: one holder at a time, who alone finishes.
THEOREM QueueImplemented == DistinctNames => (Spec => ImplementsQueue)
<1>1. SUFFICES ASSUME DistinctNames PROVE Spec => Queue!Spec
  BY DEF ImplementsQueue
<1>2. Spec => []IInv
  BY <1>1, Invariance
<1> QED
  BY <1>2, QueueInit, QueueStep, PTL DEF Spec, Queue!Spec

-----------------------------------------------------------------------------
(* One active job of a kind for each task                                  *)

\* Requests come one at a time.
OneHandler == \A g, h \in Handlers : g = h

\* Between the check and the INSERT of a request nobody else enqueues.
InsertInv ==
    \A h \in Handlers : api[h].pc = "insert" => ~HasActiveJob(api[h].task, api[h].op)

\* Only an INSERT makes a job active: the claims and the re-queueing at a
\* restart move jobs that were active before.
LEMMA ActiveBefore ==
    ASSUME IInv, [Next]_vars, \A h \in Handlers : ~InsertJob(h),
           NEW j \in JobIds, Active(j)'
    PROVE  /\ Active(j)
           /\ jobs'[j].type = jobs[j].type
           /\ jobs'[j].task = jobs[j].task
<1> USE DEF IInv, TypeOK
<1>1. CASE jobs[j].status \in Terminal
  BY <1>1, TerminalStep DEF Active, Terminal
<1>2. CASE jobs[j].status = "absent"
  <2>1. ASSUME NEW w \in Workers, Boot(w) PROVE jobs'[j] = jobs[j]
    BY <1>2, <2>1 DEF Boot
  <2>2. ASSUME NEW w \in Workers, ClaimJob(w) PROVE jobs'[j] = jobs[j]
    BY <1>2, <2>2 DEF ClaimJob
  <2>3. ASSUME NEW w \in Workers, FinishJob(w) PROVE jobs'[j] = jobs[j]
    BY <1>2, <2>3, States DEF FinishJob, CurInv
  <2> QED
    BY <1>2, <2>1, <2>2, <2>3, JobsStep DEF Active
<1>3. CASE jobs[j].status \in {"pending", "claimed"}
  BY <1>3, JobsKept DEF Active
<1> QED
  BY <1>1, <1>2, <1>3 DEF JobRows, Statuses

\* A request comes to its INSERT from the check, and waits there.
LEMMA ComesToInsert ==
    ASSUME IInv, NEW h \in Handlers, HandlerStep(h), api'[h].pc = "insert"
    PROVE  CheckActive(h) /\ ~HasActiveJob(api[h].task, api[h].op)
           /\ api'[h].task = api[h].task /\ api'[h].op = api[h].op
<1> USE DEF IInv, TypeOK
<1>1. api[h] \in Requests
  OBVIOUS
<1>2. ASSUME api' = [api EXCEPT ![h] = Idle] PROVE FALSE
  BY <1>2 DEF Idle
<1>3. ~InsertJob(h)
  <2>1. ASSUME api' = [api EXCEPT ![h].pc = "push", ![h].job = nextJob] PROVE FALSE
    <3> DEFINE r == [api[h] EXCEPT !.pc = "push"]
    <3>1. api'[h] = [r EXCEPT !.job = nextJob] /\ r.pc = "push"
      BY <1>1, <2>1 DEF Requests
    <3> QED
      BY <3>1
  <2> QED
    BY <1>2, <2>1 DEF InsertJob, Return
<1>4. ~(PushJob(h) \/ PushFails(h) \/ SaveTask(h) \/ DeleteRow(h))
  BY <1>2 DEF PushJob, PushFails, SaveTask, DeleteRow, Return
<1>5. ~ClearFlagBeforeDelete(h)
  BY <1>1 DEF ClearFlagBeforeDelete, Requests
<1>6. ~(CreateTask(h) \/ \E t \in TaskIds :
            StartTask(h, t) \/ StopTask(h, t) \/ UpdateTask(h, t) \/ DeleteTask(h, t))
  BY DEF CreateTask, StartTask, StopTask, UpdateTask, DeleteTask, Enter
<1>7. CheckActive(h)
  BY <1>3, <1>4, <1>5, <1>6 DEF HandlerStep
<1>8. api' = [api EXCEPT ![h].pc = "insert"] /\ ~HasActiveJob(api[h].task, api[h].op)
  BY <1>2, <1>7 DEF CheckActive, Return
<1>9. api'[h].task = api[h].task /\ api'[h].op = api[h].op
  BY <1>1, <1>8 DEF Requests
<1> QED
  BY <1>7, <1>8, <1>9

LEMMA WorkersLeaveRequests ==
    ASSUME NEW w \in Workers, WorkerStep(w) \/ WorkerFails(w) \/ SpiderStep(w)
    PROVE  UNCHANGED api
  BY DEF WorkerStep, Boot, PollEntry, PopRedis, PopNothing, SelectOldest, ClaimJob,
     ClaimLost, LookupTask, LaunchSpider, MarkRunning, SignalSpider, ForgetSpider,
     ClearRunning, FinishJob, WorkerFails, HandlerRaises, Crash, MainRaises, SpiderStep,
     SpiderKilled, SpiderExits

LEMMA InsertInvStep ==
    ASSUME OneHandler, IInv, InsertInv, [Next]_vars
    PROVE  InsertInv'
<1> SUFFICES ASSUME NEW h \in Handlers, api'[h].pc = "insert",
                    NEW j \in JobIds, Active(j)',
                    jobs'[j].task = api'[h].task, jobs'[j].type = api'[h].op
             PROVE  FALSE
  BY DEF InsertInv, HasActiveJob
<1>1. CASE HandlerStep(h)
  <2>1. CheckActive(h) /\ ~HasActiveJob(api[h].task, api[h].op)
        /\ api'[h].task = api[h].task /\ api'[h].op = api[h].op
    BY <1>1, ComesToInsert
  <2>2. UNCHANGED jobs
    BY <2>1 DEF CheckActive, tables
  <2> QED
    BY <2>1, <2>2 DEF HasActiveJob, Active
<1>2. CASE ~HandlerStep(h)
  <2>1. \A g \in Handlers : ~InsertJob(g)
    BY <1>2 DEF OneHandler, HandlerStep
  <2>2. UNCHANGED api
    BY <1>2, WorkersLeaveRequests DEF Next, OneHandler, vars
  <2>3. ~HasActiveJob(api[h].task, api[h].op)
    BY <2>2 DEF InsertInv
  <2>4. Active(j) /\ jobs[j].task = api[h].task /\ jobs[j].type = api[h].op
    BY <2>1, <2>2, ActiveBefore
  <2> QED
    BY <2>3, <2>4 DEF HasActiveJob
<1> QED
  BY <1>1, <1>2

LEMMA NoDuplicateStep ==
    ASSUME IInv, InsertInv, NoDuplicateActive, [Next]_vars
    PROVE  NoDuplicateActive'
<1> SUFFICES ASSUME NEW i \in JobIds, NEW j \in JobIds, Active(i)', Active(j)',
                    jobs'[i].type = jobs'[j].type, jobs'[i].task = jobs'[j].task
             PROVE  i = j
  BY DEF NoDuplicateActive
<1>1. CASE \A h \in Handlers : ~InsertJob(h)
  BY <1>1, ActiveBefore DEF NoDuplicateActive
<1>2. ASSUME NEW h \in Handlers, InsertJob(h) PROVE i = j
  <2>1. ~HasActiveJob(api[h].task, api[h].op)
    BY <1>2 DEF InsertInv, InsertJob
  <2>2. \A m \in JobIds : jobs'[m] = IF m = nextJob
          THEN [type |-> api[h].op, task |-> api[h].task,
                status |-> "pending", worker |-> NoName] ELSE jobs[m]
    BY <1>2 DEF InsertJob, IInv, TypeOK
  <2>3. \A m \in JobIds : m # nextJob =>
          (Active(m)' => Active(m) /\ ~(jobs[m].task = api[h].task /\ jobs[m].type = api[h].op))
    BY <2>1, <2>2 DEF HasActiveJob, Active
  <2>4. CASE i = nextJob /\ j # nextJob
    BY <2>2, <2>3, <2>4
  <2>5. CASE i # nextJob /\ j = nextJob
    BY <2>2, <2>3, <2>5
  <2>6. CASE i # nextJob /\ j # nextJob
    BY <2>2, <2>3, <2>6 DEF NoDuplicateActive
  <2> QED
    BY <2>4, <2>5, <2>6
<1> QED
  BY <1>1, <1>2

\* When requests come one at a time, the check of enqueueTaskJob keeps two
\* active jobs of one kind for one task out of the queue, for any number of
\* workers, tasks, kills and errors.
THEOREM OneActiveJob ==
    DistinctNames /\ OneHandler => (Spec => []NoDuplicateActive)
<1>1. SUFFICES ASSUME DistinctNames, OneHandler PROVE Spec => []NoDuplicateActive
  OBVIOUS
<1>2. Init => InsertInv /\ NoDuplicateActive
  BY DEF Init, InsertInv, NoDuplicateActive, Active, Idle, NoJobRow
<1>3. IInv /\ InsertInv /\ NoDuplicateActive /\ [Next]_vars
        => InsertInv' /\ NoDuplicateActive'
  BY <1>1, InsertInvStep, NoDuplicateStep
<1>4. Spec => []IInv
  BY <1>1, Invariance
<1> QED
  BY <1>2, <1>3, <1>4, PTL DEF Spec

-----------------------------------------------------------------------------
(* What a handler of the worker knows of its job and of its spider         *)

\* One worker process serves the queue.
OneWorker == \A v, w \in Workers : v = w

\* In state pc, handling a job of this type, with this entry for its task and
\* this status to be written.
Fits(pc, type, e, o) ==
    /\ pc \in {"start", "launch", "mark"} => type = "start"
    /\ pc \in {"stop", "stopping", "clear"} => type = "stop"
    /\ pc = "mark" => e # "none"
    /\ pc = "clear" => e # "live"
    /\ pc = "finish" /\ o = "completed" /\ type = "stop" => e # "live"

FitsInv ==
    \A w \in Workers : Fits(wpc[w], jobs[cur[w]].type, entry[w][Task(w)], outcome[w])

\* A spider of this worker ends: no handler knows of a live one after that.
LEMMA FitsAfterExit ==
    ASSUME IInv, [Next]_vars, NEW v \in Workers, wpc[v] \in Handling,
           Fits(wpc[v], jobs[cur[v]].type, entry[v][Task(v)], outcome[v]),
           UNCHANGED <<wpc[v], cur[v], outcome[v]>>,
           \/ entry'[v] = entry[v]
           \/ \E t : entry' = [entry EXCEPT ![v][t] = "dead"]
    PROVE  Fits(wpc'[v], jobs'[cur'[v]].type, entry'[v][Task(v)'], outcome'[v])
<1>1. cur[v] \in JobIds /\ jobs[cur[v]].status # "absent"
  BY DEF IInv, CurInv
<1>2. jobs'[cur'[v]].type = jobs[cur[v]].type /\ Task(v)' = Task(v)
  BY <1>1, JobsKept DEF Task
<1>3. Task(v) \in TaskIds
  BY <1>1 DEF IInv, JobsInv, Task
<1>4. entry[v] \in [TaskIds -> {"none", "live", "dead"}]
  BY DEF IInv, TypeOK
<1>5. entry'[v][Task(v)] \in {entry[v][Task(v)], "dead"}
  <2>1. ASSUME NEW t, entry' = [entry EXCEPT ![v][t] = "dead"]
        PROVE  entry'[v] = [entry[v] EXCEPT ![t] = "dead"]
    BY <2>1 DEF IInv, TypeOK
  <2> QED
    BY <1>3, <1>4, <2>1
<1> QED
  BY <1>2, <1>5 DEF Fits

\* Outside the handlers there is nothing to know.
LEMMA FitsOutside ==
    ASSUME NEW pc, NEW type, NEW e, NEW o, pc \in WorkerStates \ Handling
    PROVE  Fits(pc, type, e, o)
  BY States DEF Fits

LEMMA FitsOwn ==
    ASSUME IInv, FitsInv, [Next]_vars, NEW v \in Workers,
           WorkerStep(v) \/ WorkerFails(v) \/ SpiderStep(v)
    PROVE  Fits(wpc'[v], jobs'[cur'[v]].type, entry'[v][Task(v)'], outcome'[v])
<1> DEFINE Goal == Fits(wpc'[v], jobs'[cur'[v]].type, entry'[v][Task(v)'], outcome'[v])
<1> USE States
<1>0. Fits(wpc[v], jobs[cur[v]].type, entry[v][Task(v)], outcome[v])
  BY DEF FitsInv
<1>1. wpc' \in [Workers -> WorkerStates]
  BY TypeStep DEF TypeOK
<1>2. CASE wpc'[v] \notin Handling
  BY <1>1, <1>2, FitsOutside
<1>3. CASE ClaimJob(v)
  <2>1. cur[v] \in JobIds /\ jobs[cur[v]].status # "absent" /\ cur' = cur
    BY <1>3 DEF IInv, CurInv, ClaimJob, locals
  <2>2. jobs'[cur'[v]].type = jobs[cur[v]].type /\ jobs[cur[v]].type \in {"start", "stop"}
    BY <2>1, JobsKept DEF IInv, TypeOK, JobRows
  <2>3. wpc'[v] = jobs[cur[v]].type
    BY <1>3 DEF IInv, TypeOK, ClaimJob, Goto
  <2> QED
    BY <2>2, <2>3 DEF Fits
<1>4. ASSUME wpc[v] \in Handling, UNCHANGED <<jobs, cur, entry>>
      PROVE  /\ jobs'[cur'[v]].type = jobs[cur[v]].type
             /\ entry'[v][Task(v)'] = entry[v][Task(v)]
  BY <1>4 DEF Task
<1>5. CASE LookupTask(v)
  <2>1. UNCHANGED <<jobs, cur, entry>>
    BY <1>5 DEF LookupTask, tables, spiders
  <2>2. jobs[cur[v]].type = "start" /\ wpc'[v] \in {"launch", "finish"}
    BY <1>0, <1>5 DEF IInv, TypeOK, Fits, LookupTask, FinishWith, Goto
  <2> QED
    BY <1>4, <1>5, <2>1, <2>2 DEF Fits, LookupTask
<1>6. CASE MarkRunning(v)
  <2>1. UNCHANGED <<jobs, cur, entry>>
    BY <1>6 DEF MarkRunning, spiders
  <2>2. jobs[cur[v]].type = "start" /\ wpc'[v] = "finish"
    BY <1>0, <1>6 DEF IInv, TypeOK, Fits, MarkRunning, FinishWith, Goto
  <2> QED
    BY <1>4, <1>6, <2>1, <2>2 DEF Fits, MarkRunning
<1>7. CASE LaunchSpider(v)
  <2>1. UNCHANGED <<jobs, cur>> /\ wpc'[v] = "mark" /\ jobs[cur[v]].type = "start"
    BY <1>0, <1>7 DEF IInv, TypeOK, Fits, LaunchSpider, Goto, tables, locals
  <2>2. Task(v) \in TaskIds /\ Task(v)' = Task(v)
    BY <1>7, <2>1 DEF IInv, CurInv, JobsInv, LaunchSpider, Task
  <2>3. entry'[v][Task(v)] = "live"
    BY <1>7, <2>2 DEF IInv, TypeOK, LaunchSpider, SetEntry
  <2> QED
    BY <2>1, <2>2, <2>3 DEF Fits
<1>8. CASE SignalSpider(v)
  <2>1. UNCHANGED <<jobs, cur, entry>>
    BY <1>8 DEF SignalSpider, tables, locals, spiders
  <2>2. jobs[cur[v]].type = "stop"
    BY <1>0, <1>8 DEF Fits, SignalSpider
  <2>3. wpc'[v] = IF entry[v][Task(v)] = "live" THEN "stopping" ELSE "clear"
    BY <1>8 DEF IInv, TypeOK, SignalSpider, Goto
  <2> QED
    BY <1>4, <1>8, <2>1, <2>2, <2>3 DEF Fits, SignalSpider
<1>9. CASE ForgetSpider(v)
  <2>1. UNCHANGED <<jobs, cur>> /\ wpc'[v] = "clear" /\ jobs[cur[v]].type = "stop"
    BY <1>0, <1>9 DEF IInv, TypeOK, Fits, ForgetSpider, Goto, tables, locals
  <2>2. Task(v) \in TaskIds /\ Task(v)' = Task(v)
    BY <1>9, <2>1 DEF IInv, CurInv, JobsInv, ForgetSpider, Task
  <2>3. entry'[v][Task(v)] = "none"
    BY <1>9, <2>2 DEF IInv, TypeOK, ForgetSpider, SetEntry
  <2> QED
    BY <2>1, <2>2, <2>3 DEF Fits
<1>10. CASE ClearRunning(v)
  <2>1. UNCHANGED <<jobs, cur, entry>>
    BY <1>10 DEF ClearRunning, spiders
  <2>2. /\ jobs[cur[v]].type = "stop" /\ wpc'[v] = "finish"
        /\ entry[v][Task(v)] # "live"
    BY <1>0, <1>10 DEF IInv, TypeOK, Fits, ClearRunning, FinishWith, Goto
  <2> QED
    BY <1>4, <1>10, <2>1, <2>2 DEF Fits, ClearRunning
<1>11. CASE HandlerRaises(v)
  <2>1. wpc'[v] = "finish" /\ outcome'[v] = "failed"
    BY <1>11 DEF IInv, TypeOK, HandlerRaises, FinishWith, Goto
  <2> QED
    BY <2>1 DEF Fits
<1>12. ASSUME NEW t, SpiderExits(v, t), wpc'[v] \in Handling PROVE Goal
  <2>1. /\ UNCHANGED <<wpc, cur, outcome>>
        /\ entry' = [entry EXCEPT ![v][t] = "dead"]
    BY <1>12 DEF SpiderExits, SetEntry, locals
  <2> QED
    BY <1>0, <1>12, <2>1, FitsAfterExit
<1>13. CASE Boot(v) \/ FinishJob(v) \/ PollEntry(v) \/ PopRedis(v) \/ PopNothing(v)
            \/ SelectOldest(v) \/ ClaimLost(v) \/ Crash(v) \/ MainRaises(v)
  <2>1. wpc'[v] \notin Handling
    BY <1>13 DEF IInv, TypeOK, Boot, FinishJob, PollEntry, PopRedis, PopNothing,
       SelectOldest, ClaimLost, Crash, MainRaises, WorkerGone, BackToLoop, Goto
  <2> QED
    BY <1>2, <2>1
<1> QED
  BY <1>2, <1>3, <1>5, <1>6, <1>7, <1>8, <1>9, <1>10, <1>11, <1>12, <1>13
     DEF WorkerStep, WorkerFails, SpiderStep, SpiderKilled

\* The status a worker is about to write is its own.
LEMMA OutcomeKept ==
    ASSUME IInv, NEW v \in Workers,
           \/ \E h \in Handlers : HandlerStep(h)
           \/ \E w \in Workers : w # v /\ (WorkerStep(w) \/ WorkerFails(w) \/ SpiderStep(w))
    PROVE  outcome'[v] = outcome[v]
<1> USE DEF IInv, TypeOK, locals
<1>1. ASSUME NEW h \in Handlers, HandlerStep(h) PROVE UNCHANGED outcome
  BY <1>1 DEF HandlerStep, CheckActive, InsertJob, PushJob, PushFails, SaveTask,
     ClearFlagBeforeDelete, DeleteRow, CreateTask, StartTask, StopTask, UpdateTask,
     DeleteTask, Enter
<1>2. ASSUME NEW w \in Workers, w # v, FinishWith(w, "failed") \/ FinishWith(w, "completed")
      PROVE  outcome'[v] = outcome[v]
  BY <1>2 DEF FinishWith
<1>3. ASSUME NEW w \in Workers, WorkerStep(w) \/ WorkerFails(w) \/ SpiderStep(w)
      PROVE  \/ FinishWith(w, "failed") \/ FinishWith(w, "completed")
             \/ UNCHANGED outcome
  BY <1>3 DEF WorkerStep, Boot, PollEntry, PopRedis, PopNothing, SelectOldest, ClaimJob,
     ClaimLost, LookupTask, LaunchSpider, MarkRunning, SignalSpider, ForgetSpider,
     ClearRunning, FinishJob, WorkerFails, HandlerRaises, Crash, MainRaises, WorkerGone,
     SpiderStep, SpiderKilled, SpiderExits
<1> QED
  BY <1>1, <1>2, <1>3

LEMMA FitsStep == IInv /\ FitsInv /\ [Next]_vars => FitsInv'
<1> SUFFICES ASSUME IInv, FitsInv, [Next]_vars, NEW v \in Workers
             PROVE  Fits(wpc'[v], jobs'[cur'[v]].type, entry'[v][Task(v)'], outcome'[v])
  BY DEF FitsInv
<1>1. CASE UNCHANGED <<wpc[v], cur[v], entry[v], outcome[v]>>
  <2>1. CASE wpc[v] \in Handling
    BY <1>1, <2>1, FitsAfterExit DEF FitsInv
  <2>2. CASE wpc[v] \notin Handling
    BY <1>1, <2>2, FitsOutside DEF IInv, TypeOK
  <2> QED
    BY <2>1, <2>2
<1>2. CASE WorkerStep(v) \/ WorkerFails(v) \/ SpiderStep(v)
  BY <1>2, FitsOwn
<1> QED
  BY <1>1, <1>2, OthersKept, OutcomeKept, HandlersLeaveWorkers DEF Next, vars, WorkerMemory

LEMMA FitsInit == Init => FitsInv
  BY States, FitsOutside DEF Init, FitsInv

\* Only the worker that handled a stop job writes it as completed, and that
\* worker has no live spider of the task any more.
LEMMA StopEndsStep ==
    ASSUME IInv, FitsInv, [Next]_vars, NEW j \in JobIds,
           jobs[j].type = "stop", jobs[j].status # "completed",
           jobs'[j].status = "completed"
    PROVE  \E w \in Workers : entry[w][jobs[j].task] # "live"
<1> USE DEF IInv, TypeOK
<1>1. ASSUME NEW h \in Handlers, InsertJob(h) PROVE FALSE
  BY <1>1 DEF InsertJob
<1>2. ASSUME NEW w \in Workers, Boot(w) PROVE FALSE
  BY <1>2 DEF Boot, JobRows
<1>3. ASSUME NEW w \in Workers, ClaimJob(w) PROVE FALSE
  BY <1>3 DEF ClaimJob, JobRows
<1>4. ASSUME NEW w \in Workers, FinishJob(w)
      PROVE  entry[w][jobs[j].task] # "live"
  <2>1. cur[w] = j /\ outcome[w] = "completed" /\ wpc[w] = "finish"
    BY <1>4 DEF FinishJob, JobRows
  <2> QED
    BY <2>1 DEF FitsInv, Fits, Task
<1> QED
  BY <1>1, <1>2, <1>3, <1>4, JobsStep

\* Where one worker serves the queue, a stop job is written as completed only
\* when no spider of its task is alive: the worker waited for the process, or
\* there was none.
THEOREM StopJobsEndSpiders ==
    DistinctNames /\ OneWorker => (Spec => StopEndsSpider)
<1>1. SUFFICES ASSUME DistinctNames, OneWorker PROVE Spec => StopEndsSpider
  OBVIOUS
<1>2. IInv /\ FitsInv /\ [Next]_vars =>
        [\A j \in JobIds :
            /\ jobs[j].type = "stop"
            /\ jobs[j].status # "completed" /\ jobs'[j].status = "completed"
            => \A w \in Workers : entry[w][jobs[j].task] # "live"]_vars
  BY <1>1, StopEndsStep DEF OneWorker
<1>3. Spec => []IInv
  BY <1>1, Invariance
<1> QED
  BY <1>2, <1>3, FitsInit, FitsStep, PTL DEF Spec, StopEndsSpider

-----------------------------------------------------------------------------
(* tasks.is_running and running_tasks                                      *)

\* The clients only start and stop tasks: nobody creates, edits or deletes
\* one meanwhile.
OnlyStartStop == Ops \subseteq {"start", "stop"}

StartStopInv == \A h \in Handlers : api[h].pc \in {"idle", "check", "insert", "push"}

\* The flag is a column of a row that is there.
FlagRowInv == \A t \in TaskIds : isRunning[t] => row[t] # "absent"

LEMMA StartStopRequest ==
    ASSUME IInv, OnlyStartStop, StartStopInv, NEW h \in Handlers, HandlerStep(h)
    PROVE  /\ UNCHANGED <<row, isRunning>>
           /\ api'[h].pc \in {"idle", "check", "insert", "push"}
<1> USE DEF IInv, TypeOK
<1>1. api[h] \in Requests /\ api[h].pc \in {"idle", "check", "insert", "push"}
  BY DEF StartStopInv
<1>2. ASSUME api' = [api EXCEPT ![h] = Idle] PROVE api'[h].pc = "idle"
  BY <1>2 DEF Idle
<1>3. CASE CheckActive(h)
  <2>1. ASSUME api' = [api EXCEPT ![h].pc = "insert"] PROVE api'[h].pc = "insert"
    BY <1>1, <2>1 DEF Requests
  <2> QED
    BY <1>2, <1>3, <2>1 DEF CheckActive, Return, tables
<1>4. CASE InsertJob(h)
  <2>1. ASSUME api' = [api EXCEPT ![h].pc = "push", ![h].job = nextJob]
        PROVE  api'[h].pc = "push"
    <3> DEFINE r == [api[h] EXCEPT !.pc = "push"]
    <3>1. api'[h] = [r EXCEPT !.job = nextJob] /\ r \in Requests /\ r.pc = "push"
      BY <1>1, <2>1 DEF Requests
    <3> HIDE DEF r
    <3> QED
      BY <3>1 DEF Requests
  <2> QED
    BY <1>2, <1>4, <2>1 DEF InsertJob, Return
<1>5. CASE PushJob(h) \/ PushFails(h)
  BY <1>2, <1>5 DEF PushJob, PushFails, Return, tables
<1>6. ~(SaveTask(h) \/ DeleteRow(h) \/ ClearFlagBeforeDelete(h))
  BY <1>1 DEF SaveTask, DeleteRow, ClearFlagBeforeDelete
<1>7. ASSUME NEW pc, NEW op, NEW t, NEW r, NEW run, Enter(h, pc, op, t, r, run)
      PROVE  op \in {"start", "stop"} /\ UNCHANGED <<row, isRunning>> /\ api'[h].pc = pc
  BY <1>7 DEF OnlyStartStop, Enter, tables
<1>8. ~CreateTask(h) /\ \A t \in TaskIds : ~UpdateTask(h, t) /\ ~DeleteTask(h, t)
  <2>1. "create" \notin Ops /\ "update" \notin Ops /\ "delete" \notin Ops
    BY DEF OnlyStartStop
  <2> QED
    BY <2>1 DEF CreateTask, UpdateTask, DeleteTask, Enter
<1>9. ASSUME NEW t \in TaskIds, StartTask(h, t) \/ StopTask(h, t)
      PROVE  UNCHANGED <<row, isRunning>> /\ api'[h].pc = "check"
  BY <1>7, <1>9 DEF StartTask, StopTask
<1> QED
  BY <1>3, <1>4, <1>5, <1>6, <1>8, <1>9 DEF HandlerStep

LEMMA StartStopStep ==
    ASSUME IInv, OnlyStartStop, StartStopInv, [Next]_vars
    PROVE  StartStopInv'
<1> SUFFICES ASSUME NEW g \in Handlers
             PROVE  api'[g].pc \in {"idle", "check", "insert", "push"}
  BY DEF StartStopInv
<1>1. ASSUME NEW h \in Handlers, h # g, HandlerStep(h) PROVE api'[g] = api[g]
  BY <1>1 DEF IInv, TypeOK, HandlerStep, CheckActive, InsertJob, PushJob, PushFails,
     SaveTask, ClearFlagBeforeDelete, DeleteRow, CreateTask, StartTask, StopTask,
     UpdateTask, DeleteTask, Enter, Return
<1> QED
  BY <1>1, StartStopRequest, WorkersLeaveRequests DEF Next, vars, StartStopInv

\* The rows change at the hands of requests only.
LEMMA WorkersLeaveRows ==
    ASSUME NEW w \in Workers, WorkerStep(w) \/ WorkerFails(w) \/ SpiderStep(w)
    PROVE  UNCHANGED row
  BY DEF WorkerStep, Boot, PollEntry, PopRedis, PopNothing, SelectOldest, ClaimJob,
     ClaimLost, LookupTask, LaunchSpider, MarkRunning, SignalSpider, ForgetSpider,
     ClearRunning, FinishJob, WorkerFails, HandlerRaises, Crash, MainRaises, SpiderStep,
     SpiderKilled, SpiderExits, tables

\* A worker writes the flag in four of its steps.
LEMMA FlagWrites ==
    ASSUME IInv, NEW w \in Workers, WorkerStep(w) \/ WorkerFails(w) \/ SpiderStep(w),
           NEW t \in TaskIds
    PROVE  \/ isRunning'[t] <=> isRunning[t]
           \/ PollEntry(w) /\ entry[w][t] = "dead" /\ ~isRunning'[t]
           \/ MarkRunning(w) /\ t = Task(w) /\ isRunning'[t] /\ row[t] # "absent"
           \/ ClearRunning(w) /\ t = Task(w) /\ ~isRunning'[t]
           \/ MainRaises(w) /\ ~isRunning'[t]
<1> USE DEF IInv, TypeOK
<1>1. ASSUME NEW u, NEW v \in BOOLEAN, SetRunning(u, v)
      PROVE  IF u = t /\ row[t] # "absent" THEN isRunning'[t] = v
             ELSE isRunning'[t] = isRunning[t]
  BY <1>1 DEF SetRunning
<1>2. CASE PollEntry(w)
  <2>1. PICK u \in scan[w] :
          IF entry[w][u] = "dead" THEN SetRunning(u, FALSE) ELSE UNCHANGED isRunning
    BY <1>2 DEF PollEntry
  <2>2. CASE entry[w][u] = "dead" /\ u = t /\ row[t] # "absent"
    <3>1. isRunning'[t] = FALSE
      BY <1>1, <2>1, <2>2
    <3> QED
      BY <1>2, <2>2, <3>1
  <2>3. CASE ~(entry[w][u] = "dead" /\ u = t /\ row[t] # "absent")
    <3>1. isRunning'[t] = isRunning[t]
      BY <1>1, <2>1, <2>3
    <3> QED
      BY <3>1
  <2> QED
    BY <2>2, <2>3
<1>3. CASE MarkRunning(w)
  <2>1. IF Task(w) = t /\ row[t] # "absent" THEN isRunning'[t] = TRUE
        ELSE isRunning'[t] = isRunning[t]
    BY <1>1, <1>3 DEF MarkRunning
  <2> QED
    BY <1>3, <2>1
<1>4. CASE ClearRunning(w)
  <2>1. IF Task(w) = t /\ row[t] # "absent" THEN isRunning'[t] = FALSE
        ELSE isRunning'[t] = isRunning[t]
    BY <1>1, <1>4 DEF ClearRunning
  <2> QED
    BY <1>4, <2>1
<1>5. CASE MainRaises(w)
  <2>1. PICK cleared \in SUBSET Registered(w) :
          isRunning' = [u \in TaskIds |-> isRunning[u] /\ u \notin cleared]
    BY <1>5 DEF MainRaises
  <2>2. isRunning'[t] <=> isRunning[t] /\ t \notin cleared
    BY <2>1, Zenon
  <2> QED
    BY <1>5, <2>2
<1>6. CASE ~(PollEntry(w) \/ MarkRunning(w) \/ ClearRunning(w) \/ MainRaises(w))
  <2>1. UNCHANGED isRunning
    BY <1>6 DEF WorkerStep, Boot, PopRedis, PopNothing, SelectOldest, ClaimJob,
       ClaimLost, LookupTask, LaunchSpider, SignalSpider, ForgetSpider,
       FinishJob, WorkerFails, HandlerRaises, Crash, SpiderStep,
       SpiderKilled, SpiderExits, tables
  <2> QED
    BY <2>1
<1> QED
  BY <1>2, <1>3, <1>4, <1>5, <1>6

LEMMA FlagRowStep ==
    ASSUME IInv, OnlyStartStop, StartStopInv, FlagRowInv, [Next]_vars
    PROVE  FlagRowInv'
<1> SUFFICES ASSUME NEW t \in TaskIds, isRunning'[t] PROVE row'[t] # "absent"
  BY DEF FlagRowInv
<1>1. ASSUME NEW h \in Handlers, HandlerStep(h) PROVE row'[t] # "absent"
  BY <1>1, StartStopRequest DEF FlagRowInv
<1>2. ASSUME NEW w \in Workers, WorkerStep(w) \/ WorkerFails(w) \/ SpiderStep(w)
      PROVE  row'[t] # "absent"
  <2>1. UNCHANGED row
    BY <1>2, WorkersLeaveRows
  <2>2. isRunning[t] \/ row[t] # "absent"
    BY <1>2, FlagWrites
  <2> QED
    BY <2>1, <2>2 DEF FlagRowInv
<1> QED
  BY <1>1, <1>2 DEF Next, vars, FlagRowInv

\* A kill or an error shows in the budget for ever after.
LEMMA NothingFailed ==
    ASSUME IInv, [Next]_vars
    PROVE  /\ crashes' = 0 => crashes = 0
           /\ faults' = 0 => faults = 0
           /\ \A w \in Workers : Crash(w) => crashes' # 0
           /\ \A w \in Workers : HandlerRaises(w) \/ MainRaises(w) => faults' # 0
<1> USE DEF budget
<1>1. crashes \in Nat /\ faults \in Nat
  BY ConstantsOK DEF IInv, TypeOK
<1>2. ASSUME NEW h \in Handlers, HandlerStep(h)
      PROVE  crashes' = crashes /\ faults' \in {faults, faults + 1}
  BY <1>2 DEF HandlerStep, CheckActive, InsertJob, PushJob, PushFails, SaveTask,
     ClearFlagBeforeDelete, DeleteRow, CreateTask, StartTask, StopTask, UpdateTask,
     DeleteTask, Enter
<1>3. ASSUME NEW w \in Workers, WorkerStep(w) \/ SpiderStep(w)
      PROVE  crashes' = crashes /\ faults' = faults
  BY <1>3 DEF WorkerStep, Boot, PollEntry, PopRedis, PopNothing, SelectOldest, ClaimJob,
     ClaimLost, LookupTask, LaunchSpider, MarkRunning, SignalSpider, ForgetSpider,
     ClearRunning, FinishJob, SpiderStep, SpiderKilled, SpiderExits
<1>4. ASSUME NEW w \in Workers, Crash(w)
      PROVE  crashes' = crashes + 1 /\ faults' = faults
  BY <1>4 DEF Crash
<1>5. ASSUME NEW w \in Workers, HandlerRaises(w) \/ MainRaises(w)
      PROVE  crashes' = crashes /\ faults' = faults + 1
  BY <1>5 DEF HandlerRaises, MainRaises
<1>6. ASSUME UNCHANGED vars PROVE crashes' = crashes /\ faults' = faults
  BY <1>6 DEF vars
<1> QED
  BY <1>1, <1>2, <1>3, <1>4, <1>5, <1>6 DEF Next, WorkerFails

\* An inserted job, and with it the task of a worker that handles one, stays.
LEMMA TaskKept ==
    ASSUME IInv, [Next]_vars, NEW w \in Workers, wpc[w] \in Handling, cur'[w] = cur[w]
    PROVE  Task(w)' = Task(w)
  BY JobsKept DEF IInv, CurInv, Task

\* Worker w has registered a process of t, or is about to clear its flag.
Cares(w, t) == entry[w][t] # "none" \/ (wpc[w] = "clear" /\ Task(w) = t)

\* A worker that cares for a task stops doing so only as it clears its flag.
LEMMA CaresUntilCleared ==
    ASSUME IInv, FlagRowInv, [Next]_vars, NEW w \in Workers, NEW t \in TaskIds,
           WorkerStep(w) \/ SpiderStep(w), Cares(w, t), isRunning'[t]
    PROVE  Cares(w, t)'
<1> USE States DEF IInv, TypeOK
<1>0. Cares(w, t)' <=> entry'[w][t] # "none" \/ (wpc'[w] = "clear" /\ Task(w)' = t)
  BY DEF Cares
<1>1. ASSUME NEW u, SetRunning(u, FALSE) PROVE u # t
  BY <1>1 DEF SetRunning, FlagRowInv
<1>2. CASE PollEntry(w)
  <2>1. PICK u \in scan[w] :
          IF entry[w][u] = "dead" THEN SetRunning(u, FALSE) /\ SetEntry(w, u, "none")
          ELSE UNCHANGED entry
    BY <1>2 DEF PollEntry
  <2>2. ASSUME SetEntry(w, u, "none"), u # t PROVE entry'[w][t] = entry[w][t]
    <3>1. entry'[w] = [entry[w] EXCEPT ![u] = "none"]
      BY <2>2 DEF SetEntry
    <3> QED
      BY <2>2, <3>1
  <2>3. entry'[w][t] = entry[w][t]
    BY <1>1, <2>1, <2>2
  <2>4. entry[w][t] # "none"
    BY <1>2 DEF PollEntry, Cares
  <2> QED
    BY <1>0, <2>3, <2>4
<1>3. CASE ForgetSpider(w)
  <2>1. wpc'[w] = "clear" /\ cur' = cur /\ wpc[w] \in Handling
    BY <1>3 DEF ForgetSpider, Goto, locals
  <2>2. Task(w)' = Task(w)
    BY <2>1, TaskKept
  <2>3. CASE t = Task(w)
    BY <1>0, <2>1, <2>2, <2>3
  <2>4. CASE t # Task(w)
    <3>1. entry'[w] = [entry[w] EXCEPT ![Task(w)] = "none"]
      BY <1>3 DEF ForgetSpider, SetEntry
    <3>2. entry[w][t] # "none"
      BY <1>3 DEF ForgetSpider, Cares
    <3> QED
      BY <1>0, <2>4, <3>1, <3>2
  <2> QED
    BY <2>3, <2>4
<1>4. CASE ClearRunning(w)
  <2>1. t # Task(w) /\ UNCHANGED entry
    BY <1>1, <1>4 DEF ClearRunning, spiders
  <2> QED
    BY <1>0, <2>1 DEF Cares
<1>5. CASE LaunchSpider(w)
  <2>1. entry'[w] = [entry[w] EXCEPT ![Task(w)] = "live"] /\ entry[w][t] # "none"
    BY <1>5 DEF LaunchSpider, SetEntry, Cares
  <2>2. entry'[w][t] # "none"
    BY <2>1
  <2> QED
    BY <1>0, <2>2
<1>6. ASSUME NEW u, SpiderExits(w, u) PROVE Cares(w, t)'
  <2>1. wpc' = wpc /\ cur' = cur /\ entry'[w] = [entry[w] EXCEPT ![u] = "dead"]
    BY <1>6 DEF SpiderExits, SetEntry, locals
  <2>2. CASE entry[w][t] # "none"
    <3>1. entry'[w][t] # "none"
      BY <2>1, <2>2
    <3> QED
      BY <1>0, <3>1
  <2>3. CASE wpc[w] = "clear" /\ Task(w) = t
    BY <1>0, <2>1, <2>3, TaskKept
  <2> QED
    BY <2>2, <2>3 DEF Cares
<1>7. CASE Boot(w) \/ PopRedis(w) \/ PopNothing(w) \/ SelectOldest(w) \/ ClaimJob(w)
           \/ ClaimLost(w) \/ LookupTask(w) \/ MarkRunning(w) \/ SignalSpider(w) \/ FinishJob(w)
  <2>1. UNCHANGED entry /\ wpc[w] # "clear"
    BY <1>7 DEF Boot, PopRedis, PopNothing, SelectOldest, ClaimJob, ClaimLost, LookupTask,
       MarkRunning, SignalSpider, FinishJob, spiders
  <2> QED
    BY <1>0, <2>1 DEF Cares
<1> QED
  BY <1>2, <1>3, <1>4, <1>5, <1>6, <1>7 DEF WorkerStep, SpiderStep, SpiderKilled

LEMMA FlagHasSpiderStep ==
    ASSUME OnlyStartStop, IInv, FitsInv, StartStopInv, FlagRowInv, FlagHasSpider,
           [Next]_vars
    PROVE  FlagHasSpider'
<1> SUFFICES ASSUME crashes' = 0, faults' = 0, NEW t \in TaskIds, isRunning'[t]
             PROVE  \E w \in Workers : Cares(w, t)'
  BY DEF FlagHasSpider, Cares
<1>1. crashes = 0 /\ faults = 0
  BY NothingFailed
<1>2. isRunning[t] => \E w \in Workers : Cares(w, t)
  BY <1>1 DEF FlagHasSpider, Cares
<1>3. ASSUME NEW v \in Workers, Cares(v, t), UNCHANGED <<wpc[v], cur[v], entry[v]>>
      PROVE  Cares(v, t)'
  BY <1>3, TaskKept, States DEF Cares
<1>4. CASE UNCHANGED vars
  BY <1>2, <1>3, <1>4 DEF vars
<1>5. ASSUME NEW h \in Handlers, HandlerStep(h) PROVE \E w \in Workers : Cares(w, t)'
  BY <1>2, <1>3, <1>5, StartStopRequest, HandlersLeaveWorkers
<1>6. ASSUME NEW w \in Workers, WorkerStep(w) \/ WorkerFails(w) \/ SpiderStep(w)
      PROVE  \E v \in Workers : Cares(v, t)'
  <2>1. WorkerStep(w) \/ SpiderStep(w)
    BY <1>6, NothingFailed DEF WorkerFails
  <2>2. CASE isRunning[t]
    <3>1. PICK v \in Workers : Cares(v, t)
      BY <1>2, <2>2
    <3>2. CASE v = w
      BY <2>1, <3>1, <3>2, CaresUntilCleared
    <3>3. CASE v # w
      BY <1>3, <1>6, <3>1, <3>3, OthersKept DEF WorkerMemory
    <3> QED
      BY <3>2, <3>3
  <2>3. CASE ~isRunning[t]
    <3>1. MarkRunning(w) /\ t = Task(w)
      BY <1>6, <2>3, FlagWrites
    <3>2. entry[w][t] # "none" /\ UNCHANGED entry
      BY <3>1 DEF FitsInv, Fits, MarkRunning, spiders
    <3> QED
      BY <3>2 DEF Cares
  <2> QED
    BY <2>2, <2>3
<1> QED
  BY <1>4, <1>5, <1>6 DEF Next

\* A spider comes to life only by the launch of its task.
LEMMA ComesToLife ==
    ASSUME IInv, NEW w \in Workers, WorkerStep(w) \/ WorkerFails(w) \/ SpiderStep(w),
           NEW t \in TaskIds, entry'[w][t] = "live"
    PROVE  entry[w][t] = "live" \/ (LaunchSpider(w) /\ t = Task(w))
<1> USE DEF IInv, TypeOK
<1>1. ASSUME NEW u, NEW s \in {"none", "dead"}, SetEntry(w, u, s)
      PROVE  entry[w][t] = "live"
  <2>1. entry'[w] = [entry[w] EXCEPT ![u] = s]
    BY <1>1 DEF SetEntry
  <2> QED
    BY <2>1
<1>2. CASE LaunchSpider(w)
  <2>1. entry'[w] = [entry[w] EXCEPT ![Task(w)] = "live"]
    BY <1>2 DEF LaunchSpider, SetEntry
  <2> QED
    BY <1>2, <2>1
<1>3. CASE PollEntry(w) \/ ForgetSpider(w) \/ \E u : SpiderExits(w, u)
  BY <1>1, <1>3 DEF PollEntry, ForgetSpider, SpiderExits
<1>4. CASE Crash(w) \/ MainRaises(w)
  BY <1>4 DEF Crash, MainRaises, WorkerGone
<1>5. CASE ~(LaunchSpider(w) \/ PollEntry(w) \/ ForgetSpider(w) \/ Crash(w) \/ MainRaises(w)
             \/ \E u : SpiderExits(w, u))
  <2>1. UNCHANGED entry
    BY <1>5 DEF WorkerStep, Boot, PopRedis, PopNothing, SelectOldest, ClaimJob,
       ClaimLost, LookupTask, MarkRunning, SignalSpider, ClearRunning, FinishJob,
       WorkerFails, HandlerRaises, SpiderStep, SpiderKilled, spiders
  <2> QED
    BY <2>1
<1> QED
  BY <1>2, <1>3, <1>4, <1>5

\* After the launch the handler writes the flag, or it fails.
LEMMA LeavesMark ==
    ASSUME IInv, [Next]_vars, NEW w \in Workers,
           WorkerStep(w) \/ WorkerFails(w) \/ SpiderStep(w), wpc[w] = "mark"
    PROVE  \/ MarkRunning(w) \/ HandlerRaises(w)
           \/ Crash(w) /\ \A t \in TaskIds : entry'[w][t] = "none"
           \/ wpc'[w] = "mark" /\ Task(w)' = Task(w)
<1> USE States
<1>1. ASSUME NEW u, SpiderExits(w, u) PROVE wpc'[w] = "mark" /\ Task(w)' = Task(w)
  <2>1. wpc' = wpc /\ cur' = cur
    BY <1>1 DEF SpiderExits, locals
  <2> QED
    BY <2>1, TaskKept
<1>2. CASE Crash(w)
  BY <1>2 DEF IInv, TypeOK, Crash, WorkerGone
<1>3. ~MainRaises(w)
  BY DEF MainRaises, Looping
<1>4. CASE WorkerStep(w)
  BY <1>4 DEF WorkerStep, Boot, PollEntry, PopRedis, PopNothing, SelectOldest, ClaimJob,
     ClaimLost, LookupTask, LaunchSpider, SignalSpider, ForgetSpider, ClearRunning, FinishJob
<1> QED
  BY <1>1, <1>2, <1>3, <1>4 DEF WorkerFails, SpiderStep, SpiderKilled

LEMMA SpiderHasFlagStep ==
    ASSUME OneWorker, OnlyStartStop, IInv, FitsInv, StartStopInv, SpiderHasFlag,
           [Next]_vars
    PROVE  SpiderHasFlag'
<1> SUFFICES ASSUME faults' = 0, NEW w \in Workers, NEW t \in TaskIds,
                    entry'[w][t] = "live", row'[t] # "absent",
                    ~(wpc'[w] = "mark" /\ Task(w)' = t)
             PROVE  isRunning'[t]
  BY DEF SpiderHasFlag
<1>1. faults = 0
  BY NothingFailed
<1>2. ASSUME entry[w][t] = "live", row[t] # "absent", ~(wpc[w] = "mark" /\ Task(w) = t)
      PROVE  isRunning[t]
  BY <1>1, <1>2 DEF SpiderHasFlag
<1>3. CASE UNCHANGED vars
  BY <1>2, <1>3 DEF vars, Task
<1>4. ASSUME NEW h \in Handlers, HandlerStep(h) PROVE isRunning'[t]
  <2>1. UNCHANGED <<wpc, cur, entry, row, isRunning>>
    BY <1>4, HandlersLeaveWorkers, StartStopRequest
  <2>2. wpc[w] = "mark" => Task(w)' = Task(w)
    BY <2>1, TaskKept, States
  <2> QED
    BY <1>2, <2>1, <2>2
<1>5. CASE WorkerStep(w) \/ WorkerFails(w) \/ SpiderStep(w)
  <2>1. UNCHANGED row
    BY <1>5, WorkersLeaveRows
  <2>2. ~HandlerRaises(w) /\ ~MainRaises(w)
    BY NothingFailed
  <2>3. CASE LaunchSpider(w) /\ t = Task(w)
    <3>1. wpc'[w] = "mark" /\ cur' = cur /\ wpc[w] \in Handling
      BY <2>3, States DEF IInv, TypeOK, LaunchSpider, Goto, locals
    <3> QED
      BY <2>3, <3>1, TaskKept
  <2>4. CASE entry[w][t] = "live" /\ wpc[w] = "mark" /\ Task(w) = t
    <3>1. MarkRunning(w)
      BY <1>5, <2>2, <2>4, LeavesMark
    <3> QED
      BY <2>1, <2>4, <3>1 DEF IInv, TypeOK, MarkRunning, SetRunning
  <2>5. CASE entry[w][t] = "live" /\ ~(wpc[w] = "mark" /\ Task(w) = t)
    <3>1. isRunning[t]
      BY <1>2, <2>1, <2>5
    <3>2. ~(ClearRunning(w) /\ t = Task(w))
      BY <2>5 DEF FitsInv, Fits, ClearRunning
    <3> QED
      BY <1>5, <2>2, <2>5, <3>1, <3>2, FlagWrites
  <2> QED
    BY <1>5, <2>3, <2>4, <2>5, ComesToLife
<1> QED
  BY <1>3, <1>4, <1>5 DEF Next, OneWorker

\* What the flags rest on, when clients only start and stop tasks.
FlagInv == IInv /\ FitsInv /\ StartStopInv /\ FlagRowInv /\ FlagHasSpider

LEMMA FlagInvariance ==
    DistinctNames /\ OnlyStartStop => (Spec => []FlagInv)
<1>1. SUFFICES ASSUME DistinctNames, OnlyStartStop PROVE Spec => []FlagInv
  OBVIOUS
<1>2. Init => FlagInv
  <2>1. Init => StartStopInv /\ FlagRowInv /\ FlagHasSpider
    BY DEF Init, Idle, StartStopInv, FlagRowInv, FlagHasSpider
  <2> QED
    BY <2>1, InitInv, FitsInit DEF FlagInv
<1>3. FlagInv /\ [Next]_vars => FlagInv'
  BY <1>1, InvStep, FitsStep, StartStopStep, FlagRowStep, FlagHasSpiderStep DEF FlagInv
<1> QED
  BY <1>2, <1>3, PTL DEF Spec

\* As long as nothing crashed and no error was met, a flagged task has a
\* registered process or a handler about to clear the flag, for any number of
\* workers: no order of starts, stops, exits and polls shuts a task out.
THEOREM FlagsHaveSpiders ==
    DistinctNames /\ OnlyStartStop => (Spec => []FlagHasSpider)
<1>1. FlagInv => FlagHasSpider
  BY DEF FlagInv
<1> QED
  BY <1>1, FlagInvariance, PTL

\* Where one worker serves the queue, tasks.is_running and running_tasks agree
\* in both directions: the handlers, the polls and the exits of one worker
\* never leave a live spider whose task is not flagged, either.
THEOREM FlagsAgree ==
    DistinctNames /\ OneWorker /\ OnlyStartStop => (Spec => []FlagAgrees)
<1>1. SUFFICES ASSUME DistinctNames, OneWorker, OnlyStartStop PROVE Spec => []FlagAgrees
  OBVIOUS
<1>2. Init => SpiderHasFlag
  BY DEF Init, SpiderHasFlag
<1>3. FlagInv /\ SpiderHasFlag /\ [Next]_vars => SpiderHasFlag'
  BY <1>1, SpiderHasFlagStep DEF FlagInv
<1>4. FlagInv /\ SpiderHasFlag => FlagAgrees
  BY DEF FlagInv, FlagAgrees
<1>5. Spec => []FlagInv
  BY <1>1, FlagInvariance
<1> QED
  BY <1>2, <1>3, <1>4, <1>5, PTL DEF Spec
=============================================================================
