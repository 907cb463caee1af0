-------------------------- MODULE BridgeJobs_proofs --------------------------
(***************************************************************************)
(* Theorems about BridgeJobs: for any number of jobs, workers, steps and   *)
(* records, and of kills, errors and late exits.  What is about claims     *)
(* holds when no two workers run with one WORKER_ID.                       *)
(***************************************************************************)
EXTENDS BridgeJobs, SequenceTheorems, TLAPS

DistinctNames == \A v, w \in Workers : WorkerName[v] = WorkerName[w] => v = w

-----------------------------------------------------------------------------
(* The inductive invariant                                                 *)

Handling == {"announce", "launch", "read", "wait", "failing"}
Held == {"claimed", "running"}

StepStates == {"pending", "running", "completed", "failed"}
RowType == [status : {"absent", "pending"} \cup Held \cup Terminal,
            worker : {WorkerName[w] : w \in Workers} \cup {NoName}, step : Nat,
            steps : Seq(StepStates), result : BOOLEAN,
            error : {"none", "restarted", "failure"}]
EventType == [type : {"progress", "result", "error"}, step : Nat]
BridgeType == [state : {"none", "exited"} \cup Alive, by : Workers \cup {NoName}, at : Nat,
               out : Seq(EventType), reader : BOOLEAN, ok : BOOLEAN]

TypeInv ==
    /\ jobs \in [Jobs -> RowType]
    /\ client \in [Jobs -> {"idle", "polling", "done", "gone"}]
    /\ bridge \in [Jobs -> BridgeType]
    /\ made \in [Jobs -> Nat]
    /\ wpc \in [Workers -> {"down", "poll"} \cup Handling]
    /\ cur \in [Workers -> Jobs \cup {NoJob}]
    /\ local \in [Workers -> [steps : Seq(StepStates), step : Nat]]
    /\ crashes \in Nat /\ faults \in Nat /\ late \in Nat
    /\ \A w \in Workers : wpc[w] \in Handling => cur[w] \in Jobs

\* What a pipe carries: the events written and not yet read.
Carried(s) == {s[i] : i \in 1..Len(s)}

\* The work an answer stands for.
Due(j) == IF j \in Generate THEN 1 ELSE Records

\* Steps as they were made, or with the k-th one running.
StepsAt(steps, k) ==
    \/ k = NoStep /\ steps = DefaultSteps
    \/ k \in 1..StepCount /\ steps = ApplyStepProgress(DefaultSteps, k)

\* The bridge has done what its place and its events say.
WorkInv(j) ==
    /\ j \in Generate /\ bridge[j].at > StepCount => made[j] >= 1
    /\ j \in Reanalyze => made[j] >= bridge[j].at
    /\ \A e \in Carried(bridge[j].out) :
         /\ e.type = "result" => made[j] >= Due(j)
         /\ e.type = "progress" => j \in Generate /\ e.step \in 1..StepCount
    /\ jobs[j].status = "completed" => made[j] >= Due(j)

\* A bridge that is alive works for a finished job, or for the worker that
\* still handles the job.
AliveInv(j) ==
    bridge[j].state \in Alive =>
        \/ jobs[j].status \in Terminal
        \/ \E w \in Workers : /\ bridge[j].by = w /\ cur[w] = j
                              /\ wpc[w] \in {"read", "wait", "failing"}

\* StepsAgree for one job.
StepsInv(j) ==
    LET r == jobs[j] IN
    /\ r.status \in {"pending", "claimed"} => StepsAt(r.steps, NoStep) /\ r.step = NoStep /\ ~r.result
    /\ r.status = "running" => r.step # NoStep /\ StepsAt(r.steps, r.step)
    /\ r.status = "completed" =>
         /\ r.steps = [i \in 1..StepCount |-> "completed"]
         /\ r.step = NoStep /\ r.result /\ r.error = "none"
    /\ r.status = "failed" =>
         /\ r.error = "failure"
         /\ \A i, k \in 1..StepCount :
               i < k /\ r.steps[i] # "completed" => r.steps[k] = "pending"
         /\ faults = 0 => \A i \in 1..StepCount : r.steps[i] # "running"

RowInv(j) ==
    /\ client[j] = "idle" <=> jobs[j].status = "absent"
    /\ client[j] = "done" => jobs[j].status \in Terminal
    /\ j \in Generate => StepsInv(j)

\* The worker that handles a job holds its claim, and how far it is says how
\* far the row is.
HandlerInv(w) ==
    LET j == cur[w] IN
    /\ wpc[w] \in Handling => jobs[j].worker = WorkerName[w]
    /\ wpc[w] = "announce" => j \in Reanalyze /\ jobs[j].status = "claimed"
    /\ wpc[w] = "launch" => jobs[j].status = IF j \in Generate THEN "claimed" ELSE "running"
    /\ wpc[w] \in {"launch", "read"} /\ j \in Generate =>
         StepsAt(local[w].steps, local[w].step)
    /\ wpc[w] = "read" =>
         /\ jobs[j].status \in Held
         /\ bridge[j].by = w
         /\ bridge[j].ok => \E e \in Carried(bridge[j].out) : e.type = "result"
    /\ wpc[w] = "wait" => jobs[j].status \in Terminal
    /\ wpc[w] = "failing" =>
         /\ jobs[j].status \in Held \cup Terminal
         /\ late = 0 => jobs[j].status \in Held
         /\ faults = 0 => jobs[j].status \in Terminal

IInv ==
    /\ TypeInv
    /\ \A j \in Jobs : WorkInv(j) /\ AliveInv(j) /\ RowInv(j)
    /\ \A w \in Workers : HandlerInv(w)

-----------------------------------------------------------------------------
(* Events and steps                                                        *)

LEMMA CarriedEmpty == Carried(<<>>) = {}
  BY DEF Carried

LEMMA CarriedAppend ==
  ASSUME NEW s \in Seq(EventType), NEW e \in EventType
  PROVE  Append(s, e) \in Seq(EventType) /\ Carried(Append(s, e)) = Carried(s) \cup {e}
<1>1. /\ Append(s, e) \in Seq(EventType) /\ Len(s) \in Nat
      /\ Len(Append(s, e)) = Len(s) + 1
      /\ Append(s, e)[Len(s) + 1] = e
      /\ \A i \in 1..Len(s) : Append(s, e)[i] = s[i]
  BY AppendProperties
<1>2. 1..(Len(s) + 1) = (1..Len(s)) \cup {Len(s) + 1}
  BY <1>1
<1> QED BY <1>1, <1>2 DEF Carried

LEMMA CarriedTail ==
  ASSUME NEW s \in Seq(EventType), s # <<>>
  PROVE  /\ Head(s) \in EventType /\ Tail(s) \in Seq(EventType)
         /\ Carried(s) = {Head(s)} \cup Carried(Tail(s))
<1>1. /\ Head(s) \in EventType /\ Tail(s) \in Seq(EventType)
      /\ Len(Tail(s)) = Len(s) - 1 /\ Len(s) \in Nat /\ Len(s) > 0 /\ Head(s) = s[1]
      /\ \A i \in 1..Len(Tail(s)) : Tail(s)[i] = s[i + 1]
  BY HeadTailProperties, EmptySeq
<1>2. ASSUME NEW i \in 1..Len(s) PROVE s[i] \in {Head(s)} \cup Carried(Tail(s))
  <2>1. CASE i = 1
    BY <1>1, <2>1
  <2>2. CASE i # 1
    <3>1. i - 1 \in 1..Len(Tail(s)) /\ s[i] = Tail(s)[i - 1]
      BY <1>1, <2>2
    <3> QED BY <3>1 DEF Carried
  <2> QED BY <2>1, <2>2
<1>3. ASSUME NEW i \in 1..Len(Tail(s)) PROVE Tail(s)[i] \in Carried(s)
  <2>1. i + 1 \in 1..Len(s) /\ Tail(s)[i] = s[i + 1]
    BY <1>1
  <2> QED BY <2>1 DEF Carried
<1>4. Head(s) \in Carried(s)
  BY <1>1 DEF Carried
<1> QED BY <1>1, <1>2, <1>3, <1>4 DEF Carried

\* Steps are a sequence of StepCount states.
LEMMA StepsAreSeq == [1..StepCount -> StepStates] \subseteq Seq(StepStates)
  BY BridgeConstants, SeqDef

LEMMA StepsAtType ==
  ASSUME NEW steps, NEW k, StepsAt(steps, k)
  PROVE  /\ steps \in [1..StepCount -> StepStates] /\ k \in Nat
         /\ \A i \in 1..StepCount : steps[i] # "failed"
  BY BridgeConstants DEF StepsAt, DefaultSteps, ApplyStepProgress, StepStates, NoStep

\* It does not matter which step was shown before: the k-th is next.
LEMMA StepsApplied ==
  ASSUME NEW steps, NEW m, StepsAt(steps, m), NEW k \in 1..StepCount
  PROVE  StepsAt(ApplyStepProgress(steps, k), k)
<1>1. DOMAIN steps = 1..StepCount /\ \A i \in 1..StepCount : steps[i] # "failed"
  BY StepsAtType
<1>2. DOMAIN DefaultSteps = 1..StepCount /\ \A i \in 1..StepCount : DefaultSteps[i] # "failed"
  BY DEF DefaultSteps
<1>3. ApplyStepProgress(steps, k) = ApplyStepProgress(DefaultSteps, k)
  BY <1>1, <1>2 DEF ApplyStepProgress
<1> QED BY <1>3 DEF StepsAt

LEMMA StepsFinished ==
  ASSUME NEW steps, NEW m, StepsAt(steps, m)
  PROVE  FinalizeSteps(steps, "completed", NoStep) = [i \in 1..StepCount |-> "completed"]
<1>1. DOMAIN steps = 1..StepCount /\ \A i \in 1..StepCount : steps[i] # "failed"
  BY StepsAtType
<1> QED BY <1>1 DEF FinalizeSteps

\* A failure is shown at the step that runs.
LEMMA StepsFailed ==
  ASSUME NEW steps, NEW m, StepsAt(steps, m)
  PROVE  LET shown == FinalizeSteps(steps, "failed", m) IN
         /\ shown \in [1..StepCount -> StepStates]
         /\ \A i, n \in 1..StepCount : i < n /\ shown[i] # "completed" => shown[n] = "pending"
         /\ \A i \in 1..StepCount : shown[i] # "running"
<1> DEFINE shown == FinalizeSteps(steps, "failed", m)
<1>1. steps \in [1..StepCount -> StepStates] /\ m \in Nat
  BY StepsAtType
<1>2. shown = [i \in 1..StepCount |-> IF i = m THEN "failed" ELSE steps[i]]
  BY <1>1 DEF FinalizeSteps
<1>3. \A i \in 1..StepCount : steps[i] = IF i < m THEN "completed"
                                         ELSE IF i = m THEN "running" ELSE "pending"
  BY BridgeConstants DEF StepsAt, DefaultSteps, ApplyStepProgress, NoStep
<1> HIDE DEF shown
<1>4. shown \in [1..StepCount -> StepStates]
  BY <1>1, <1>2 DEF StepStates
<1>5. \A i, n \in 1..StepCount : i < n /\ shown[i] # "completed" => shown[n] = "pending"
  BY <1>1, <1>2, <1>3, BridgeConstants DEF NoStep
<1>6. \A i \in 1..StepCount : shown[i] # "running"
  BY <1>1, <1>2, <1>3, BridgeConstants DEF NoStep
<1> QED BY <1>4, <1>5, <1>6 DEF shown

-----------------------------------------------------------------------------
(* Bridges                                                                 *)

\* An event a bridge may write now.
EventOK(j, e) ==
    /\ e \in EventType
    /\ e.type = "result" => made[j] >= Due(j)
    /\ e.type = "progress" => j \in Generate /\ e.step \in 1..StepCount

\* What any step of the bridge of j, or its end, makes of it: it goes on from
\* where it is, for whom it was launched, and only adds to the pipe.
Worked(j, b) ==
    /\ b \in BridgeType
    /\ bridge[j].state \in Alive
    /\ b.by = bridge[j].by /\ b.at >= bridge[j].at
    /\ j \in Generate /\ b.at > StepCount => made'[j] >= 1
    /\ j \in Reanalyze => made'[j] >= b.at
    /\ Carried(bridge[j].out) \subseteq Carried(b.out)
    /\ \A e \in Carried(b.out) : e \in Carried(bridge[j].out) \/ EventOK(j, e)
    /\ b.ok => bridge[j].ok \/ \E e \in Carried(b.out) : e.type = "result"

LEMMA EmitWorks ==
  ASSUME TypeInv, NEW j \in Jobs, WorkInv(j), bridge[j].state \in Alive, UNCHANGED made,
         NEW e, EventOK(j, e), NEW next \in BridgeType,
         Emit(j, e, next), next.by = bridge[j].by, next.at >= bridge[j].at,
         j \in Generate /\ next.at > StepCount => made[j] >= 1,
         j \in Reanalyze => made[j] >= next.at,
         next.ok => bridge[j].ok \/ e.type = "result"
  PROVE  \E b : bridge' = [bridge EXCEPT ![j] = b] /\ Worked(j, b)
<1>1. bridge[j] \in BridgeType /\ bridge[j].out \in Seq(EventType) /\ bridge[j].at \in Nat
  BY DEF TypeInv, BridgeType
<1>2. /\ Append(bridge[j].out, e) \in Seq(EventType)
      /\ Carried(Append(bridge[j].out, e)) = Carried(bridge[j].out) \cup {e}
  BY <1>1, CarriedAppend DEF EventOK
<1>3. CASE bridge[j].reader
  <2> DEFINE b == [next EXCEPT !.out = Append(bridge[j].out, e)]
  <2>1. bridge' = [bridge EXCEPT ![j] = b]
    BY <1>3 DEF Emit
  <2>2. /\ b \in BridgeType /\ b.out = Append(bridge[j].out, e) /\ b.by = next.by
        /\ b.at = next.at /\ b.ok = next.ok
    BY <1>2 DEF BridgeType
  <2> HIDE DEF b
  <2>3. Worked(j, b)
    BY <1>2, <2>2 DEF Worked
  <2> QED BY <2>1, <2>3
<1>4. CASE ~bridge[j].reader
  <2> DEFINE b == [bridge[j] EXCEPT !.state = "exited", !.ok = FALSE]
  <2>1. bridge' = [bridge EXCEPT ![j] = b]
    BY <1>4 DEF Emit
  <2>2. /\ b \in BridgeType /\ b.out = bridge[j].out /\ b.by = bridge[j].by
        /\ b.at = bridge[j].at /\ b.ok = FALSE
    BY <1>1 DEF BridgeType
  <2> HIDE DEF b
  <2>3. Worked(j, b)
    BY <1>1, <2>2 DEF Worked, WorkInv
  <2> QED BY <2>1, <2>3
<1> QED BY <1>3, <1>4

LEMMA BridgeWorks ==
  ASSUME TypeInv, NEW j \in Jobs, WorkInv(j), BridgeStep(j) \/ BridgeKilled(j)
  PROVE  /\ \E b : bridge' = [bridge EXCEPT ![j] = b] /\ Worked(j, b)
         /\ made' \in [Jobs -> Nat] /\ \A i \in Jobs : made'[i] >= made[i]
<1> DEFINE here == bridge[j]
<1>a. here \in BridgeType /\ made \in [Jobs -> Nat]
  BY DEF TypeInv
<1>b. here.at \in Nat /\ here.out \in Seq(EventType)
  BY <1>a DEF BridgeType
<1>0. /\ here \in BridgeType /\ here.at \in Nat /\ made[j] \in Nat /\ StepCount \in Nat
      /\ StepCount >= 3 /\ Records \in Nat /\ here.out \in Seq(EventType)
  BY <1>a, <1>b, BridgeConstants
<1>c. UNCHANGED made => made' \in [Jobs -> Nat] /\ \A i \in Jobs : made'[i] >= made[i]
  BY <1>a
<1>d. /\ j \in Generate /\ here.at > StepCount => made[j] >= 1
      /\ j \in Reanalyze => made[j] >= here.at
      /\ \A e \in Carried(here.out) : EventOK(j, e)
  <2>1. \A e \in Carried(here.out) : e \in EventType
    BY <1>b DEF Carried
  <2> QED BY <2>1 DEF WorkInv, EventOK
<1>1. CASE BridgeProgress(j) \/ CriteriaProgress(j)
  <2> DEFINE k == here.at + 1
             next == [here EXCEPT !.at = k]
  <2>1. /\ j \in Generate /\ here.state = "running" /\ k \in 1..StepCount
        /\ Emit(j, Progress(k), next) /\ UNCHANGED made
    <3>1. CASE BridgeProgress(j)
      BY <1>0, <3>1 DEF BridgeProgress
    <3>2. CASE CriteriaProgress(j)
      <4>1. k \in 2..(StepCount - 2)
        BY <3>2 DEF CriteriaProgress, Criteria
      <4> QED BY <1>0, <3>2, <4>1 DEF CriteriaProgress
    <3> QED BY <1>1, <3>1, <3>2
  <2>2. k \in Nat
    BY <1>0
  <2> HIDE DEF k
  <2>5. next \in BridgeType /\ next.by = here.by /\ next.at = k /\ next.ok = here.ok
    BY <1>0, <2>2 DEF BridgeType
  <2>6. EventOK(j, Progress(k))
    BY <2>1, <2>2 DEF EventOK, EventType, Progress
  <2>3. j \notin Reanalyze
    BY <2>1, BridgeConstants
  <2>4. here.state \in Alive /\ k >= here.at /\ ~(k > StepCount)
    BY <1>0, <2>1 DEF Alive, k
  <2> HIDE DEF next
  <2>7. \E b : bridge' = [bridge EXCEPT ![j] = b] /\ Worked(j, b)
    BY <2>1, <2>3, <2>4, <2>5, <2>6, EmitWorks
  <2> QED BY <1>c, <2>1, <2>7
<1>2. CASE CriteriaFails(j) \/ BridgeRaises(j)
  <2> DEFINE next == [here EXCEPT !.state = "closing"]
  <2>1. here.state = "running" /\ Emit(j, Failure, next) /\ UNCHANGED made
    BY <1>2 DEF CriteriaFails, BridgeRaises
  <2>2. next \in BridgeType /\ next.by = here.by /\ next.at = here.at /\ next.ok = here.ok
    BY <1>0 DEF BridgeType, Alive
  <2>3. EventOK(j, Failure) /\ here.state \in Alive /\ here.at >= here.at
    BY <1>0, <2>1 DEF EventOK, EventType, Failure, Alive, NoStep
  <2> HIDE DEF next
  <2>4. \E b : bridge' = [bridge EXCEPT ![j] = b] /\ Worked(j, b)
    BY <1>d, <2>1, <2>2, <2>3, EmitWorks
  <2> QED BY <1>c, <2>1, <2>4
<1>3. CASE BridgeResult(j)
  <2> DEFINE next == [here EXCEPT !.state = "closing", !.ok = TRUE]
  <2>1. here.state = "running" /\ WorkDone(j) /\ Emit(j, Result, next) /\ UNCHANGED made
    BY <1>3 DEF BridgeResult
  <2>2. next \in BridgeType /\ next.by = here.by /\ next.at = here.at
    BY <1>0 DEF BridgeType, Alive
  <2> HIDE DEF next
  <2>3. made[j] >= Due(j)
    <3>1. CASE j \in Generate
      BY <1>0, <1>d, <2>1, <3>1 DEF WorkDone, Due
    <3>2. CASE j \notin Generate
      BY <1>0, <1>d, <2>1, <3>2 DEF WorkDone, Due, Jobs
    <3> QED BY <3>1, <3>2
  <2>4. /\ EventOK(j, Result) /\ Result.type = "result"
        /\ here.state \in Alive /\ here.at >= here.at
    BY <1>0, <2>1, <2>3 DEF EventOK, EventType, Result, Alive, NoStep
  <2>5. \E b : bridge' = [bridge EXCEPT ![j] = b] /\ Worked(j, b)
    BY <1>d, <2>1, <2>2, <2>4, EmitWorks
  <2> QED BY <1>c, <2>1, <2>5
<1>4. CASE BridgeCreate(j) \/ BridgeRecord(j)
  <2> DEFINE b == [here EXCEPT !.at = here.at + 1]
  <2>1. /\ here.state \in Alive /\ bridge' = [bridge EXCEPT ![j] = b]
        /\ made' = [made EXCEPT ![j] = made[j] + 1]
    BY <1>a, <1>4 DEF BridgeCreate, BridgeRecord, Alive, TypeInv
  <2>2. /\ b \in BridgeType /\ b.by = here.by /\ b.at = here.at + 1
        /\ b.out = here.out /\ b.ok = here.ok
    BY <1>0 DEF BridgeType
  <2> HIDE DEF b
  <2>3. made' \in [Jobs -> Nat] /\ made'[j] = made[j] + 1 /\ \A i \in Jobs : made'[i] >= made[i]
    BY <1>a, <2>1
  <2>4. b.at >= here.at /\ made'[j] >= 1 /\ (j \in Reanalyze => made'[j] >= b.at)
    BY <1>0, <1>d, <2>2, <2>3
  <2>5. Worked(j, b)
    BY <2>1, <2>2, <2>4 DEF Worked
  <2> QED BY <2>1, <2>3, <2>5
<1>5. CASE BridgeExits(j)
  <2> DEFINE b == [here EXCEPT !.state = "exited"]
  <2>1. here.state \in Alive /\ bridge' = [bridge EXCEPT ![j] = b] /\ UNCHANGED made
    BY <1>5 DEF BridgeExits, Alive
  <2>2. /\ b \in BridgeType /\ b.by = here.by /\ b.at = here.at /\ b.out = here.out
        /\ b.ok = here.ok
    BY <1>0 DEF BridgeType
  <2> HIDE DEF b
  <2>3. b.at >= here.at /\ made'[j] = made[j]
    BY <1>0, <2>1, <2>2
  <2>4. Worked(j, b)
    BY <1>d, <2>1, <2>2, <2>3 DEF Worked
  <2> QED BY <1>c, <2>1, <2>4
<1>6. CASE BridgeKilled(j)
  <2> DEFINE b == [here EXCEPT !.state = "exited", !.ok = FALSE]
  <2>1. here.state \in Alive /\ bridge' = [bridge EXCEPT ![j] = b] /\ UNCHANGED made
    BY <1>6 DEF BridgeKilled, TypeInv
  <2>2. /\ b \in BridgeType /\ b.by = here.by /\ b.at = here.at /\ b.out = here.out
        /\ b.ok = FALSE
    BY <1>0 DEF BridgeType
  <2> HIDE DEF b
  <2>3. b.at >= here.at /\ made'[j] = made[j]
    BY <1>0, <2>1, <2>2
  <2>4. Worked(j, b)
    BY <1>d, <2>1, <2>2, <2>3 DEF Worked
  <2> QED BY <1>c, <2>1, <2>4
<1> QED BY <1>1, <1>2, <1>3, <1>4, <1>5, <1>6 DEF BridgeStep

-----------------------------------------------------------------------------
(* What a step leaves alone                                                *)

\* Nothing about job i changes, but for work done for it.
Same(i) ==
    /\ jobs'[i] = jobs[i] /\ client'[i] = client[i] /\ bridge'[i] = bridge[i]
    /\ made'[i] >= made[i]

\* Worker v makes no step.
Stays(v) == wpc'[v] = wpc[v] /\ cur'[v] = cur[v] /\ local'[v] = local[v]

Grows == late' >= late /\ faults' >= faults

LEMMA WorkKept ==
  ASSUME TypeInv, TypeInv', NEW i \in Jobs, WorkInv(i), made'[i] >= made[i],
         jobs'[i].status = "completed" => jobs[i].status = "completed",
         bridge'[i].at = bridge[i].at,
         Carried(bridge'[i].out) \subseteq Carried(bridge[i].out)
  PROVE  WorkInv(i)'
<1>1. /\ made[i] \in Nat /\ made'[i] \in Nat /\ bridge[i].at \in Nat
      /\ Due(i) \in Nat /\ StepCount \in Nat
  BY BridgeConstants DEF TypeInv, BridgeType, Due
<1>2. Due(i)' = Due(i)
  BY DEF Due
<1>3. \A n \in Nat : made[i] >= n => made'[i] >= n
  BY <1>1
<1> QED BY <1>1, <1>2, <1>3 DEF WorkInv

LEMMA RowKept ==
  ASSUME TypeInv, TypeInv', NEW i \in Jobs, RowInv(i), Grows,
         jobs'[i] = jobs[i], client'[i] = client[i]
  PROVE  RowInv(i)'
<1>1. faults' = 0 => faults = 0
  BY DEF TypeInv, Grows
<1> QED BY <1>1 DEF RowInv, StepsInv, StepsAt

\* A handler of a job that was left alone.
LEMMA HandlerKept ==
  ASSUME TypeInv, TypeInv', NEW v \in Workers, HandlerInv(v), Grows, Stays(v),
         wpc[v] \in Handling => Same(cur[v])
  PROVE  HandlerInv(v)'
<1>1. (faults' = 0 => faults = 0) /\ (late' = 0 => late = 0)
  BY DEF TypeInv, Grows
<1>2. CASE wpc[v] \in Handling
  BY <1>1, <1>2 DEF HandlerInv, Stays, Same, StepsAt
<1>3. CASE wpc[v] \notin Handling
  BY <1>3 DEF HandlerInv, Stays, Handling
<1> QED BY <1>2, <1>3

\* One job has one handler.
LEMMA OneHandler ==
  ASSUME DistinctNames, IInv, NEW v \in Workers, NEW w \in Workers,
         wpc[v] \in Handling, wpc[w] \in Handling, cur[v] = cur[w]
  PROVE  v = w
BY DEF IInv, HandlerInv, DistinctNames

\* A step of worker w that is about job j only: what is left to show is what
\* it makes of that job and of its handler.
LEMMA WorkerMoves ==
  ASSUME IInv, TypeInv', NEW w \in Workers, NEW j \in Jobs, Grows,
         wpc[w] \in Handling => cur[w] = j,
         \A v \in Workers : v # w => Stays(v),
         \A v \in Workers : v # w /\ wpc[v] \in Handling => cur[v] # j,
         \A i \in Jobs : i # j => Same(i),
         WorkInv(j)', AliveInv(j)', RowInv(j)', HandlerInv(w)'
  PROVE  IInv'
<1>1. ASSUME NEW i \in Jobs, i # j PROVE WorkInv(i)' /\ RowInv(i)'
  BY <1>1, WorkKept, RowKept DEF IInv, Same
<1>2. ASSUME NEW i \in Jobs, i # j PROVE AliveInv(i)'
  <2>1. AliveInv(i) /\ Same(i)
    BY <1>2 DEF IInv
  <2>2. ASSUME NEW v \in Workers, bridge[i].by = v, cur[v] = i, wpc[v] \in {"read", "wait", "failing"}
        PROVE  Stays(v)
    BY <1>2, <2>2 DEF Handling
  <2> QED BY <2>1, <2>2 DEF AliveInv, Same, Stays
<1>3. ASSUME NEW v \in Workers, v # w PROVE HandlerInv(v)'
  <2>1. HandlerInv(v) /\ Stays(v) /\ (wpc[v] \in Handling => cur[v] \in Jobs /\ cur[v] # j)
    BY <1>3 DEF IInv, TypeInv
  <2> QED BY <2>1, HandlerKept DEF IInv
<1> QED BY <1>1, <1>2, <1>3 DEF IInv

LEMMA BridgeStepKeeps ==
  ASSUME IInv, NEW j \in Jobs, BridgeStep(j) \/ BridgeKilled(j)
  PROVE  IInv'
<1>1. TypeInv /\ WorkInv(j) /\ AliveInv(j)
  BY DEF IInv
<1>2. PICK b : bridge' = [bridge EXCEPT ![j] = b] /\ Worked(j, b)
  BY <1>1, BridgeWorks
<1>3. made' \in [Jobs -> Nat] /\ \A i \in Jobs : made'[i] >= made[i]
  BY <1>1, BridgeWorks
<1>4. /\ UNCHANGED <<jobs, client, wpc, cur, local, late, crashes>> /\ faults' \in Nat
      /\ faults' >= faults
  BY <1>1 DEF BridgeStep, BridgeKilled, TypeInv, budget
<1>5. TypeInv' /\ bridge'[j] = b /\ \A i \in Jobs : i # j => bridge'[i] = bridge[i]
  BY <1>1, <1>2, <1>3, <1>4 DEF TypeInv, Worked
<1>6. Grows /\ \A v \in Workers : Stays(v)
  BY <1>1, <1>4 DEF Grows, Stays, TypeInv
<1>7. ASSUME NEW i \in Jobs, i # j PROVE WorkInv(i)' /\ AliveInv(i)'
  BY <1>1, <1>3, <1>4, <1>5, <1>7, WorkKept DEF AliveInv, IInv
<1>8. ASSUME NEW i \in Jobs PROVE RowInv(i)'
  BY <1>1, <1>4, <1>5, <1>6, RowKept DEF IInv
<1>9. WorkInv(j)'
  <2>1. /\ made[j] \in Nat /\ made'[j] \in Nat /\ Due(j) \in Nat /\ Due(j)' = Due(j)
        /\ \A n \in Nat : made[j] >= n => made'[j] >= n
    BY <1>1, <1>3, BridgeConstants DEF TypeInv, Due
  <2>2. ASSUME NEW e \in Carried(b.out)
        PROVE  /\ e.type = "result" => made'[j] >= Due(j)
               /\ e.type = "progress" => j \in Generate /\ e.step \in 1..StepCount
    BY <1>1, <1>2, <2>1 DEF Worked, WorkInv, EventOK
  <2>3. jobs[j].status = "completed" => made'[j] >= Due(j)
    BY <1>1, <2>1 DEF WorkInv
  <2> QED BY <1>2, <1>4, <1>5, <2>1, <2>2, <2>3 DEF WorkInv, Worked
<1>10. AliveInv(j)'
  BY <1>1, <1>2, <1>4, <1>5 DEF AliveInv, Worked
<1>11. ASSUME NEW v \in Workers PROVE HandlerInv(v)'
  <2>1. HandlerInv(v) /\ (wpc[v] \in Handling => cur[v] \in Jobs)
    BY <1>1 DEF IInv, TypeInv
  <2>2. CASE wpc[v] \in Handling /\ cur[v] = j
    <3>1. wpc[v] = "read" /\ b.ok => \E e \in Carried(b.out) : e.type = "result"
      BY <1>2, <2>1, <2>2 DEF HandlerInv, Worked
    <3>2. (faults' = 0 => faults = 0) /\ b.by = bridge[j].by
      BY <1>1, <1>2, <1>4 DEF TypeInv, Worked
    <3> QED BY <1>4, <1>5, <2>1, <2>2, <3>1, <3>2 DEF HandlerInv, StepsAt
  <2>3. CASE ~(wpc[v] \in Handling /\ cur[v] = j)
    <3>1. wpc[v] \in Handling => Same(cur[v])
      BY <1>3, <1>4, <1>5, <2>1, <2>3 DEF Same
    <3> QED BY <1>1, <1>5, <1>6, <2>1, <3>1, HandlerKept
  <2> QED BY <2>2, <2>3
<1> QED BY <1>5, <1>7, <1>8, <1>9, <1>10, <1>11 DEF IInv

-----------------------------------------------------------------------------
(* The steps of clients                                                    *)

LEMMA ClientStepKeeps ==
  ASSUME IInv, NEW j \in Jobs, Post(j) \/ Poll(j) \/ GiveUp(j)
  PROVE  IInv'
<1>1. TypeInv /\ WorkInv(j) /\ AliveInv(j) /\ RowInv(j)
  BY DEF IInv
<1>2. UNCHANGED <<bridge, made, wpc, cur, local, late>> /\ faults' \in Nat /\ crashes' \in Nat
  BY <1>1 DEF Post, Poll, GiveUp, TypeInv, budget
<1>3. Grows /\ \A v \in Workers : Stays(v)
  BY <1>1, <1>2 DEF Post, Poll, GiveUp, Grows, Stays, TypeInv, budget
<1>4. CASE Post(j)
  <2> DEFINE r == [NoRow EXCEPT !.status = "pending", !.steps = NewSteps(j)]
  <2>1. /\ jobs' = [jobs EXCEPT ![j] = r] /\ jobs[j].status = "absent"
        /\ \E c \in {"polling", "gone"} : client' = [client EXCEPT ![j] = c]
    BY <1>1, <1>4 DEF Post, RowInv
  <2>2. DefaultSteps \in Seq(StepStates) /\ NewSteps(j) \in Seq(StepStates)
    BY StepsAreSeq DEF DefaultSteps, NewSteps, StepStates
  <2>3. /\ r \in RowType /\ r.status = "pending" /\ r.steps = NewSteps(j) /\ r.step = NoStep
        /\ ~r.result
    BY <2>2 DEF NoRow, RowType, NoStep
  <2> HIDE DEF r
  <2>4. /\ TypeInv' /\ jobs'[j] = r /\ client'[j] \in {"polling", "gone"}
        /\ \A i \in Jobs : i # j => jobs'[i] = jobs[i] /\ client'[i] = client[i]
    BY <1>1, <1>2, <2>1, <2>3 DEF TypeInv
  <2>5. ASSUME NEW v \in Workers, wpc[v] \in Handling PROVE cur[v] \in Jobs /\ cur[v] # j
    <3>1. cur[v] \in Jobs /\ HandlerInv(v)
      BY <1>1, <2>5 DEF TypeInv, IInv
    <3> QED BY <2>1, <2>5, <3>1 DEF HandlerInv, Handling, Held, Terminal
  <2>6. \A i \in Jobs : i # j => Same(i)
    BY <1>1, <1>2, <2>4 DEF Same, TypeInv
  <2>7. ASSUME NEW v \in Workers PROVE HandlerInv(v)'
    BY <1>1, <1>3, <2>4, <2>5, <2>6, HandlerKept DEF IInv
  <2>8. ASSUME NEW i \in Jobs, i # j PROVE WorkInv(i)' /\ RowInv(i)' /\ AliveInv(i)'
    <3>1. WorkInv(i) /\ RowInv(i) /\ AliveInv(i) /\ Same(i)
      BY <2>6, <2>8 DEF IInv
    <3>2. WorkInv(i)' /\ RowInv(i)'
      BY <1>1, <1>3, <2>4, <3>1, WorkKept, RowKept DEF Same
    <3> QED BY <1>2, <3>1, <3>2 DEF AliveInv, Same
  <2>9. WorkInv(j)'
    BY <1>1, <1>2, <2>3, <2>4, WorkKept DEF TypeInv
  <2>10. AliveInv(j)'
    <3>1. bridge[j].state \notin Alive
      BY <1>1, <2>1, <2>5 DEF AliveInv, Terminal, Handling
    <3> QED BY <1>2, <3>1 DEF AliveInv
  <2>11. RowInv(j)'
    <3>1. j \in Generate => StepsAt(r.steps, NoStep)
      BY <2>3 DEF StepsAt, NewSteps
    <3>2. j \in Generate => StepsInv(j)'
      BY <2>3, <2>4, <3>1 DEF StepsInv, StepsAt
    <3> QED BY <2>3, <2>4, <3>2 DEF RowInv
  <2> QED BY <2>4, <2>7, <2>8, <2>9, <2>10, <2>11 DEF IInv
<1>5. CASE Poll(j) \/ GiveUp(j)
  <2>1. /\ UNCHANGED <<jobs, faults>>
        /\ \E c \in {"done", "gone"} : /\ client' = [client EXCEPT ![j] = c]
                                       /\ client[j] = "polling"
                                       /\ c = "done" => jobs[j].status \in Terminal
    BY <1>5 DEF Poll, GiveUp, View, NormalizeJobStatus, Terminal, budget
  <2>2. TypeInv'
    BY <1>1, <1>2, <2>1 DEF TypeInv
  <2>3. ASSUME NEW i \in Jobs PROVE WorkInv(i)' /\ AliveInv(i)'
    <3>1. WorkInv(i) /\ AliveInv(i) /\ made'[i] >= made[i]
      BY <1>1, <1>2 DEF IInv, TypeInv
    <3> QED BY <1>1, <1>2, <2>1, <2>2, <3>1, WorkKept DEF AliveInv
  <2>4. ASSUME NEW i \in Jobs PROVE RowInv(i)'
    <3>1. RowInv(i)
      BY DEF IInv
    <3>2. CASE i = j
      BY <1>1, <2>1, <3>1, <3>2 DEF RowInv, StepsInv, StepsAt, TypeInv
    <3>3. CASE i # j
      BY <1>1, <1>3, <2>1, <2>2, <3>1, <3>3, RowKept DEF TypeInv
    <3> QED BY <3>2, <3>3
  <2>5. ASSUME NEW v \in Workers PROVE HandlerInv(v)'
    <3>1. HandlerInv(v)
      BY DEF IInv
    <3> QED BY <1>2, <2>1, <3>1 DEF HandlerInv, StepsAt
  <2> QED BY <2>2, <2>3, <2>4, <2>5 DEF IInv
<1> QED BY <1>4, <1>5

-----------------------------------------------------------------------------
(* The steps of workers                                                    *)

\* What every step of the handler w of job j needs to know.
LEMMA HandlerOf ==
  ASSUME DistinctNames, IInv, NEW w \in Workers, wpc[w] \in Handling
  PROVE  \E j \in Jobs :
           /\ cur[w] = j /\ jobs[j] \in RowType /\ bridge[j] \in BridgeType /\ made[j] \in Nat
           /\ WorkInv(j) /\ AliveInv(j) /\ RowInv(j) /\ HandlerInv(w)
           /\ \A v \in Workers : v # w /\ wpc[v] \in Handling => cur[v] # j
<1>1. cur[w] \in Jobs /\ \A v \in Workers : v # w /\ wpc[v] \in Handling => cur[v] # cur[w]
  BY OneHandler DEF IInv, TypeInv
<1> QED BY <1>1 DEF IInv, TypeInv

\* A bridge of a job that is not finished, whose handler has not launched it,
\* is not alive; nor is that of a job nobody handles.
LEMMA NotAlive ==
  ASSUME IInv, NEW j \in Jobs, jobs[j].status \notin Terminal,
         \A v \in Workers : cur[v] = j => wpc[v] \notin {"read", "wait", "failing"}
  PROVE  bridge[j].state \notin Alive
BY DEF IInv, AliveInv

LEMMA BootKeeps ==
  ASSUME DistinctNames, IInv, NEW w \in Workers, Boot(w)
  PROVE  IInv'
<1> DEFINE given(i) == [jobs[i] EXCEPT !.status = "pending", !.worker = NoName,
                                       !.error = "restarted"]
<1>1. TypeInv /\ wpc[w] = "down"
  BY DEF IInv, Boot
<1>2. /\ UNCHANGED <<client, bridge, made, cur, local, crashes, faults, late>>
      /\ wpc' = [wpc EXCEPT ![w] = "poll"]
      /\ jobs' = [j \in Jobs |-> IF j \in GivenBack(w) THEN given(j) ELSE jobs[j]]
  BY DEF Boot, Goto, budget
<1>3. ASSUME NEW i \in Jobs
      PROVE  /\ given(i) \in RowType /\ given(i).status = "pending" /\ given(i).steps = jobs[i].steps
             /\ given(i).step = jobs[i].step /\ given(i).result = jobs[i].result
  <2>1. jobs[i] \in RowType
    BY <1>1 DEF TypeInv
  <2> QED BY <2>1 DEF RowType
<1> HIDE DEF given
<1>4. TypeInv'
  BY <1>1, <1>2, <1>3 DEF TypeInv, Handling
<1>5. Grows
  BY <1>1, <1>2 DEF Grows, TypeInv
<1>6. ASSUME NEW v \in Workers PROVE HandlerInv(v)'
  <2>1. CASE v = w
    BY <1>1, <1>2, <2>1 DEF HandlerInv, Handling, TypeInv
  <2>2. CASE v # w
    <3>1. Stays(v) /\ HandlerInv(v)
      BY <1>1, <1>2, <2>2 DEF Stays, TypeInv, IInv
    <3>2. ASSUME wpc[v] \in Handling PROVE Same(cur[v])
      <4>1. cur[v] \in Jobs /\ jobs[cur[v]].worker # WorkerName[w]
        BY <1>1, <2>2, <3>1, <3>2 DEF TypeInv, HandlerInv, DistinctNames
      <4> QED BY <1>1, <1>2, <4>1 DEF Same, GivenBack, TypeInv
    <3> QED BY <1>1, <1>4, <1>5, <3>1, <3>2, HandlerKept
  <2> QED BY <2>1, <2>2
<1>7. ASSUME NEW i \in Jobs PROVE WorkInv(i)' /\ AliveInv(i)' /\ RowInv(i)'
  <2>1. WorkInv(i) /\ AliveInv(i) /\ RowInv(i) /\ made'[i] >= made[i]
    BY <1>1, <1>2 DEF IInv, TypeInv
  <2>2. CASE i \in GivenBack(w)
    <3>1. jobs[i].status = "claimed" /\ jobs'[i] = given(i) /\ jobs[i].worker = WorkerName[w]
      BY <1>2, <2>2 DEF GivenBack
    <3>2. WorkInv(i)'
      BY <1>1, <1>2, <1>3, <1>4, <2>1, <3>1, WorkKept
    <3>3. ASSUME NEW v \in Workers, cur[v] = i, wpc[v] \in Handling PROVE FALSE
      BY <1>1, <3>1, <3>3 DEF IInv, HandlerInv, DistinctNames, Handling
    <3>4. bridge[i].state \notin Alive
      BY <3>1, <3>3, NotAlive DEF Terminal, Handling
    <3>5. RowInv(i)'
      BY <1>2, <1>3, <2>1, <3>1 DEF RowInv, StepsInv, StepsAt, Terminal
    <3> QED BY <1>2, <3>2, <3>4, <3>5 DEF AliveInv
  <2>3. CASE i \notin GivenBack(w)
    <3>1. jobs'[i] = jobs[i]
      BY <1>2, <2>3
    <3>2. WorkInv(i)' /\ RowInv(i)'
      BY <1>1, <1>2, <1>4, <1>5, <2>1, <3>1, WorkKept, RowKept
    <3>3. AliveInv(i)'
      BY <1>1, <1>2, <2>1, <3>1 DEF AliveInv, TypeInv
    <3> QED BY <3>2, <3>3
  <2> QED BY <2>2, <2>3
<1> QED BY <1>4, <1>6, <1>7 DEF IInv

LEMMA ClaimKeeps ==
  ASSUME DistinctNames, IInv, NEW w \in Workers, NEW j \in Jobs, Claim(w, j)
  PROVE  IInv'
<1> DEFINE r == [jobs[j] EXCEPT !.status = "claimed", !.worker = WorkerName[w]]
           l == [steps |-> jobs[j].steps, step |-> NoStep]
           pc == IF j \in Reanalyze THEN "announce" ELSE "launch"
<1>1. TypeInv /\ WorkInv(j) /\ AliveInv(j) /\ RowInv(j) /\ j \in Jobs
  BY DEF IInv
<1>2. wpc[w] = "poll" /\ jobs[j].status = "pending" /\ jobs[j] \in RowType
  BY <1>1 DEF Claim, TypeInv
<1>3. /\ UNCHANGED <<client, bridge, made, crashes, faults, late>>
      /\ wpc' = [wpc EXCEPT ![w] = pc] /\ cur' = [cur EXCEPT ![w] = j]
      /\ local' = [local EXCEPT ![w] = l]
      /\ jobs' = [jobs EXCEPT ![j] = r]
  BY <1>1 DEF Claim, Goto, budget, TypeInv
<1>4. /\ r \in RowType /\ r.status = "claimed" /\ r.worker = WorkerName[w]
      /\ r.steps = jobs[j].steps /\ r.step = jobs[j].step /\ r.result = jobs[j].result
  BY <1>2 DEF RowType, Held
<1>5. l.steps = jobs[j].steps /\ l.step = NoStep /\ l \in [steps : Seq(StepStates), step : Nat]
  BY <1>2 DEF RowType, NoStep
<1>6. pc \in {"announce", "launch"} /\ (pc = "announce" => j \in Reanalyze) /\ (pc = "launch" => j \in Generate)
  BY <1>1 DEF Jobs
<1> HIDE DEF r, l, pc
<1>7. TypeInv'
  BY <1>1, <1>3, <1>4, <1>5, <1>6 DEF TypeInv, Handling
<1>8. Grows /\ \A v \in Workers : v # w => Stays(v)
  BY <1>1, <1>3 DEF Grows, Stays, TypeInv
<1>9. \A i \in Jobs : i # j => Same(i)
  BY <1>1, <1>3 DEF Same, TypeInv
<1>10. ASSUME NEW v \in Workers, wpc[v] \in Handling PROVE cur[v] # j
  <2>1. HandlerInv(v)
    BY DEF IInv
  <2>2. jobs[cur[v]].status # "pending"
    BY <1>10, <2>1 DEF HandlerInv, Handling, Held, Terminal
  <2> QED BY <1>2, <2>2
<1>11. WorkInv(j)'
  <2>1. jobs'[j].status # "completed" /\ made'[j] >= made[j] /\ bridge'[j] = bridge[j]
    BY <1>1, <1>3, <1>4 DEF TypeInv
  <2> QED BY <1>1, <1>7, <2>1, WorkKept
<1>12. AliveInv(j)'
  <2>1. bridge[j].state \notin Alive
    BY <1>2, <1>10, NotAlive DEF Terminal, Handling
  <2> QED BY <1>3, <2>1 DEF AliveInv
<1>13. RowInv(j)'
  BY <1>1, <1>2, <1>3, <1>4 DEF RowInv, StepsInv, StepsAt, Terminal, TypeInv
<1>14. HandlerInv(w)'
  <2>1. /\ wpc'[w] = pc /\ cur'[w] = j /\ local'[w] = l /\ jobs'[j] = r
    BY <1>1, <1>3 DEF TypeInv
  <2>2. j \in Generate => StepsAt(jobs[j].steps, NoStep)
    BY <1>1, <1>2 DEF RowInv, StepsInv
  <2>3. ~(j \in Generate /\ j \in Reanalyze)
    BY BridgeConstants
  <2> QED BY <1>4, <1>5, <1>6, <2>1, <2>2, <2>3 DEF HandlerInv, StepsAt
<1>15. wpc[w] \notin Handling
  BY <1>2 DEF Handling
<1> QED BY <1>7, <1>8, <1>9, <1>10, <1>11, <1>12, <1>13, <1>14, <1>15, WorkerMoves

LEMMA AnnounceKeeps ==
  ASSUME DistinctNames, IInv, NEW w \in Workers, Announce(w)
  PROVE  IInv'
<1>1. TypeInv /\ wpc[w] = "announce" /\ wpc[w] \in Handling
  BY DEF IInv, Announce, Handling
<1>2. PICK j \in Jobs :
        /\ cur[w] = j /\ jobs[j] \in RowType /\ bridge[j] \in BridgeType /\ made[j] \in Nat
        /\ WorkInv(j) /\ AliveInv(j) /\ RowInv(j) /\ HandlerInv(w)
        /\ \A v \in Workers : v # w /\ wpc[v] \in Handling => cur[v] # j
  BY <1>1, HandlerOf
<1> DEFINE r == [jobs[j] EXCEPT !.status = "running", !.step = 1, !.steps = jobs[j].steps]
<1>3. jobs[j].status = "claimed" /\ j \notin Generate /\ jobs[j].worker = WorkerName[w]
  BY <1>1, <1>2, BridgeConstants DEF HandlerInv
<1>4. /\ UNCHANGED <<client, bridge, made, cur, local, crashes, faults, late>>
      /\ wpc' = [wpc EXCEPT ![w] = "launch"] /\ jobs' = [jobs EXCEPT ![j] = r]
  BY <1>1, <1>2 DEF Announce, Goto, WriteProgress, budget, TypeInv
<1>6. r \in RowType /\ r.status = "running" /\ r.worker = jobs[j].worker
  BY <1>2 DEF RowType, Held
<1> HIDE DEF r
<1>7. TypeInv'
  BY <1>1, <1>2, <1>4, <1>6 DEF TypeInv, Handling
<1>8. Grows /\ \A v \in Workers : v # w => Stays(v)
  BY <1>1, <1>4 DEF Grows, Stays, TypeInv
<1>9. \A i \in Jobs : i # j => Same(i)
  BY <1>1, <1>4 DEF Same, TypeInv
<1>10. jobs'[j] = r /\ wpc'[w] = "launch" /\ cur'[w] = j /\ made'[j] >= made[j] /\ bridge'[j] = bridge[j]
  BY <1>1, <1>2, <1>4 DEF TypeInv
<1>11. WorkInv(j)'
  BY <1>1, <1>2, <1>6, <1>7, <1>10, WorkKept
<1>12. AliveInv(j)'
  <2>1. bridge[j].state \notin Alive
    BY <1>1, <1>2, <1>3, NotAlive DEF Terminal, Handling
  <2> QED BY <1>10, <2>1 DEF AliveInv
<1>13. RowInv(j)'
  BY <1>2, <1>3, <1>4, <1>6, <1>10 DEF RowInv, Terminal
<1>14. HandlerInv(w)'
  BY <1>3, <1>6, <1>10 DEF HandlerInv
<1> QED BY <1>2, <1>7, <1>8, <1>9, <1>11, <1>12, <1>13, <1>14, WorkerMoves

LEMMA LaunchKeeps ==
  ASSUME DistinctNames, IInv, NEW w \in Workers, Launch(w)
  PROVE  IInv'
<1> DEFINE b == [NoBridge EXCEPT !.state = "running", !.by = w, !.reader = TRUE]
<1>1. TypeInv /\ wpc[w] = "launch" /\ wpc[w] \in Handling
  BY DEF IInv, Launch, Handling
<1>2. PICK j \in Jobs :
        /\ cur[w] = j /\ jobs[j] \in RowType /\ bridge[j] \in BridgeType /\ made[j] \in Nat
        /\ WorkInv(j) /\ AliveInv(j) /\ RowInv(j) /\ HandlerInv(w)
        /\ \A v \in Workers : v # w /\ wpc[v] \in Handling => cur[v] # j
  BY <1>1, HandlerOf
<1>3. /\ jobs[j].status \in Held /\ jobs[j].worker = WorkerName[w]
      /\ j \in Generate => StepsAt(local[w].steps, local[w].step)
  BY <1>1, <1>2 DEF HandlerInv, Held
<1>4. /\ UNCHANGED <<jobs, client, made, cur, local, crashes, faults, late>>
      /\ wpc' = [wpc EXCEPT ![w] = "read"] /\ bridge' = [bridge EXCEPT ![j] = b]
  BY <1>2 DEF Launch, Goto, budget
<1>5. <<>> \in Seq(EventType)
  BY EmptySeq
<1>6. /\ b \in BridgeType /\ b.state = "running" /\ b.by = w /\ b.at = 0 /\ b.out = <<>>
      /\ b.ok = FALSE
  BY <1>5 DEF NoBridge, BridgeType, Alive
<1> HIDE DEF b
<1>7. TypeInv'
  BY <1>1, <1>2, <1>4, <1>6 DEF TypeInv, Handling
<1>8. Grows /\ \A v \in Workers : v # w => Stays(v)
  BY <1>1, <1>4 DEF Grows, Stays, TypeInv
<1>9. \A i \in Jobs : i # j => Same(i)
  BY <1>1, <1>4 DEF Same, TypeInv
<1>10. /\ bridge'[j] = b /\ wpc'[w] = "read" /\ cur'[w] = j /\ made'[j] = made[j] /\ jobs'[j] = jobs[j]
       /\ local'[w] = local[w] /\ client'[j] = client[j]
  BY <1>1, <1>2, <1>4 DEF TypeInv
<1>11. WorkInv(j)'
  <2>1. made[j] \in Nat /\ StepCount \in Nat /\ Due(j)' = Due(j)
    BY <1>1, <1>2, BridgeConstants DEF TypeInv, Due
  <2> QED BY <1>2, <1>6, <1>10, <2>1, CarriedEmpty DEF WorkInv
<1>12. AliveInv(j)'
  BY <1>6, <1>10 DEF AliveInv
<1>13. RowInv(j)'
  BY <1>1, <1>2, <1>7, <1>8, <1>10, RowKept
<1>14. HandlerInv(w)'
  BY <1>3, <1>6, <1>10 DEF HandlerInv, StepsAt
<1> QED BY <1>2, <1>7, <1>8, <1>9, <1>11, <1>12, <1>13, <1>14, WorkerMoves

\* The handler of j took an event of this type from the pipe and left b.
Took(j, type, b) ==
    /\ bridge' = [bridge EXCEPT ![j] = b]
    /\ b.state = bridge[j].state /\ b.by = bridge[j].by
    /\ b.at = bridge[j].at /\ b.ok = bridge[j].ok
    /\ Head(bridge[j].out) \in EventType /\ Head(bridge[j].out).type = type
    /\ Carried(bridge[j].out) = {Head(bridge[j].out)} \cup Carried(b.out)

LEMMA Received ==
  ASSUME TypeInv, NEW w \in Workers, NEW j \in Jobs, cur[w] = j, NEW type, Receives(w, type)
  PROVE  \E b \in BridgeType : Took(j, type, b)
<1> DEFINE b == [bridge[j] EXCEPT !.out = Tail(bridge[j].out)]
<1>1. bridge[j] \in BridgeType
  BY DEF TypeInv
<1>2. bridge[j].out \in Seq(EventType)
  BY <1>1 DEF BridgeType
<1>3. bridge[j].out # <<>> /\ Head(bridge[j].out).type = type /\ bridge' = [bridge EXCEPT ![j] = b]
  BY DEF Receives, TypeInv
<1>4. /\ Head(bridge[j].out) \in EventType /\ Tail(bridge[j].out) \in Seq(EventType)
      /\ Carried(bridge[j].out) = {Head(bridge[j].out)} \cup Carried(Tail(bridge[j].out))
  BY <1>2, <1>3, CarriedTail
<1>5. /\ b \in BridgeType /\ b.out = Tail(bridge[j].out) /\ b.state = bridge[j].state
      /\ b.by = bridge[j].by /\ b.at = bridge[j].at /\ b.ok = bridge[j].ok
  BY <1>1, <1>4 DEF BridgeType
<1> HIDE DEF b
<1> QED BY <1>3, <1>4, <1>5 DEF Took

\* The handler w of job j writes r, the row of a finished job, and waits for
\* the bridge or leaves.
LEMMA AnswerKeeps ==
  ASSUME DistinctNames, IInv, NEW w \in Workers, NEW j \in Jobs, cur[w] = j, wpc[w] \in Handling,
         NEW r \in RowType, jobs' = [jobs EXCEPT ![j] = r], r.status \in Terminal,
         r.worker = jobs[j].worker, r.status = "completed" => made[j] >= Due(j),
         NEW b \in BridgeType, bridge' = [bridge EXCEPT ![j] = b], b.at = bridge[j].at,
         Carried(b.out) \subseteq Carried(bridge[j].out),
         UNCHANGED <<client, made, budget>>,
         (Goto(w, "wait") /\ UNCHANGED <<cur, local>>) \/ Leave(w),
         j \in Generate => StepsInv(j)'
  PROVE  IInv'
<1>1. /\ TypeInv /\ WorkInv(j) /\ RowInv(j) /\ HandlerInv(w) /\ made[j] \in Nat
      /\ \A v \in Workers : v # w /\ wpc[v] \in Handling => cur[v] # j
  BY OneHandler DEF IInv, TypeInv
<1>2. NoLocal \in [steps : Seq(StepStates), step : Nat]
  <2>1. <<>> \in Seq(StepStates)
    BY EmptySeq
  <2> QED BY <2>1 DEF NoLocal, NoStep
<1>3. TypeInv'
  BY <1>1, <1>2 DEF TypeInv, Goto, Leave, Forget, Handling, budget
<1>4. /\ (wpc'[w] = "wait" /\ cur'[w] = j) \/ wpc'[w] = "poll"
      /\ \A v \in Workers : v # w => Stays(v)
  BY <1>1 DEF TypeInv, Goto, Leave, Forget, Stays
<1>5. Grows /\ \A i \in Jobs : i # j => Same(i)
  BY <1>1 DEF Grows, Same, TypeInv, budget
<1>6. jobs'[j] = r /\ bridge'[j] = b /\ made'[j] = made[j] /\ client'[j] = client[j]
  BY <1>1 DEF TypeInv
<1>7. WorkInv(j)'
  <2>1. Due(j)' = Due(j)
    BY DEF Due
  <2> QED BY <1>1, <1>6, <2>1 DEF WorkInv
<1>8. AliveInv(j)'
  BY <1>6 DEF AliveInv
<1>9. RowInv(j)'
  <2>1. jobs[j].status # "absent"
    BY <1>1 DEF HandlerInv, Handling, Held, Terminal
  <2> QED BY <1>1, <1>6, <2>1 DEF RowInv, Terminal
<1>10. HandlerInv(w)'
  BY <1>1, <1>4, <1>6 DEF HandlerInv, Handling
<1> QED BY <1>1, <1>3, <1>4, <1>5, <1>7, <1>8, <1>9, <1>10, WorkerMoves

LEMMA ReadResultKeeps ==
  ASSUME DistinctNames, IInv, NEW w \in Workers, ReadResult(w)
  PROVE  IInv'
<1>1. TypeInv /\ wpc[w] = "read" /\ wpc[w] \in Handling
  BY DEF IInv, ReadResult, Receives, Handling
<1>2. PICK j \in Jobs :
        /\ cur[w] = j /\ jobs[j] \in RowType /\ bridge[j] \in BridgeType /\ made[j] \in Nat
        /\ WorkInv(j) /\ AliveInv(j) /\ RowInv(j) /\ HandlerInv(w)
        /\ \A v \in Workers : v # w /\ wpc[v] \in Handling => cur[v] # j
  BY <1>1, HandlerOf
<1> DEFINE steps == FinalizeSteps(local[w].steps, "completed", NoStep)
           r == [jobs[j] EXCEPT !.status = "completed", !.step = NoStep, !.steps = steps,
                                !.result = TRUE, !.error = "none"]
<1>3. j \in Generate /\ StepsAt(local[w].steps, local[w].step)
  BY <1>1, <1>2 DEF ReadResult, HandlerInv
<1>4. steps = [i \in 1..StepCount |-> "completed"]
  BY <1>3, StepsFinished
<1>5. steps \in Seq(StepStates)
  BY <1>4, StepsAreSeq DEF StepStates
<1> HIDE DEF steps
<1>6. /\ r \in RowType /\ r.status = "completed" /\ r.worker = jobs[j].worker /\ r.step = NoStep
      /\ r.steps = steps /\ r.result = TRUE /\ r.error = "none"
  BY <1>2, <1>5 DEF RowType, Terminal, NoStep
<1>7. /\ jobs' = [jobs EXCEPT ![j] = r] /\ Goto(w, "wait")
      /\ UNCHANGED <<client, made, cur, local, budget>>
  BY <1>1, <1>2 DEF ReadResult, WriteCompleted, TypeInv, steps
<1> HIDE DEF r
<1>8. PICK b \in BridgeType : Took(j, "result", b)
  <2>1. Receives(w, "result")
    BY DEF ReadResult
  <2> QED BY <1>1, <1>2, <2>1, Received
<1>9. made[j] >= Due(j)
  BY <1>2, <1>8 DEF WorkInv, Took
<1>10. StepsInv(j)'
  <2>1. jobs'[j] = r
    BY <1>1, <1>7 DEF TypeInv
  <2> QED BY <1>4, <1>6, <2>1 DEF StepsInv
<1>11. /\ Carried(b.out) \subseteq Carried(bridge[j].out) /\ r.status \in Terminal
       /\ bridge' = [bridge EXCEPT ![j] = b] /\ b.at = bridge[j].at
  BY <1>6, <1>8 DEF Terminal, Took
<1> QED BY <1>1, <1>2, <1>6, <1>7, <1>8, <1>9, <1>10, <1>11, AnswerKeeps

\* The row a failure leaves, at the step the handler knows of.
LEMMA FailedRow ==
  ASSUME TypeInv, NEW w \in Workers, NEW j \in Jobs, cur[w] = j,
         StepsAt(local[w].steps, local[w].step), Failed(w, local[w].step)
  PROVE  \E r \in RowType :
           /\ jobs' = [jobs EXCEPT ![j] = r] /\ r.status = "failed"
           /\ r.worker = jobs[j].worker /\ StepsInv(j)'
<1> DEFINE steps == FinalizeSteps(local[w].steps, "failed", local[w].step)
           r == [jobs[j] EXCEPT !.status = "failed", !.step = local[w].step, !.steps = steps,
                                !.error = "failure"]
<1>1. /\ steps \in [1..StepCount -> StepStates]
      /\ \A i, n \in 1..StepCount : i < n /\ steps[i] # "completed" => steps[n] = "pending"
      /\ \A i \in 1..StepCount : steps[i] # "running"
  BY StepsFailed
<1> HIDE DEF steps
<1>2. jobs' = [jobs EXCEPT ![j] = r]
  BY DEF Failed, WriteFailed, TypeInv, steps
<1>3. /\ jobs \in [Jobs -> RowType] /\ jobs[j] \in RowType
      /\ steps \in Seq(StepStates) /\ local[w].step \in Nat
  BY <1>1, StepsAreSeq, StepsAtType DEF TypeInv
<1>4. /\ r \in RowType /\ r.status = "failed" /\ r.worker = jobs[j].worker
      /\ r.steps = steps /\ r.error = "failure"
  BY <1>3 DEF RowType, Terminal
<1> HIDE DEF r
<1>5. jobs'[j] = r
  BY <1>2, <1>3
<1>6. StepsInv(j)'
  BY <1>1, <1>4, <1>5 DEF StepsInv
<1> QED BY <1>2, <1>4, <1>6

LEMMA ReadErrorKeeps ==
  ASSUME DistinctNames, IInv, NEW w \in Workers, ReadError(w)
  PROVE  IInv'
<1>1. TypeInv /\ wpc[w] = "read" /\ wpc[w] \in Handling
  BY DEF IInv, ReadError, Receives, Handling
<1>2. PICK j \in Jobs :
        /\ cur[w] = j /\ jobs[j] \in RowType /\ bridge[j] \in BridgeType /\ made[j] \in Nat
        /\ WorkInv(j) /\ AliveInv(j) /\ RowInv(j) /\ HandlerInv(w)
        /\ \A v \in Workers : v # w /\ wpc[v] \in Handling => cur[v] # j
  BY <1>1, HandlerOf
<1>3. /\ StepsAt(local[w].steps, local[w].step) /\ Failed(w, local[w].step)
      /\ Receives(w, "error") /\ Goto(w, "wait") /\ UNCHANGED <<client, made, cur, local, budget>>
  BY <1>1, <1>2 DEF ReadError, HandlerInv
<1>4. PICK r \in RowType : /\ jobs' = [jobs EXCEPT ![j] = r] /\ r.status = "failed"
                           /\ r.worker = jobs[j].worker /\ StepsInv(j)'
  BY <1>1, <1>2, <1>3, FailedRow
<1>5. PICK b \in BridgeType : Took(j, "error", b)
  BY <1>1, <1>2, <1>3, Received
<1>6. /\ Carried(b.out) \subseteq Carried(bridge[j].out) /\ r.status \in Terminal
      /\ r.status # "completed" /\ bridge' = [bridge EXCEPT ![j] = b] /\ b.at = bridge[j].at
  BY <1>4, <1>5 DEF Terminal, Took
<1> QED BY <1>1, <1>2, <1>3, <1>4, <1>5, <1>6, AnswerKeeps

\* A bridge that ended well has left its result in the pipe: a pipe that is
\* empty then belongs to one that was killed.
LEMMA ReadEndKeeps ==
  ASSUME DistinctNames, IInv, NEW w \in Workers, ReadEnd(w)
  PROVE  IInv'
<1>1. TypeInv /\ wpc[w] = "read" /\ wpc[w] \in Handling
  BY DEF IInv, ReadEnd, PipeEnds, Handling
<1>2. PICK j \in Jobs :
        /\ cur[w] = j /\ jobs[j] \in RowType /\ bridge[j] \in BridgeType /\ made[j] \in Nat
        /\ WorkInv(j) /\ AliveInv(j) /\ RowInv(j) /\ HandlerInv(w)
        /\ \A v \in Workers : v # w /\ wpc[v] \in Handling => cur[v] # j
  BY <1>1, HandlerOf
<1>3. StepsAt(local[w].steps, local[w].step) /\ ~bridge[j].ok
  BY <1>1, <1>2, CarriedEmpty DEF ReadEnd, PipeEnds, HandlerInv
<1>4. /\ Failed(w, local[w].step) /\ Leave(w) /\ UNCHANGED <<client, bridge, made, budget>>
  BY <1>2, <1>3 DEF ReadEnd
<1>5. PICK r \in RowType : /\ jobs' = [jobs EXCEPT ![j] = r] /\ r.status = "failed"
                           /\ r.worker = jobs[j].worker /\ StepsInv(j)'
  BY <1>1, <1>2, <1>3, <1>4, FailedRow
<1>6. r.status \in Terminal /\ r.status # "completed" /\ bridge' = [bridge EXCEPT ![j] = bridge[j]]
  BY <1>1, <1>4, <1>5 DEF Terminal, TypeInv
<1> QED BY <1>1, <1>2, <1>4, <1>5, <1>6, AnswerKeeps

LEMMA ReadReanalysisKeeps ==
  ASSUME DistinctNames, IInv, NEW w \in Workers, ReadReanalysis(w)
  PROVE  IInv'
<1>1. TypeInv /\ wpc[w] = "read" /\ wpc[w] \in Handling
  BY DEF IInv, ReadReanalysis, Receives, PipeEnds, Handling
<1>2. PICK j \in Jobs :
        /\ cur[w] = j /\ jobs[j] \in RowType /\ bridge[j] \in BridgeType /\ made[j] \in Nat
        /\ WorkInv(j) /\ AliveInv(j) /\ RowInv(j) /\ HandlerInv(w)
        /\ \A v \in Workers : v # w /\ wpc[v] \in Handling => cur[v] # j
  BY <1>1, HandlerOf
<1>3. /\ j \notin Generate /\ UNCHANGED <<client, made, budget>>
      /\ jobs \in [Jobs -> RowType] /\ bridge \in [Jobs -> BridgeType]
  BY <1>1, <1>2, BridgeConstants DEF ReadReanalysis, TypeInv
<1>4. CASE /\ Receives(w, "result") /\ WriteCompleted(j, jobs[j].steps)
           /\ Goto(w, "wait") /\ UNCHANGED <<cur, local>>
  <2> DEFINE r == [jobs[j] EXCEPT !.status = "completed", !.step = NoStep,
                                  !.steps = jobs[j].steps, !.result = TRUE, !.error = "none"]
  <2>1. /\ r \in RowType /\ r.status \in Terminal /\ r.worker = jobs[j].worker
    BY <1>2 DEF RowType, Terminal, NoStep
  <2>2. jobs' = [jobs EXCEPT ![j] = r]
    BY <1>3, <1>4 DEF WriteCompleted
  <2> HIDE DEF r
  <2>3. PICK b \in BridgeType : Took(j, "result", b)
    BY <1>1, <1>2, <1>4, Received
  <2>4. /\ made[j] >= Due(j) /\ Carried(b.out) \subseteq Carried(bridge[j].out)
        /\ bridge' = [bridge EXCEPT ![j] = b] /\ b.at = bridge[j].at
    BY <1>2, <2>3 DEF WorkInv, Took
  <2> QED BY <1>1, <1>2, <1>3, <1>4, <2>1, <2>2, <2>3, <2>4, AnswerKeeps
<1>5. CASE /\ WriteFailed(j, 1, jobs[j].steps)
           /\ \/ Receives(w, "error") /\ Goto(w, "wait") /\ UNCHANGED <<cur, local>>
              \/ PipeEnds(w) /\ Leave(w) /\ UNCHANGED bridge
  <2> DEFINE r == [jobs[j] EXCEPT !.status = "failed", !.step = 1, !.steps = jobs[j].steps,
                                  !.error = "failure"]
  <2>1. /\ r \in RowType /\ r.status \in Terminal /\ r.worker = jobs[j].worker
        /\ r.status # "completed"
    BY <1>2 DEF RowType, Terminal
  <2>2. jobs' = [jobs EXCEPT ![j] = r]
    BY <1>3, <1>5 DEF WriteFailed
  <2> HIDE DEF r
  <2>3. PICK b \in BridgeType :
          /\ bridge' = [bridge EXCEPT ![j] = b] /\ b.at = bridge[j].at
          /\ Carried(b.out) \subseteq Carried(bridge[j].out)
    <3>1. CASE Receives(w, "error")
      <4>1. PICK b \in BridgeType : Took(j, "error", b)
        BY <1>1, <1>2, <3>1, Received
      <4> QED BY <4>1 DEF Took
    <3>2. CASE UNCHANGED bridge
      BY <1>2, <1>3, <3>2
    <3> QED BY <1>5, <3>1, <3>2
  <2> QED BY <1>1, <1>2, <1>3, <1>5, <2>1, <2>2, <2>3, AnswerKeeps
<1> QED BY <1>2, <1>4, <1>5 DEF ReadReanalysis

LEMMA ReadProgressKeeps ==
  ASSUME DistinctNames, IInv, NEW w \in Workers, ReadProgress(w)
  PROVE  IInv'
<1>1. TypeInv /\ wpc[w] = "read" /\ wpc[w] \in Handling
  BY DEF IInv, ReadProgress, Receives, Handling
<1>2. PICK j \in Jobs :
        /\ cur[w] = j /\ jobs[j] \in RowType /\ bridge[j] \in BridgeType /\ made[j] \in Nat
        /\ WorkInv(j) /\ AliveInv(j) /\ RowInv(j) /\ HandlerInv(w)
        /\ \A v \in Workers : v # w /\ wpc[v] \in Handling => cur[v] # j
  BY <1>1, HandlerOf
<1> DEFINE k == Head(bridge[j].out).step
           steps == ApplyStepProgress(local[w].steps, k)
           r == [jobs[j] EXCEPT !.status = "running", !.step = k, !.steps = steps]
           l == [steps |-> steps, step |-> k]
<1>3. PICK b \in BridgeType : Took(j, "progress", b)
  <2>1. Receives(w, "progress")
    BY DEF ReadProgress
  <2> QED BY <1>1, <1>2, <2>1, Received
<1>4. j \in Generate /\ k \in 1..StepCount
  BY <1>2, <1>3 DEF WorkInv, Took
<1>5. UNCHANGED <<client, made, wpc, cur, budget>>
  BY DEF ReadProgress
<1>6. /\ jobs' = [jobs EXCEPT ![j] = r] /\ local' = [local EXCEPT ![w] = l]
  BY <1>1, <1>2 DEF ReadProgress, WriteProgress, TypeInv
<1> HIDE DEF k
<1>7. StepsAt(steps, k) /\ jobs[j].status \in Held /\ jobs[j].worker = WorkerName[w]
  BY <1>1, <1>2, <1>4, StepsApplied DEF HandlerInv
<1>8. steps \in Seq(StepStates) /\ k \in Nat /\ k # NoStep
  BY <1>4, <1>7, StepsAtType, StepsAreSeq, BridgeConstants DEF NoStep
<1> HIDE DEF steps
<1>9. /\ r \in RowType /\ r.status = "running" /\ r.worker = jobs[j].worker /\ r.step = k
      /\ r.steps = steps
  BY <1>2, <1>8 DEF RowType, Held
<1>10. l \in [steps : Seq(StepStates), step : Nat] /\ l.steps = steps /\ l.step = k
  BY <1>8
<1> HIDE DEF r, l
<1>11. TypeInv'
  BY <1>1, <1>3, <1>5, <1>6, <1>9, <1>10 DEF TypeInv, budget, Took
<1>12. Grows /\ \A v \in Workers : v # w => Stays(v)
  BY <1>1, <1>5, <1>6 DEF Grows, Stays, TypeInv, budget
<1>13. \A i \in Jobs : i # j => Same(i)
  BY <1>1, <1>3, <1>5, <1>6 DEF Same, TypeInv, Took
<1>14. /\ jobs'[j] = r /\ bridge'[j] = b /\ local'[w] = l /\ made'[j] = made[j]
       /\ wpc'[w] = "read" /\ cur'[w] = j /\ client'[j] = client[j]
       /\ b.by = bridge[j].by /\ b.at = bridge[j].at /\ b.ok = bridge[j].ok
       /\ b.state = bridge[j].state
  BY <1>1, <1>2, <1>3, <1>5, <1>6 DEF TypeInv, Took
<1>15. Carried(bridge[j].out) = {Head(bridge[j].out)} \cup Carried(b.out)
       /\ Head(bridge[j].out).type = "progress"
  BY <1>3 DEF Took
<1>16. WorkInv(j)'
  <2>1. /\ jobs'[j].status # "completed" /\ made'[j] >= made[j]
    BY <1>2, <1>9, <1>14
  <2> QED BY <1>1, <1>2, <1>11, <1>14, <1>15, <2>1, WorkKept
<1>17. AliveInv(j)'
  <2>1. bridge[j].by = w
    BY <1>1, <1>2 DEF HandlerInv
  <2> QED BY <1>14, <2>1 DEF AliveInv
<1>18. RowInv(j)'
  <2>1. client[j] # "idle" /\ client[j] # "done"
    BY <1>2, <1>7 DEF RowInv, Held, Terminal
  <2>2. StepsInv(j)'
    BY <1>7, <1>8, <1>9, <1>14 DEF StepsInv, StepsAt
  <2> QED BY <1>9, <1>14, <2>1, <2>2 DEF RowInv
<1>19. HandlerInv(w)'
  <2>1. b.ok => \E e \in Carried(b.out) : e.type = "result"
    BY <1>1, <1>2, <1>14, <1>15 DEF HandlerInv
  <2>2. bridge[j].by = w
    BY <1>1, <1>2 DEF HandlerInv
  <2> QED BY <1>7, <1>9, <1>10, <1>14, <2>1, <2>2 DEF HandlerInv, StepsAt, Held
<1> QED BY <1>1, <1>2, <1>11, <1>12, <1>13, <1>16, <1>17, <1>18, <1>19, WorkerMoves

LEMMA FailKeeps ==
  ASSUME DistinctNames, IInv, NEW w \in Workers, Fail(w)
  PROVE  IInv'
<1>1. TypeInv /\ wpc[w] = "failing" /\ wpc[w] \in Handling
  BY DEF IInv, Fail, Handling
<1>2. PICK j \in Jobs :
        /\ cur[w] = j /\ jobs[j] \in RowType /\ bridge[j] \in BridgeType /\ made[j] \in Nat
        /\ WorkInv(j) /\ AliveInv(j) /\ RowInv(j) /\ HandlerInv(w)
        /\ \A v \in Workers : v # w /\ wpc[v] \in Handling => cur[v] # j
  BY <1>1, HandlerOf
<1> DEFINE r == [jobs[j] EXCEPT !.status = "failed", !.error = "failure"]
           b == [bridge[j] EXCEPT !.reader = FALSE, !.out = <<>>]
<1>3. /\ jobs' = [jobs EXCEPT ![j] = r] /\ bridge' = [bridge EXCEPT ![j] = b]
      /\ Leave(w) /\ UNCHANGED <<client, made, budget>>
  BY <1>1, <1>2 DEF Fail, TypeInv
<1>4. /\ r \in RowType /\ r.status \in Terminal /\ r.status = "failed" /\ r.worker = jobs[j].worker
      /\ r.steps = jobs[j].steps /\ r.error = "failure"
  BY <1>2 DEF RowType, Terminal
<1>5. /\ b \in BridgeType /\ b.at = bridge[j].at /\ Carried(b.out) \subseteq Carried(bridge[j].out)
  <2>1. <<>> \in Seq(EventType)
    BY EmptySeq
  <2>2. b \in BridgeType /\ b.at = bridge[j].at /\ b.out = <<>>
    BY <1>2, <2>1 DEF BridgeType
  <2> QED BY <2>2, CarriedEmpty
<1> HIDE DEF r, b
<1>6. ASSUME j \in Generate PROVE StepsInv(j)'
  <2>1. jobs'[j] = r /\ faults' = faults
    BY <1>1, <1>3 DEF TypeInv, budget
  <2>2. /\ jobs[j].status \in Held \cup Terminal
        /\ faults = 0 => jobs[j].status \in Terminal
    BY <1>1, <1>2 DEF HandlerInv
  <2>3. StepsInv(j)
    BY <1>2, <1>6 DEF RowInv
  <2>4. \A i, n \in 1..StepCount : i < n /\ jobs[j].steps[i] # "completed"
                                     => jobs[j].steps[n] = "pending"
    BY <2>2, <2>3, BridgeConstants
       DEF StepsInv, StepsAt, DefaultSteps, ApplyStepProgress, Held, Terminal, NoStep
  <2>5. faults = 0 => \A i \in 1..StepCount : jobs[j].steps[i] # "running"
    BY <2>2, <2>3 DEF StepsInv, Terminal
  <2> QED BY <1>4, <2>1, <2>4, <2>5 DEF StepsInv
<1> QED BY <1>1, <1>2, <1>3, <1>4, <1>5, <1>6, AnswerKeeps

\* A handler that leaves, or goes to the except clause, writes nothing yet.
LEMMA HandlerEndsKeeps ==
  ASSUME DistinctNames, IInv, NEW w \in Workers, Wait(w) \/ WaitExpires(w) \/ HandlerRaises(w)
  PROVE  IInv'
<1>1. TypeInv /\ wpc[w] \in Handling
  BY DEF IInv, Wait, WaitExpires, HandlerRaises, Handling
<1>2. PICK j \in Jobs :
        /\ cur[w] = j /\ jobs[j] \in RowType /\ bridge[j] \in BridgeType /\ made[j] \in Nat
        /\ WorkInv(j) /\ AliveInv(j) /\ RowInv(j) /\ HandlerInv(w)
        /\ \A v \in Workers : v # w /\ wpc[v] \in Handling => cur[v] # j
  BY <1>1, HandlerOf
<1>3. UNCHANGED <<jobs, client, bridge, made>>
  BY DEF Wait, WaitExpires, HandlerRaises
<1>4. /\ Grows /\ crashes' \in Nat /\ late' \in Nat /\ faults' \in Nat
      /\ WaitExpires(w) => late' # 0
      /\ HandlerRaises(w) => faults' # 0
  BY <1>1 DEF Wait, WaitExpires, HandlerRaises, budget, Grows, TypeInv
<1>5. NoLocal \in [steps : Seq(StepStates), step : Nat]
  <2>1. <<>> \in Seq(StepStates)
    BY EmptySeq
  <2> QED BY <2>1 DEF NoLocal, NoStep
<1>6. \/ Wait(w) /\ wpc[w] = "wait" /\ wpc' = [wpc EXCEPT ![w] = "poll"] /\ Forget(w)
      \/ /\ wpc' = [wpc EXCEPT ![w] = "failing"] /\ UNCHANGED <<cur, local>>
         /\ \/ WaitExpires(w) /\ wpc[w] = "wait"
            \/ HandlerRaises(w) /\ wpc[w] \in {"announce", "launch", "read"}
  BY DEF Wait, WaitExpires, HandlerRaises, Leave, Goto
<1>7. TypeInv'
  BY <1>1, <1>3, <1>4, <1>5, <1>6 DEF TypeInv, Forget, Handling
<1>8. \A v \in Workers : v # w => Stays(v)
  BY <1>1, <1>6 DEF Stays, Forget, TypeInv
<1>9. \A i \in Jobs : i # j => Same(i)
  BY <1>1, <1>3 DEF Same, TypeInv
<1>10. WorkInv(j)' /\ RowInv(j)'
  <2>1. made'[j] >= made[j]
    BY <1>2, <1>3
  <2> QED BY <1>1, <1>2, <1>3, <1>4, <1>7, <2>1, WorkKept, RowKept
<1>11. CASE Wait(w) /\ wpc[w] = "wait" /\ wpc' = [wpc EXCEPT ![w] = "poll"]
  <2>1. jobs[j].status \in Terminal /\ wpc'[w] = "poll"
    BY <1>1, <1>2, <1>11 DEF HandlerInv, TypeInv
  <2>2. AliveInv(j)' /\ HandlerInv(w)'
    BY <1>3, <2>1 DEF AliveInv, HandlerInv, Handling
  <2> QED BY <1>1, <1>2, <1>4, <1>7, <1>8, <1>9, <1>10, <2>2, WorkerMoves
<1>12. CASE /\ wpc' = [wpc EXCEPT ![w] = "failing"] /\ UNCHANGED <<cur, local>>
            /\ \/ WaitExpires(w) /\ wpc[w] = "wait"
               \/ HandlerRaises(w) /\ wpc[w] \in {"announce", "launch", "read"}
  <2>1. wpc'[w] = "failing" /\ cur'[w] = j /\ jobs' = jobs
    BY <1>1, <1>2, <1>3, <1>12 DEF TypeInv
  <2>2. HandlerInv(w)'
    <3>1. CASE WaitExpires(w) /\ wpc[w] = "wait"
      BY <1>2, <1>4, <2>1, <3>1 DEF HandlerInv, Handling
    <3>2. CASE HandlerRaises(w) /\ wpc[w] \in {"announce", "launch", "read"}
      BY <1>2, <1>4, <2>1, <3>2 DEF HandlerInv, Handling, Held
    <3> QED BY <1>12, <3>1, <3>2
  <2>3. AliveInv(j)'
    <3>1. ASSUME NEW v \in Workers, cur[v] = j, wpc[v] \in {"read", "wait", "failing"}
          PROVE  cur'[v] = j /\ wpc'[v] \in {"read", "wait", "failing"}
      BY <1>8, <2>1, <3>1 DEF Stays
    <3> QED BY <1>2, <1>3, <3>1 DEF AliveInv
  <2> QED BY <1>1, <1>2, <1>4, <1>7, <1>8, <1>9, <1>10, <2>2, <2>3, WorkerMoves
<1> QED BY <1>6, <1>11, <1>12

LEMMA CrashKeeps ==
  ASSUME IInv, NEW w \in Workers, Crash(w)
  PROVE  IInv'
<1> DEFINE dead(i) == [bridge[i] EXCEPT !.state = "exited", !.ok = FALSE, !.out = <<>>]
<1>1. TypeInv
  BY DEF IInv
<1>2. /\ UNCHANGED <<jobs, client, made, faults, late>> /\ crashes' \in Nat
      /\ wpc' = [wpc EXCEPT ![w] = "down"] /\ Forget(w)
      /\ bridge' = [j \in Jobs |-> IF bridge[j].by = w /\ bridge[j].state \in Alive
                                   THEN dead(j) ELSE bridge[j]]
  <2>1. crashes' \in Nat
    <3>1. crashes' = crashes + 1
      BY Zenon DEF Crash
    <3>2. crashes \in Nat
      BY <1>1 DEF TypeInv
    <3> QED BY <3>1, <3>2
  <2>2. /\ UNCHANGED <<jobs, client, made, faults, late>>
        /\ wpc' = [wpc EXCEPT ![w] = "down"] /\ Forget(w)
    BY DEF Crash, Goto
  <2>3. bridge' = [j \in Jobs |-> IF bridge[j].by = w /\ bridge[j].state \in Alive
                                  THEN dead(j) ELSE bridge[j]]
    BY Zenon DEF Crash
  <2> QED BY Zenon, <2>1, <2>2, <2>3
<1>3. ASSUME NEW i \in Jobs
      PROVE  /\ dead(i) \in BridgeType /\ dead(i).state = "exited" /\ dead(i).at = bridge[i].at
             /\ Carried(dead(i).out) \subseteq Carried(bridge[i].out)
  <2>1. bridge[i] \in BridgeType /\ <<>> \in Seq(EventType)
    BY <1>1, EmptySeq DEF TypeInv
  <2>2. dead(i) \in BridgeType /\ dead(i).state = "exited" /\ dead(i).at = bridge[i].at
        /\ dead(i).out = <<>>
    BY <2>1 DEF BridgeType
  <2> QED BY <2>2, CarriedEmpty
<1> HIDE DEF dead
<1>4. NoLocal \in [steps : Seq(StepStates), step : Nat]
  <2>1. <<>> \in Seq(StepStates)
    BY EmptySeq
  <2> QED BY <2>1 DEF NoLocal, NoStep
<1>5. TypeInv'
  <2>1. bridge' \in [Jobs -> BridgeType]
    BY <1>1, <1>2, <1>3 DEF TypeInv
  <2> QED BY <1>1, <1>2, <1>4, <2>1 DEF TypeInv, Forget, Handling
<1>6. wpc'[w] = "down" /\ Grows /\ \A v \in Workers : v # w => Stays(v)
  <2>1. wpc'[w] = "down" /\ Grows
    BY <1>1, <1>2 DEF Grows, TypeInv
  <2>2. \A v \in Workers : v # w => Stays(v)
    BY <1>1, <1>2 DEF Stays, TypeInv, Forget
  <2> QED BY <2>1, <2>2
<1>7. ASSUME NEW i \in Jobs PROVE WorkInv(i)' /\ AliveInv(i)' /\ RowInv(i)'
  <2>1. WorkInv(i) /\ AliveInv(i) /\ RowInv(i) /\ made'[i] >= made[i]
    BY <1>1, <1>2 DEF IInv, TypeInv
  <2>2. /\ bridge'[i].at = bridge[i].at /\ Carried(bridge'[i].out) \subseteq Carried(bridge[i].out)
        /\ bridge'[i].state \in Alive => bridge'[i] = bridge[i] /\ bridge[i].by # w
    BY <1>2, <1>3 DEF Alive
  <2>3. WorkInv(i)' /\ RowInv(i)'
    BY <1>1, <1>2, <1>5, <1>6, <2>1, <2>2, WorkKept, RowKept
  <2>4. AliveInv(i)'
    BY <1>2, <1>6, <2>1, <2>2 DEF AliveInv, Stays
  <2> QED BY <2>3, <2>4
<1>8. ASSUME NEW v \in Workers PROVE HandlerInv(v)'
  <2>1. CASE v = w
    BY <1>6, <2>1 DEF HandlerInv, Handling
  <2>2. CASE v # w
    <3>1. Stays(v) /\ HandlerInv(v)
      BY <1>6, <2>2 DEF IInv
    <3>2. ASSUME wpc[v] = "read" PROVE bridge'[cur[v]] = bridge[cur[v]]
      <4>1. cur[v] \in Jobs /\ bridge[cur[v]].by # w
        BY <1>1, <2>2, <3>1, <3>2 DEF TypeInv, HandlerInv, Handling
      <4> QED BY <1>2, <4>1
    <3> QED BY <1>2, <3>1, <3>2 DEF HandlerInv, Stays, StepsAt
  <2> QED BY <2>1, <2>2
<1> QED BY <1>5, <1>7, <1>8 DEF IInv

-----------------------------------------------------------------------------
(* The invariant and the theorems                                          *)

LEMMA InitIInv == Init => IInv
<1> SUFFICES ASSUME Init PROVE IInv
  OBVIOUS
<1>1. /\ <<>> \in Seq(StepStates) /\ <<>> \in Seq(EventType)
  BY EmptySeq
<1>2. NoRow \in RowType /\ NoRow.status = "absent"
  BY <1>1 DEF NoRow, RowType, NoStep
<1>3. /\ NoBridge \in BridgeType /\ NoBridge.state = "none" /\ NoBridge.at = 0
      /\ NoBridge.out = <<>>
  BY <1>1 DEF NoBridge, BridgeType
<1>4. NoLocal \in [steps : Seq(StepStates), step : Nat]
  BY <1>1 DEF NoLocal, NoStep
<1>5. TypeInv
  BY <1>2, <1>3, <1>4 DEF Init, TypeInv, Handling
<1>6. ASSUME NEW j \in Jobs PROVE WorkInv(j) /\ AliveInv(j) /\ RowInv(j)
  <2>1. jobs[j] = NoRow /\ bridge[j] = NoBridge /\ made[j] = 0 /\ client[j] = "idle"
    BY DEF Init
  <2>2. ~(0 > StepCount)
    BY BridgeConstants
  <2>3. WorkInv(j)
    BY <1>2, <1>3, <2>1, <2>2, CarriedEmpty DEF WorkInv
  <2>4. AliveInv(j) /\ RowInv(j)
    BY <1>2, <1>3, <2>1 DEF AliveInv, RowInv, StepsInv, Alive
  <2> QED BY <2>3, <2>4
<1>7. ASSUME NEW w \in Workers PROVE HandlerInv(w)
  BY DEF Init, HandlerInv, Handling
<1> QED BY <1>5, <1>6, <1>7 DEF IInv

LEMMA UnchangedIInv == ASSUME IInv, UNCHANGED vars PROVE IInv'
<1>1. TypeInv'
  BY DEF IInv, TypeInv, vars, budget
<1>2. ASSUME NEW j \in Jobs PROVE WorkInv(j)' /\ AliveInv(j)' /\ RowInv(j)'
  <2>1. WorkInv(j) /\ AliveInv(j) /\ RowInv(j) /\ TypeInv /\ made[j] \in Nat
    BY DEF IInv, TypeInv
  <2>2. UNCHANGED <<jobs, bridge, made, wpc, cur, client>> /\ Grows /\ made'[j] >= made[j]
    BY <2>1 DEF vars, budget, Grows, TypeInv
  <2> QED BY <1>1, <2>1, <2>2, WorkKept, RowKept DEF AliveInv
<1>3. ASSUME NEW w \in Workers PROVE HandlerInv(w)'
  <2>1. HandlerInv(w) /\ UNCHANGED <<jobs, bridge, wpc, cur, local, faults, late>>
    BY DEF IInv, vars, budget
  <2> QED BY <2>1 DEF HandlerInv, StepsAt
<1> QED BY <1>1, <1>2, <1>3 DEF IInv

LEMMA NextIInv == ASSUME DistinctNames, IInv, [Next]_vars PROVE IInv'
<1>1. CASE UNCHANGED vars
  BY <1>1, UnchangedIInv
<1>2. ASSUME NEW j \in Jobs,
             Post(j) \/ Poll(j) \/ GiveUp(j) \/ BridgeStep(j) \/ BridgeKilled(j)
      PROVE  IInv'
  BY <1>2, ClientStepKeeps, BridgeStepKeeps
<1>3. ASSUME NEW w \in Workers, WorkerStep(w) PROVE IInv'
  BY <1>3, BootKeeps, AnnounceKeeps, LaunchKeeps, ClaimKeeps, ReadProgressKeeps,
     ReadResultKeeps, ReadErrorKeeps, ReadEndKeeps, ReadReanalysisKeeps, HandlerEndsKeeps,
     FailKeeps DEF WorkerStep
<1>4. ASSUME NEW w \in Workers, HandlerRaises(w) \/ Crash(w) PROVE IInv'
  BY <1>4, HandlerEndsKeeps, CrashKeeps
<1> QED BY <1>1, <1>2, <1>3, <1>4 DEF Next

LEMMA Inductive == DistinctNames /\ Spec => []IInv
<1> SUFFICES ASSUME DistinctNames PROVE Spec => []IInv
  OBVIOUS
<1>1. IInv /\ [Next]_vars => IInv'
  BY NextIInv
<1> QED BY <1>1, InitIInv, PTL DEF Spec

\* The steps a client is shown for a generate job agree with the status of
\* its row, however many steps a job has, whichever workers handle it one
\* after the other, and whatever is raised or killed.
THEOREM StepsAlwaysAgree == DistinctNames => (Spec => []StepsAgree)
<1>1. IInv => StepsAgree
  <2> SUFFICES ASSUME IInv, NEW j \in Generate PROVE
        LET r == jobs[j] IN
        /\ r.status \in {"pending", "claimed"} =>
              r.steps = DefaultSteps /\ r.step = NoStep /\ ~r.result
        /\ r.status = "running" =>
              /\ r.step # NoStep
              /\ r.steps = ApplyStepProgress(DefaultSteps, r.step)
        /\ r.status = "completed" =>
              /\ r.steps = [i \in 1..StepCount |-> "completed"]
              /\ r.step = NoStep /\ r.result /\ r.error = "none"
        /\ r.status = "failed" =>
              /\ r.error = "failure"
              /\ \A i, k \in 1..StepCount :
                    i < k /\ r.steps[i] # "completed" => r.steps[k] = "pending"
              /\ faults = 0 => \A i \in 1..StepCount : r.steps[i] # "running"
    BY DEF StepsAgree
  <2>1. StepsInv(j)
    BY DEF IInv, RowInv, Jobs
  <2> QED BY <2>1 DEF StepsInv, StepsAt, NoStep
<1> QED BY <1>1, Inductive, PTL

\* The row of a job says completed only after the work of its answer is done:
\* the bridge may be ahead of its reader, but never behind it.
THEOREM CompletedAlwaysReal == DistinctNames => (Spec => []CompletedIsReal)
<1>1. IInv => CompletedIsReal
  BY DEF IInv, CompletedIsReal, WorkInv, Due
<1> QED BY <1>1, Inductive, PTL

\* No step writes the row of a finished job, but the except clause of a
\* handler that did not see its bridge exit.
LEMMA FinishedRowStays ==
  ASSUME IInv, [Next]_vars, NEW j \in Jobs, jobs[j].status \in Terminal, late' = 0
  PROVE  jobs'[j] = jobs[j]
<1>1. TypeInv /\ RowInv(j) /\ late = 0
  <2>1. late \in Nat /\ (late' = late \/ late' = late + 1)
    <3>1. late \in Nat
      BY DEF IInv, TypeInv
    <3>2. UNCHANGED late \/ \E w \in Workers : WaitExpires(w)
      BY DEF Next, Post, Poll, GiveUp, BridgeStep, BridgeKilled, WorkerStep, Boot, Claim, Announce,
             Launch, ReadProgress, ReadResult, ReadError, ReadEnd, ReadReanalysis, Wait, Fail,
             HandlerRaises, Crash, budget, vars
    <3> QED BY <3>1, <3>2 DEF WaitExpires
  <2> QED BY <2>1 DEF IInv
<1>2. ASSUME NEW w \in Workers, wpc[w] \in {"announce", "read", "failing"}
      PROVE  cur[w] \in Jobs /\ cur[w] # j
  <2>1. HandlerInv(w) /\ cur[w] \in Jobs
    BY <1>1, <1>2 DEF IInv, TypeInv, Handling
  <2>2. cur[w] = j => jobs[j].status \in Held
    BY <1>1, <1>2, <2>1 DEF HandlerInv, Held
  <2> QED BY <2>1, <2>2 DEF Held, Terminal
<1>3. CASE UNCHANGED jobs
  BY <1>3
<1>4. ASSUME NEW i \in Jobs, Post(i) PROVE jobs'[j] = jobs[j]
  <2>1. i # j
    BY <1>1, <1>4 DEF Post, RowInv, Terminal
  <2> QED BY <1>1, <1>4, <2>1 DEF Post, TypeInv
<1>5. ASSUME NEW w \in Workers, Boot(w) PROVE jobs'[j] = jobs[j]
  BY <1>5 DEF Boot, GivenBack, Terminal
<1>6. ASSUME NEW w \in Workers, NEW i \in Jobs, Claim(w, i) PROVE jobs'[j] = jobs[j]
  <2>1. i # j
    BY <1>6 DEF Claim, Terminal
  <2>2. jobs' = [jobs EXCEPT ![i].status = "claimed", ![i].worker = WorkerName[w]]
    BY <1>6 DEF Claim
  <2> QED BY <1>1, <2>1, <2>2 DEF TypeInv
<1>7. ASSUME NEW w \in Workers, Announce(w) PROVE jobs'[j] = jobs[j]
  BY <1>1, <1>2, <1>7 DEF Announce, WriteProgress, TypeInv
<1>8. ASSUME NEW w \in Workers, ReadProgress(w) PROVE jobs'[j] = jobs[j]
  <2>1. cur[w] # j
    BY <1>2, <1>8 DEF ReadProgress, Receives
  <2>2. \E k, steps : WriteProgress(cur[w], k, steps)
    BY <1>8 DEF ReadProgress
  <2> QED BY <1>1, <2>1, <2>2 DEF WriteProgress, TypeInv
<1>9. ASSUME NEW w \in Workers, ReadResult(w) \/ ReadError(w) \/ ReadEnd(w) \/ ReadReanalysis(w)
      PROVE  jobs'[j] = jobs[j]
  <2>1. cur[w] # j
    BY <1>2, <1>9 DEF ReadResult, ReadError, ReadEnd, ReadReanalysis, Receives, PipeEnds
  <2>2. \E k, steps : WriteCompleted(cur[w], steps) \/ WriteFailed(cur[w], k, steps)
    BY <1>9 DEF ReadResult, ReadError, ReadEnd, ReadReanalysis, Failed
  <2> QED BY <1>1, <2>1, <2>2 DEF WriteCompleted, WriteFailed, TypeInv
<1>10. ASSUME NEW w \in Workers, Fail(w) PROVE jobs'[j] = jobs[j]
  <2>1. cur[w] # j
    BY <1>2, <1>10 DEF Fail
  <2> QED BY <1>1, <1>10, <2>1 DEF Fail, TypeInv
<1>11. \/ UNCHANGED jobs
       \/ \E i \in Jobs : Post(i)
       \/ \E w \in Workers : \/ Boot(w) \/ Announce(w) \/ ReadProgress(w) \/ Fail(w)
                             \/ ReadResult(w) \/ ReadError(w) \/ ReadEnd(w) \/ ReadReanalysis(w)
                             \/ \E i \in Jobs : Claim(w, i)
  BY DEF Next, Poll, GiveUp, BridgeStep, BridgeKilled, WorkerStep, Launch, Wait, WaitExpires,
         HandlerRaises, Crash, vars
<1> QED BY <1>3, <1>4, <1>5, <1>6, <1>7, <1>8, <1>9, <1>10, <1>11

\* What a client was answered stays the answer, whatever workers and bridges
\* do later, as long as no bridge outlives the wait for it.
THEOREM AnswerAlwaysStays == DistinctNames => (Spec => AnswerStays)
<1> SUFFICES ASSUME DistinctNames PROVE Spec => AnswerStays
  OBVIOUS
<1>1. ASSUME IInv, [Next]_vars, NEW j \in Jobs, client[j] = "done", late' = 0
      PROVE  View(j)' = View(j)
  <2>1. jobs[j].status \in Terminal
    BY <1>1 DEF IInv, RowInv
  <2>2. jobs'[j] = jobs[j]
    BY <1>1, <2>1, FinishedRowStays
  <2> QED BY <2>2 DEF View, NormalizeJobStatus
<1>2. IInv /\ [Next]_vars =>
        [\A j \in Jobs : client[j] = "done" /\ late' = 0 => View(j)' = View(j)]_vars
  BY <1>1
<1> QED BY <1>2, Inductive, PTL DEF Spec, AnswerStays

\* A bridge that is alive stays the one it is.
LEMMA BridgeStays ==
  ASSUME DistinctNames, IInv, [Next]_vars, NEW j \in Jobs, bridge[j].state \in Alive
  PROVE  bridge'[j].by = bridge[j].by /\ bridge'[j].at >= bridge[j].at
<1>1. TypeInv /\ bridge[j] \in BridgeType
  BY DEF IInv, TypeInv
<1>2. bridge[j].at \in Nat
  BY <1>1 DEF BridgeType
<1>3. CASE UNCHANGED bridge
  BY <1>2, <1>3
<1>4. ASSUME NEW i \in Jobs, BridgeStep(i) \/ BridgeKilled(i)
      PROVE  bridge'[j].by = bridge[j].by /\ bridge'[j].at >= bridge[j].at
  <2>1. PICK b : bridge' = [bridge EXCEPT ![i] = b] /\ Worked(i, b)
    BY <1>4, BridgeWorks DEF IInv
  <2> QED BY <1>1, <1>2, <2>1 DEF Worked, TypeInv
<1>5. ASSUME NEW w \in Workers, Launch(w)
      PROVE  bridge'[j].by = bridge[j].by /\ bridge'[j].at >= bridge[j].at
  <2>1. wpc[w] = "launch" /\ wpc[w] \in Handling
    BY <1>5 DEF Launch, Handling
  <2>2. cur[w] # j
    <3>1. SUFFICES ASSUME cur[w] = j PROVE FALSE
      OBVIOUS
    <3>2. jobs[j].status \notin Terminal
      BY <2>1, <3>1 DEF IInv, HandlerInv, Terminal
    <3>3. PICK v \in Workers : cur[v] = j /\ wpc[v] \in {"read", "wait", "failing"}
      BY <3>2 DEF IInv, AliveInv
    <3>4. wpc[v] \in Handling /\ v # w
      BY <2>1, <3>3 DEF Handling
    <3> QED BY <2>1, <3>1, <3>3, <3>4, OneHandler
  <2> QED BY <1>1, <1>2, <1>5, <2>2 DEF Launch, TypeInv
<1>6. ASSUME NEW w \in Workers, NEW type, Receives(w, type)
      PROVE  bridge'[j].by = bridge[j].by /\ bridge'[j].at >= bridge[j].at
  <2>1. wpc[w] = "read"
    BY <1>6 DEF Receives
  <2>2. cur[w] \in Jobs
    BY <1>1, <2>1 DEF TypeInv, Handling
  <2>3. PICK b : Took(cur[w], type, b)
    BY <1>1, <1>6, <2>2, Received
  <2> QED BY <1>1, <1>2, <2>2, <2>3 DEF Took, TypeInv
<1>7. ASSUME NEW w \in Workers, Fail(w) \/ Crash(w)
      PROVE  bridge'[j].by = bridge[j].by /\ bridge'[j].at >= bridge[j].at
  <2>1. \/ bridge'[j] = [bridge[j] EXCEPT !.reader = FALSE, !.out = <<>>]
        \/ bridge'[j] = [bridge[j] EXCEPT !.state = "exited", !.ok = FALSE, !.out = <<>>]
        \/ bridge'[j] = bridge[j]
    <3>1. CASE Fail(w)
      <4>1. bridge' = [bridge EXCEPT ![cur[w]].reader = FALSE, ![cur[w]].out = <<>>]
        BY <3>1 DEF Fail
      <4> QED BY <1>1, <4>1 DEF TypeInv
    <3>2. CASE Crash(w)
      BY <3>2 DEF Crash
    <3> QED BY <1>7, <3>1, <3>2
  <2>2. bridge'[j].by = bridge[j].by /\ bridge'[j].at = bridge[j].at
    BY <1>1, <2>1 DEF BridgeType
  <2> QED BY <1>2, <2>2
<1>8. \/ UNCHANGED bridge
      \/ \E i \in Jobs : BridgeStep(i) \/ BridgeKilled(i)
      \/ \E w \in Workers : Launch(w) \/ Fail(w) \/ Crash(w) \/ \E type : Receives(w, type)
  BY DEF Next, Post, Poll, GiveUp, WorkerStep, Boot, Claim, Announce, ReadProgress, ReadResult,
         ReadError, ReadEnd, ReadReanalysis, Wait, WaitExpires, HandlerRaises, vars
<1> QED BY <1>3, <1>4, <1>5, <1>6, <1>7, <1>8

\* A job never has two bridges: the one that is alive is neither replaced nor
\* started again, however often workers are killed, boot and claim.
THEOREM BridgesNeverOverlap == DistinctNames => (Spec => BridgesDoNotOverlap)
<1> SUFFICES ASSUME DistinctNames PROVE Spec => BridgesDoNotOverlap
  OBVIOUS
<1>1. IInv /\ [Next]_vars =>
        [\A j \in Jobs : bridge[j].state \in Alive =>
            bridge'[j].by = bridge[j].by /\ bridge'[j].at >= bridge[j].at]_vars
  BY BridgeStays
<1> QED BY <1>1, Inductive, PTL DEF Spec, BridgesDoNotOverlap
=============================================================================
