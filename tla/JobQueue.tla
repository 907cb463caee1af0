------------------------------ MODULE JobQueue ------------------------------
(***************************************************************************)
(* What worker_jobs promises: a job is submitted once, is held by at most  *)
(* one worker at a time, and is finished once, by the worker that holds    *)
(* it.  A worker that dies keeps its claim until a worker of its name      *)
(* starts again and gives it back.  No table, list, poll or race is seen.  *)
(***************************************************************************)
CONSTANTS Jobs, Workers, WorkerName, NoJob, NoName

VARIABLES
    status,     \* of each job
    holder,     \* name of the worker that claimed it last
    working     \* the job each worker is handling, or NoJob

vars == <<status, holder, working>>

Init ==
    /\ status = [j \in Jobs |-> "absent"]
    /\ holder = [j \in Jobs |-> NoName]
    /\ working = [w \in Workers |-> NoJob]

Submit(j) ==
    /\ status[j] = "absent"
    /\ status' = [status EXCEPT ![j] = "pending"]
    /\ UNCHANGED <<holder, working>>

Claim(w, j) ==
    /\ working[w] = NoJob
    /\ status[j] = "pending"
    /\ status' = [status EXCEPT ![j] = "claimed"]
    /\ holder' = [holder EXCEPT ![j] = WorkerName[w]]
    /\ working' = [working EXCEPT ![w] = j]

Finish(w, j) ==
    /\ working[w] = j
    /\ status[j] = "claimed"
    /\ holder[j] = WorkerName[w]
    /\ \E s \in {"completed", "failed"} : status' = [status EXCEPT ![j] = s]
    /\ working' = [working EXCEPT ![w] = NoJob]
    /\ UNCHANGED holder

Die(w) ==
    /\ working[w] # NoJob
    /\ working' = [working EXCEPT ![w] = NoJob]
    /\ UNCHANGED <<status, holder>>

Restart(w) ==
    LET stale == {j \in Jobs : status[j] = "claimed" /\ holder[j] = WorkerName[w]} IN
    /\ working[w] = NoJob
    /\ stale # {}
    /\ status' = [j \in Jobs |-> IF j \in stale THEN "pending" ELSE status[j]]
    /\ holder' = [j \in Jobs |-> IF j \in stale THEN NoName ELSE holder[j]]
    /\ UNCHANGED working

Next ==
    \/ \E j \in Jobs : Submit(j)
    \/ \E w \in Workers : Die(w) \/ Restart(w)
    \/ \E w \in Workers, j \in Jobs : Claim(w, j) \/ Finish(w, j)

Spec == Init /\ [][Next]_vars
=============================================================================
