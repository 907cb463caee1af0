----------------------------- MODULE SpiderRuns -----------------------------
(***************************************************************************)
(* Runs of the spiders of one task name, as far as the failure guard sees  *)
(* them: the launch, which writes the login state of account_states to the *)
(* runtime file (twice: launch_task_process and spider_v2), the question   *)
(* to the guard, the attempts and the outcome recorded.  Runs are separate *)
(* processes; they share the guard's row and the runtime file.             *)
(*                                                                         *)
(* The task either is bound to an account of its own, or uses the default  *)
(* login state; choosing among a pool of accounts or proxies is left out.  *)
(***************************************************************************)
EXTENDS FailureGuard

CONSTANTS
    Runs,           \* processes that may run at the same time
    AttemptLimit,   \* max of the retry limits of accounts and proxies
    MaxLaunches,    \* bound: runs ever launched
    MaxUploads,     \* bound: login states given by the user
    MaxFaults       \* bound: database errors while an outcome is recorded

ASSUME RunConstants ==
    /\ AttemptLimit \in Nat \ {0}
    /\ MaxLaunches \in Nat /\ MaxUploads \in Nat /\ MaxFaults \in Nat
    /\ MaxWrites >= 2 * MaxLaunches     \* so that neither bound of the
    /\ MaxFailures >= MaxLaunches       \* guard ever stops a run

VARIABLES
    ownAccount, \* account_state_file of the task is set
    stored,     \* account_states has the login state
    run,        \* per process: where it is, its attempt, outcomes recorded
    launches, uploads, faults

fixed == <<ownAccount, launches, uploads, faults>>
runVars == <<stored, run, fixed>>
vars == <<guardVars, runVars>>

NoRun == [pc |-> "idle", pass |-> 0, attempt |-> 0, recorded |-> 0, found |-> FALSE]

Init ==
    /\ GuardInit
    /\ ownAccount \in BOOLEAN
    /\ stored = FALSE
    /\ run = [r \in Runs |-> NoRun]
    /\ launches = 0
    /\ uploads = 0
    /\ faults = 0

At(r, pc) == run[r].pc = pc
Goto(r, pc) == run' = [run EXCEPT ![r].pc = pc]

-----------------------------------------------------------------------------
(* The login state                                                         *)

\* The user stores a login state: only the table changes.
Upload ==
    /\ uploads < MaxUploads
    /\ uploads' = uploads + 1
    /\ stored' = TRUE
    /\ streak' = 0
    /\ notices' = 0
    /\ UNCHANGED <<now, mtime, writes, entry, ownAccount, run, launches, faults>>

DeleteState ==
    /\ stored
    /\ stored' = FALSE
    /\ UNCHANGED <<guardVars, run, fixed>>

\* The worker launches a spider.
Launch(r) ==
    /\ At(r, "idle")
    /\ launches < MaxLaunches
    /\ launches' = launches + 1
    /\ run' = [run EXCEPT ![r] = [NoRun EXCEPT !.pc = "clear", !.pass = 1]]
    /\ UNCHANGED <<guardVars, ownAccount, stored, uploads, faults>>

\* materialize_runtime_account_states_sync reads the accounts, removes every
\* account file...
ClearFiles(r) ==
    /\ At(r, "clear")
    /\ mtime' = IF ownAccount THEN 0 ELSE mtime
    /\ run' = [run EXCEPT ![r].pc = "write", ![r].found = stored /\ ownAccount]
    /\ UNCHANGED <<now, writes, entry, streak, notices, stored, fixed>>

\* The login state a launch is about to write was there when it looked.
Found(r) == IF ownAccount THEN run[r].found ELSE stored

\* ...and writes those it has read, then the default login state, which it
\* reads here.  To write the same again is a modification, too.
WriteFiles(r) ==
    /\ At(r, "write")
    /\ IF Found(r)
       THEN /\ writes < MaxWrites
            /\ writes' = writes + 1
            /\ mtime' = writes + 1
       ELSE mtime' = 0 /\ UNCHANGED writes
    /\ run' = [run EXCEPT ![r].pc = IF run[r].pass = 1 THEN "clear" ELSE "ask",
                          ![r].pass = 2, ![r].found = FALSE]
    /\ UNCHANGED <<now, entry, streak, notices, stored, fixed>>

-----------------------------------------------------------------------------
(* scrape_xianyu                                                           *)

\* spider_v2 exits when no task has an account and there is no login state file
\* at all; other tasks may have one, so the run may also go on.
NoLoginState(r) ==
    /\ At(r, "ask")
    /\ ~ownAccount /\ mtime = 0
    /\ Goto(r, "idle")
    /\ UNCHANGED <<guardVars, stored, fixed>>

\* It read the tasks before: by then this one was disabled or deleted.
NotRun(r) ==
    /\ At(r, "ask")
    /\ Goto(r, "idle")
    /\ UNCHANGED <<guardVars, stored, fixed>>

\* A paused task ends its run here.  A task without an account of its own
\* selects the default file, and fails at once if there is none.
Ask(r) ==
    /\ At(r, "ask")
    /\ \E skip \in BOOLEAN :
          /\ ShouldSkipStart(skip)
          /\ run' = [run EXCEPT ![r].pc =
                        IF skip THEN "idle"
                        ELSE IF ~ownAccount /\ mtime = 0 THEN "missing" ELSE "attempt",
                     ![r].attempt = IF skip THEN 0 ELSE 1]
    /\ UNCHANGED <<stored, fixed>>

\* An ordinary exception: the loop goes on, or gives up.
NextAttempt(r) ==
    run' = [run EXCEPT ![r].pc = IF run[r].attempt < AttemptLimit THEN "attempt" ELSE "failed",
                       ![r].attempt = IF @ < AttemptLimit THEN @ + 1 ELSE @]

\* _run_scrape_attempt: without its file it fails; else it succeeds, meets
\* the login page or risk control, or raises.
Attempt(r) ==
    /\ At(r, "attempt")
    /\ \/ mtime # 0 /\ Goto(r, "succeeded")
       \/ mtime # 0 /\ Goto(r, "failed")
       \/ NextAttempt(r)
    /\ UNCHANGED <<guardVars, stored, fixed>>

\* Mutant: success does not leave the loop.
SuccessGoesOn(r) ==
    /\ At(r, "succeeded")
    /\ RecordSuccess
    /\ run' = [run EXCEPT ![r].recorded = @ + 1, ![r].pc = "attempt",
                          ![r].attempt = IF @ < AttemptLimit THEN @ + 1 ELSE @]
    /\ UNCHANGED <<stored, fixed>>

Succeed(r) ==
    /\ At(r, "succeeded")
    /\ RecordSuccess
    /\ run' = [run EXCEPT ![r].recorded = @ + 1, ![r].pc = "idle"]
    /\ UNCHANGED <<stored, fixed>>

\* record_success is inside the try: an error of it is a failed attempt.
SucceedRaises(r) ==
    /\ At(r, "succeeded")
    /\ faults < MaxFaults
    /\ faults' = faults + 1
    /\ NextAttempt(r)
    /\ UNCHANGED <<guardVars, ownAccount, stored, launches, uploads>>

\* _notify_task_failure, which knows no file if none could be selected.
Failed(r) ==
    /\ run[r].pc \in {"missing", "failed"}
    /\ RecordFailure(run[r].pc = "missing", run[r].pc = "failed")
    /\ run' = [run EXCEPT ![r].recorded = @ + 1, ![r].pc = "idle"]
    /\ UNCHANGED <<stored, fixed>>

\* The run is stopped or killed, or recording its failure raises.
Killed(r) ==
    /\ ~At(r, "idle")
    /\ faults < MaxFaults
    /\ faults' = faults + 1
    /\ run' = [run EXCEPT ![r] = NoRun]
    /\ UNCHANGED <<guardVars, ownAccount, stored, launches, uploads>>

RunStep(r) ==
    \/ ClearFiles(r) \/ WriteFiles(r) \/ NoLoginState(r) \/ NotRun(r)
    \/ Ask(r) \/ Attempt(r) \/ Succeed(r) \/ Failed(r)

Next ==
    \/ \E r \in Runs : Launch(r) \/ RunStep(r) \/ SucceedRaises(r) \/ Killed(r)
    \/ Upload \/ DeleteState
    \/ Tick /\ UNCHANGED runVars

Spec == Init /\ [][Next]_vars

-----------------------------------------------------------------------------
(* Properties                                                              *)

\* A run that is neither skipped nor killed tells the guard one outcome,
\* whichever attempt ended it and whatever its attempts met: nothing is
\* counted twice, and no failure is kept from the count.
OneOutcome ==
    [][\A r \in Runs : run[r].pc \notin {"idle", "ask"} /\ faults' = faults =>
          /\ run'[r].recorded <= 1
          /\ run'[r].pc = "idle" => run'[r].recorded = 1]_vars

=============================================================================
