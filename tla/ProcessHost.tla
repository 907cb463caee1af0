---------------------------- MODULE ProcessHost ----------------------------
(***************************************************************************)
(* The web API of radar-probe as a host of spiders: ProcessService, the    *)
(* scheduler, the lifecycle hooks that keep tasks.is_running, the          *)
(* watchdog of the tenants' workspaces, the task requests, and the         *)
(* lifespan that restores the manually started tasks after a restart.      *)
(* Everything runs on one asyncio loop, so a step here reaches from one    *)
(* await to the next; the statements of the database run in threads.       *)
(***************************************************************************)
EXTENDS Naturals, FiniteSets

CONSTANTS
    Tasks,
    Tenants,
    TenantOf,     \* the tenant of a task, or None for a task of nobody
    Cron,         \* tasks with a cron expression
    Procs,        \* bound: spiders alive or watched at the same time
    Requests,     \* HTTP requests served at the same time
    MaxEvents     \* bound: crashes, workspaces closed or opened, tasks edited

None == "none"

ASSUME HostConstants ==
    /\ TenantOf \in [Tasks -> Tenants \cup {None}]
    /\ Cron \subseteq Tasks
    /\ MaxEvents \in Nat

VARIABLES
    host,       \* the lifespan: down, restoring, up, draining, stopping
    todo,       \* tasks the lifespan has still to restore or to stop
    row,        \* the rows of tasks
    open,       \* tenants whose workspace is enabled
    jobs,       \* tasks the scheduler has a job for
    proc,       \* the operating system's processes
    slot,       \* ProcessService.processes
    watch,      \* exit_watchers, by process
    writer,     \* a read, change and REPLACE of a task row in progress
    act,        \* where a request, the scheduler, the watchdog or the lifespan is
    manual,     \* _manual_task_ids
    saved,      \* runtime:manual_running_task_ids in app_metadata
    snapshot,   \* runtime:manual_restart_task_ids in app_metadata
    wanted,     \* history: manual tasks whose spider ran when the host ended
    raced,      \* history: tasks with overlapping starts or surviving spiders
    muddled,    \* history: tasks whose row had overlapping writers
    events      \* what MaxEvents bounds

memory == <<jobs, slot, watch, writer, act, manual>>
metadata == <<saved, snapshot>>
history == <<wanted, raced, muddled>>
vars == <<host, todo, row, open, proc, memory, metadata, history, events>>

Actors == Requests \cup {"cron", "dog", "life"}
Writers == Actors \cup Procs

NoRow == [there |-> FALSE, enabled |-> FALSE, flag |-> FALSE]
NewRow == [there |-> TRUE, enabled |-> TRUE, flag |-> FALSE]
Dead == [state |-> "dead", task |-> None, manual |-> FALSE]
Quiet == [pc |-> "none", task |-> None, flag |-> FALSE, enabled |-> FALSE, edit |-> None]
Idle == [pc |-> "idle", op |-> None, task |-> None, proc |-> None, list |-> {}]

Alive(p) == proc[p].state # "dead"
Running(t) == slot[t] # None /\ Alive(slot[t])
Ended(t) == slot[t] # None /\ ~Alive(slot[t])
Closed(t) == row[t].there /\ TenantOf[t] \in Tenants \ open
Scheduled == {t \in Cron : row[t].there /\ row[t].enabled}

\* A process that nothing refers to any more: its slot can be used again.
Free(p) == ~Alive(p) /\ watch[p] = "none" /\ \A a \in Actors : act[a].proc # p

Starting(t) == {a \in Actors : act[a].task = t /\ act[a].pc \in {"asked", "spawn"}}
Writing(t) == {w \in Writers : writer[w].pc # "none" /\ writer[w].task = t}

\* A writer of t's row begins: the rows are read and replaced as a whole, so
\* one that is in progress already makes the outcome a matter of order.
Muddle(t) == muddled' = IF Writing(t) = {} THEN muddled ELSE muddled \cup {t}

Goto(a, pc) == act' = [act EXCEPT ![a].pc = pc]

-----------------------------------------------------------------------------
(* start_task                                                              *)

\* The call returns to its caller: a request ends, or goes on to delete the
\* row or to the tenant's next task; the lifespan takes the next task, and
\* forgets one it could not restore.
After(a, ok) ==
    /\ act' = [act EXCEPT ![a] =
          CASE act[a].op = "delete" -> [@ EXCEPT !.pc = "drop", !.proc = None]
            [] act[a].op = "close" ->
                 [@ EXCEPT !.pc = "sweep", !.proc = None, !.task = None]
            [] OTHER -> Idle]
    /\ manual' = IF a = "life" /\ host = "restoring" /\ ~ok
                 THEN manual \ {act[a].task} ELSE manual

CheckNothing(a) ==
    LET t == act[a].task IN
    /\ act' = [act EXCEPT ![a].pc = "asked", ![a].proc = None]
    /\ raced' = IF Starting(t) = {} THEN raced ELSE raced \cup {t}
    /\ UNCHANGED manual

\* is_running after the drain; only then does the workspace get asked.
Check(a) ==
    LET t == act[a].task IN
    IF Running(t)
    THEN After(a, FALSE) /\ UNCHANGED raced
    ELSE /\ act' = [act EXCEPT ![a].pc = "asked", ![a].proc = None]
         /\ raced' = IF Starting(t) = {} THEN raced ELSE raced \cup {t}
         /\ UNCHANGED manual

\* _drain_finished_process: a spider that ended and is not taken out yet is
\* waited for, its watcher's hook included.
Begin(a) ==
    LET p == slot[act[a].task] IN
    /\ act[a].pc = "begin"
    /\ IF Ended(act[a].task)
       THEN /\ act' = [act EXCEPT ![a].pc = "drain", ![a].proc = p]
            /\ UNCHANGED <<manual, raced>>
       ELSE Check(a)
    /\ UNCHANGED <<host, todo, row, open, proc, jobs, slot, watch, writer, metadata,
                   wanted, muddled, events>>

Drained(a) ==
    /\ act[a].pc = "drain" /\ watch[act[a].proc] = "none"
    /\ Check(a)
    /\ UNCHANGED <<host, todo, row, open, proc, jobs, slot, watch, writer, metadata,
                   wanted, muddled, events>>

\* The workspace is closed, the failure guard says skip, or the spawn fails.
Refused(a) ==
    /\ act[a].pc = "asked"
    /\ After(a, FALSE)
    /\ UNCHANGED <<host, todo, row, open, proc, jobs, slot, watch, writer, metadata,
                   history, events>>

Spawn(a) ==
    /\ act[a].pc = "asked" /\ ~Closed(act[a].task)
    /\ \E p \in Procs :
         /\ Free(p)
         /\ proc' = [proc EXCEPT ![p] = [state |-> "live", task |-> act[a].task,
                                         manual |-> a # "cron"]]
         /\ act' = [act EXCEPT ![a].pc = "spawn", ![a].proc = p]
    /\ UNCHANGED <<host, todo, row, open, jobs, slot, watch, writer, manual, metadata,
                   history, events>>

RegisterUnwatched(a) ==
    LET t == act[a].task IN
    /\ act[a].pc = "spawn"
    /\ slot' = [slot EXCEPT ![t] = act[a].proc]
    /\ IF a = "cron" THEN UNCHANGED <<manual, saved>>
       ELSE manual' = manual \cup {t} /\ saved' = manual \cup {t}
    /\ act' = [act EXCEPT ![a].pc = "hook", ![a].proc = None]
    /\ writer' = [writer EXCEPT ![a] = [pc |-> "read", task |-> t, flag |-> TRUE,
                                        enabled |-> FALSE, edit |-> "flag"]]
    /\ Muddle(t)
    /\ UNCHANGED <<host, todo, row, open, proc, jobs, watch, snapshot, wanted, raced, events>>

\* _register_runtime, which does not look whether the task got a process while
\* it waited; then the hook on_started.
Register(a) ==
    LET t == act[a].task IN
    /\ act[a].pc = "spawn"
    /\ slot' = [slot EXCEPT ![t] = act[a].proc]
    /\ watch' = [watch EXCEPT ![act[a].proc] = "waiting"]
    /\ IF a = "cron" THEN UNCHANGED <<manual, saved>>
       ELSE manual' = manual \cup {t} /\ saved' = manual \cup {t}
    /\ act' = [act EXCEPT ![a].pc = "hook", ![a].proc = None]
    /\ writer' = [writer EXCEPT ![a] = [pc |-> "read", task |-> t, flag |-> TRUE,
                                        enabled |-> FALSE, edit |-> "flag"]]
    /\ Muddle(t)
    /\ UNCHANGED <<host, todo, row, open, proc, jobs, snapshot, wanted, raced, events>>

-----------------------------------------------------------------------------
(* The hooks and the other writers of a task row                           *)

\* What follows when the row is written, or there is nothing to write: a
\* request that wrote reloads the scheduler, one that found no row is over.
Written(w, done) ==
    /\ writer' = [writer EXCEPT ![w] = Quiet]
    /\ IF w \in Procs
       THEN watch' = [watch EXCEPT ![w] = "none"] /\ UNCHANGED <<act, manual>>
       ELSE /\ IF done /\ act[w].op \in {"patch", "create"}
                 THEN Goto(w, "reload") /\ UNCHANGED manual
                 ELSE After(w, TRUE)
            /\ UNCHANGED watch

\* _sync_task_runtime_status reads the row and stops if the flag is right.
ReadFlag(w) ==
    LET t == writer[w].task IN
    /\ writer[w].pc = "read"
    /\ IF row[t].there /\ row[t].flag # writer[w].flag
       THEN /\ writer' = [writer EXCEPT ![w].pc = "again"]
            /\ UNCHANGED <<watch, act, manual>>
       ELSE Written(w, TRUE)
    /\ UNCHANGED <<host, todo, row, open, proc, jobs, slot, metadata, history, events>>

\* update_task reads the row again, whole; a row that is gone is an error.
ReadRow(w) ==
    LET t == writer[w].task IN
    /\ writer[w].pc = "again"
    /\ IF row[t].there
       THEN /\ writer' = [writer EXCEPT ![w] =
                 IF @.edit = "flag" THEN [@ EXCEPT !.pc = "save", !.enabled = row[t].enabled]
                 ELSE [@ EXCEPT !.pc = "save", !.flag = row[t].flag]]
            /\ UNCHANGED <<watch, act, manual>>
       ELSE Written(w, FALSE)
    /\ UNCHANGED <<host, todo, row, open, proc, jobs, slot, metadata, history, events>>

\* REPLACE INTO tasks: every column as it was read, and the row comes back
\* if it was deleted meanwhile.
Replace(w) ==
    /\ writer[w].pc = "save"
    /\ row' = [row EXCEPT ![writer[w].task] =
                 [there |-> TRUE, enabled |-> writer[w].enabled, flag |-> writer[w].flag]]
    /\ Written(w, TRUE)
    /\ UNCHANGED <<host, todo, open, proc, jobs, slot, metadata, history, events>>

-----------------------------------------------------------------------------
(* The processes and their watchers                                        *)

Die(p) ==
    /\ Alive(p)
    /\ proc' = [proc EXCEPT ![p] = Dead]
    /\ raced' = {t \in raced : Starting(t) # {} \/ \E q \in Procs \ {p} : proc[q].task = t}
    /\ UNCHANGED <<host, todo, row, open, memory, metadata, wanted, muddled, events>>

\* A spider comes to its end by itself.
Exit(p) == proc[p].state = "live" /\ Die(p)

\* SIGTERM, or SIGKILL after the 20 seconds, has its effect.
Killed(p) == proc[p].state = "term" /\ Die(p)

ReapUnhooked(p) ==
    /\ watch[p] = "waiting" /\ ~Alive(p)
    /\ watch' = [watch EXCEPT ![p] = "none"]
    /\ IF \E t \in Tasks : slot[t] = p
       THEN LET t == CHOOSE u \in Tasks : slot[u] = p IN
            /\ slot' = [slot EXCEPT ![t] = None]
            /\ manual' = manual \ {t}
            /\ saved' = IF t \in manual THEN manual \ {t} ELSE saved
       ELSE UNCHANGED <<slot, manual, saved>>
    /\ UNCHANGED <<host, todo, row, open, proc, jobs, writer, act, snapshot, history, events>>

\* _watch_process_exit: the watcher takes its own process out, by identity,
\* and runs the hook on_stopped; of a process that was overwritten in the
\* table it finds no task.
Reap(p) ==
    /\ watch[p] = "waiting" /\ ~Alive(p)
    /\ IF \E t \in Tasks : slot[t] = p
       THEN LET t == CHOOSE u \in Tasks : slot[u] = p IN
            /\ slot' = [slot EXCEPT ![t] = None]
            /\ manual' = manual \ {t}
            /\ saved' = IF t \in manual THEN manual \ {t} ELSE saved
            /\ watch' = [watch EXCEPT ![p] = "hook"]
            /\ writer' = [writer EXCEPT ![p] = [pc |-> "read", task |-> t, flag |-> FALSE,
                                                enabled |-> FALSE, edit |-> "flag"]]
            /\ Muddle(t)
       ELSE /\ watch' = [watch EXCEPT ![p] = "none"]
            /\ UNCHANGED <<slot, manual, saved, writer, muddled>>
    /\ UNCHANGED <<host, todo, row, open, proc, jobs, act, snapshot, wanted, raced, events>>

-----------------------------------------------------------------------------
(* stop_task                                                               *)

Halt(a) ==
    LET p == slot[act[a].task] IN
    /\ act[a].pc = "halt"
    /\ CASE p = None -> After(a, FALSE) /\ UNCHANGED proc
         [] p # None /\ Alive(p) ->
              /\ proc' = [proc EXCEPT ![p].state = "term"]
              /\ act' = [act EXCEPT ![a].pc = "dying", ![a].proc = p]
              /\ UNCHANGED manual
         [] OTHER ->
              /\ act' = [act EXCEPT ![a].pc = "reaping", ![a].proc = p]
              /\ UNCHANGED <<proc, manual>>
    /\ UNCHANGED <<host, todo, row, open, jobs, slot, watch, writer, metadata, history,
                   events>>

\* The drain waited for the watcher of a spider that had ended; the table is
\* looked at again.
Reaped(a) ==
    /\ act[a].pc = "reaping" /\ watch[act[a].proc] = "none"
    /\ act' = [act EXCEPT ![a].pc = "halt", ![a].proc = None]
    /\ UNCHANGED <<host, todo, row, open, proc, jobs, slot, watch, writer, manual, metadata,
                   history, events>>

\* process.wait() wakes the watcher before the stop, so that
\* _await_exit_watcher finds none: the hook on_stopped still runs when
\* stop_task returns.
Halted(a) ==
    /\ act[a].pc = "dying" /\ ~Alive(act[a].proc) /\ watch[act[a].proc] # "waiting"
    /\ After(a, TRUE)
    /\ UNCHANGED <<host, todo, row, open, proc, jobs, slot, watch, writer, metadata, history,
                   events>>

-----------------------------------------------------------------------------
(* The requests of routes/tasks.py and routes/settings.py                  *)

Serve(r, op, t, pc) ==
    /\ host = "up" /\ act[r] = Idle
    /\ act' = [act EXCEPT ![r] = [Idle EXCEPT !.op = op, !.task = t, !.pc = pc]]

RequestStart(r, t) ==
    /\ row[t].there /\ row[t].enabled /\ ~row[t].flag /\ ~Closed(t)
    /\ Serve(r, "start", t, "begin")
    /\ UNCHANGED <<host, todo, row, open, proc, jobs, slot, watch, writer, manual, metadata,
                   history, events>>

RequestStop(r, t) ==
    /\ row[t].there
    /\ Serve(r, "stop", t, "halt")
    /\ UNCHANGED <<host, todo, row, open, proc, jobs, slot, watch, writer, manual, metadata,
                   history, events>>

RequestDelete(r, t) ==
    /\ row[t].there /\ events < MaxEvents
    /\ events' = events + 1
    /\ Serve(r, "delete", t, "halt")
    /\ UNCHANGED <<host, todo, row, open, proc, jobs, slot, watch, writer, manual, metadata,
                   history>>

\* The switch of a task, after the route has read it: update_task.
RequestPatch(r, t) ==
    /\ row[t].there /\ events < MaxEvents
    /\ events' = events + 1
    /\ Serve(r, "patch", t, "hook")
    /\ writer' = [writer EXCEPT ![r] = [pc |-> "again", task |-> t, flag |-> FALSE,
                                        enabled |-> ~row[t].enabled, edit |-> "switch"]]
    /\ Muddle(t)
    /\ UNCHANGED <<host, todo, row, open, proc, jobs, slot, watch, manual, metadata,
                   wanted, raced>>

\* A task is created, by the form or at the end of a generation, with an id no
\* row has when MAX(id) is read, and written with REPLACE like all others.  The
\* id may be the one of a task deleted before, whose spider still runs.
RequestCreate(r, t) ==
    /\ ~row[t].there /\ events < MaxEvents
    /\ events' = events + 1
    /\ Serve(r, "create", t, "hook")
    /\ writer' = [writer EXCEPT ![r] = [pc |-> "save", task |-> t, flag |-> FALSE,
                                        enabled |-> TRUE, edit |-> "create"]]
    /\ muddled' = IF Writing(t) = {} /\ slot[t] = None THEN muddled ELSE muddled \cup {t}
    /\ UNCHANGED <<host, todo, row, open, proc, jobs, slot, watch, manual, metadata,
                   wanted, raced>>

\* delete_task: the row goes whatever the stop said.
Drop(r) ==
    LET t == act[r].task IN
    /\ act[r].pc = "drop"
    /\ row' = [row EXCEPT ![t] = NoRow]
    /\ act' = [act EXCEPT ![r] = IF row[t].there THEN [@ EXCEPT !.pc = "reload"] ELSE Idle]
    /\ UNCHANGED <<host, todo, open, proc, jobs, slot, watch, writer, manual, metadata,
                   history, events>>

\* get_all_tasks, and then reload_jobs with what it returned.
ReadTasks(r) ==
    /\ act[r].pc = "reload"
    /\ act' = [act EXCEPT ![r].pc = "apply", ![r].list = Scheduled]
    /\ UNCHANGED <<host, todo, row, open, proc, jobs, slot, watch, writer, manual, metadata,
                   history, events>>

ReloadJobs(r) ==
    /\ act[r].pc = "apply"
    /\ jobs' = act[r].list
    /\ act' = [act EXCEPT ![r] = Idle]
    /\ UNCHANGED <<host, todo, row, open, proc, slot, watch, writer, manual, metadata,
                   history, events>>

\* An administrator closes a workspace: its running tasks are stopped.
RequestClose(r, n) ==
    /\ n \in open /\ events < MaxEvents
    /\ events' = events + 1
    /\ open' = open \ {n}
    /\ host = "up" /\ act[r] = Idle
    /\ act' = [act EXCEPT ![r] = [Idle EXCEPT !.op = "close", !.pc = "sweep",
                 !.list = {t \in Tasks : slot[t] # None /\ row[t].there /\ TenantOf[t] = n}]]
    /\ UNCHANGED <<host, todo, row, proc, jobs, slot, watch, writer, manual, metadata,
                   history>>

\* stop_tasks_for_tenant comes to the next task that has a process.
Sweep(r) ==
    /\ act[r].pc = "sweep"
    /\ IF act[r].list = {} THEN act' = [act EXCEPT ![r] = Idle]
       ELSE \E t \in act[r].list :
         /\ ~Ended(t)
         /\ act' = [act EXCEPT ![r].list = @ \ {t},
              ![r].pc = IF Running(t) THEN "halt" ELSE "sweep",
              ![r].task = IF Running(t) THEN t ELSE None]
    /\ UNCHANGED <<host, todo, row, open, proc, jobs, slot, watch, writer, manual, metadata,
                   history, events>>

\* The access expires, or is changed through radar-control; or it is opened.
Toggle(n) ==
    /\ events < MaxEvents
    /\ events' = events + 1
    /\ open' = IF n \in open THEN open \ {n} ELSE open \cup {n}
    /\ UNCHANGED <<host, todo, row, proc, memory, metadata, history>>

-----------------------------------------------------------------------------
(* The scheduler and the watchdog                                          *)

CronFires(t) ==
    /\ t \in jobs /\ act["cron"] = Idle
    /\ act' = [act EXCEPT !["cron"] = [Idle EXCEPT !.op = "run", !.task = t, !.pc = "begin"]]
    /\ UNCHANGED <<host, todo, row, open, proc, jobs, slot, watch, writer, manual, metadata,
                   history, events>>

EnforceManual(t) ==
    /\ host \in {"restoring", "up"} /\ act["dog"] = Idle
    /\ Running(t) /\ Closed(t) /\ t \in manual
    /\ act' = [act EXCEPT !["dog"] = [Idle EXCEPT !.op = "round", !.task = t, !.pc = "halt"]]
    /\ UNCHANGED <<host, todo, row, open, proc, jobs, slot, watch, writer, manual, metadata,
                   history, events>>

\* Every 30 seconds _enforce_tenant_workspace_once goes through the tasks that
\* have a process, and stops one that runs for a closed workspace.
Enforce(t) ==
    /\ host \in {"restoring", "up"} /\ act["dog"] = Idle
    /\ Running(t) /\ Closed(t)
    /\ act' = [act EXCEPT !["dog"] = [Idle EXCEPT !.op = "round", !.task = t, !.pc = "halt"]]
    /\ UNCHANGED <<host, todo, row, open, proc, jobs, slot, watch, writer, manual, metadata,
                   history, events>>

-----------------------------------------------------------------------------
(* The lifespan                                                            *)

CutRuns == {t \in Tasks : Running(t) /\ proc[slot[t]].manual}

Forget ==
    /\ jobs' = {} /\ manual' = {}
    /\ slot' = [t \in Tasks |-> None]
    /\ watch' = [p \in Procs |-> "none"]
    /\ writer' = [w \in Writers |-> Quiet]
    /\ act' = [a \in Actors |-> Idle]

\* The flags are reset, the tasks to restore are taken out of the snapshot,
\* or else out of the list of the running ones, and the scheduler and the
\* watchdog start.
Boot ==
    /\ host = "down" /\ host' = "restoring"
    /\ manual' = saved
    /\ todo' = IF snapshot # {} THEN snapshot ELSE saved
    /\ snapshot' = {}
    /\ row' = [t \in Tasks |-> [row[t] EXCEPT !.flag = FALSE]]
    /\ jobs' = Scheduled
    /\ wanted' = {} /\ muddled' = {}
    /\ UNCHANGED <<open, proc, slot, watch, writer, act, saved, raced, events>>

\* restore_manual_tasks: a task that is gone or switched off is forgotten.
Restore(t) ==
    /\ host = "restoring" /\ t \in todo /\ act["life"] = Idle
    /\ todo' = todo \ {t}
    /\ IF row[t].there /\ row[t].enabled
       THEN /\ act' = [act EXCEPT !["life"] = [Idle EXCEPT !.op = "restore", !.task = t,
                                                           !.pc = "begin"]]
            /\ UNCHANGED manual
       ELSE manual' = manual \ {t} /\ UNCHANGED act
    /\ UNCHANGED <<host, row, open, proc, jobs, slot, watch, writer, metadata, history, events>>

Restored ==
    /\ host = "restoring" /\ todo = {} /\ act["life"] = Idle
    /\ host' = "up" /\ saved' = manual
    /\ UNCHANGED <<todo, row, open, proc, memory, snapshot, history, events>>

ShutdownUnsaved ==
    /\ host = "up" /\ host' = "draining"
    /\ \A r \in Requests : act[r] = Idle
    /\ wanted' = CutRuns
    /\ jobs' = {}
    /\ proc' = IF act["cron"].pc = "spawn" THEN [proc EXCEPT ![act["cron"].proc] = Dead]
               ELSE proc
    /\ act' = [act EXCEPT !["cron"] = Idle]
    /\ writer' = [writer EXCEPT !["cron"] = Quiet]
    /\ UNCHANGED <<todo, row, open, slot, watch, manual, metadata, raced, muddled, events>>

\* The end begins when no request is left: the snapshot, then the scheduler,
\* whose start in progress is cancelled with the process it was creating.  If
\* the thread of its hook has begun to write, the row may be written all the same
\* (Replace comes before); the flags are reset at the next start of the host.
Shutdown ==
    /\ host = "up" /\ host' = "draining"
    /\ \A r \in Requests : act[r] = Idle
    /\ snapshot' = manual
    /\ wanted' = CutRuns
    /\ jobs' = {}
    /\ proc' = IF act["cron"].pc = "spawn" THEN [proc EXCEPT ![act["cron"].proc] = Dead]
               ELSE proc
    /\ act' = [act EXCEPT !["cron"] = Idle]
    /\ writer' = [writer EXCEPT !["cron"] = Quiet]
    /\ UNCHANGED <<todo, row, open, slot, watch, manual, saved, raced, muddled, events>>

\* stop_background_tasks waits for the watchdog's round.
StopAll ==
    /\ host = "draining" /\ act["dog"] = Idle
    /\ host' = "stopping"
    /\ todo' = {t \in Tasks : slot[t] # None}
    /\ UNCHANGED <<row, open, proc, memory, metadata, history, events>>

StopNext(t) ==
    /\ host = "stopping" /\ t \in todo /\ act["life"] = Idle
    /\ todo' = todo \ {t}
    /\ act' = [act EXCEPT !["life"] = [Idle EXCEPT !.op = "stop", !.task = t, !.pc = "halt"]]
    /\ UNCHANGED <<host, row, open, proc, jobs, slot, watch, writer, manual, metadata,
                   history, events>>

Stopped ==
    /\ host = "stopping" /\ todo = {} /\ act["life"] = Idle
    /\ host' = "down"
    /\ Forget
    /\ UNCHANGED <<todo, row, open, proc, metadata, history, events>>

\* The host is killed.  Its spiders lead sessions of their own: they go on,
\* unless the whole container goes.
Crash ==
    /\ host # "down" /\ host' = "down" /\ events < MaxEvents
    /\ events' = events + 1
    /\ wanted' = IF host \in {"draining", "stopping"} THEN wanted ELSE CutRuns
    /\ todo' = {}
    /\ Forget
    /\ \/ proc' = [p \in Procs |-> Dead] /\ UNCHANGED raced
       \/ raced' = raced \cup {proc[p].task : p \in {q \in Procs : Alive(q)}} /\ UNCHANGED proc
    /\ UNCHANGED <<row, open, metadata, muddled>>

-----------------------------------------------------------------------------

Init ==
    /\ host = "down" /\ todo = {}
    /\ row \in [Tasks -> {NoRow, NewRow}]
    /\ open = Tenants
    /\ proc = [p \in Procs |-> Dead]
    /\ jobs = {} /\ manual = {}
    /\ slot = [t \in Tasks |-> None]
    /\ watch = [p \in Procs |-> "none"]
    /\ writer = [w \in Writers |-> Quiet]
    /\ act = [a \in Actors |-> Idle]
    /\ saved = {} /\ snapshot = {}
    /\ wanted = {} /\ raced = {} /\ muddled = {}
    /\ events = 0

Starts(a) ==
    Begin(a) \/ Drained(a) \/ Refused(a) \/ Spawn(a) \/ Register(a)

Stops(a) == Halt(a) \/ Reaped(a) \/ Halted(a)

Writes(w) == ReadFlag(w) \/ ReadRow(w) \/ Replace(w)

Request(r) ==
    \/ \E t \in Tasks : \/ RequestStart(r, t) \/ RequestStop(r, t)
                        \/ RequestDelete(r, t) \/ RequestPatch(r, t) \/ RequestCreate(r, t)
    \/ \E n \in Tenants : RequestClose(r, n)
    \/ Sweep(r) \/ Drop(r) \/ ReadTasks(r) \/ ReloadJobs(r)

Lifespan ==
    \/ Boot \/ Restored \/ Shutdown \/ StopAll \/ Stopped
    \/ \E t \in Tasks : Restore(t) \/ StopNext(t)

Next ==
    \/ \E a \in Actors : Starts(a) \/ Stops(a)
    \/ \E w \in Writers : Writes(w)
    \/ \E p \in Procs : Exit(p) \/ Killed(p) \/ Reap(p)
    \/ \E r \in Requests : Request(r)
    \/ \E n \in Tenants : Toggle(n)
    \/ \E t \in Tasks : CronFires(t) \/ Enforce(t)
    \/ Lifespan
    \/ Crash

Spec == Init /\ [][Next]_vars

\* The loop runs what is ready, threads and signals have their effect; no
\* request has to come, no cron has to fire, no spider has to end.
Fairness ==
    /\ \A a \in Actors : WF_vars(Stops(a))
    /\ \A p \in Procs : WF_vars(Killed(p)) /\ WF_vars(Reap(p))
    /\ \A w \in Writers : WF_vars(Writes(w))
    /\ \A t \in Tasks : WF_vars(Enforce(t))

FairSpec == Spec /\ Fairness

-----------------------------------------------------------------------------
(* Properties                                                              *)

Places == {"idle", "begin", "drain", "asked", "spawn", "hook", "halt", "reaping", "dying",
           "drop", "reload", "apply", "sweep"}

\* The shape of the tables and of the coroutines; a task has a process in the
\* table only together with the watcher that will take it out.
TypeOK ==
    /\ host \in {"down", "restoring", "up", "draining", "stopping"}
    /\ \A t \in Tasks : row[t] \in [there : BOOLEAN, enabled : BOOLEAN, flag : BOOLEAN]
    /\ \A t \in Tasks : slot[t] # None => watch[slot[t]] = "waiting"
    /\ \A p \in Procs : (watch[p] = "hook") <=> (writer[p].pc # "none")
    /\ \A a \in Actors : act[a].pc \in Places /\ (act[a].pc = "hook" <=> writer[a].pc # "none")
    /\ manual \subseteq Tasks /\ saved \subseteq Tasks /\ snapshot \subseteq Tasks

\* What was started by hand and ran when the host ended, by a shutdown or by
\* a crash, is on the list of what the next start of the host restores.
CutRunsAreRestored ==
    [][host = "down" /\ host' = "restoring" => wanted \subseteq todo']_vars

\* A spider that is alive is the one the table has for its task, or is just
\* being created, as long as no two starts of the task overlapped and no
\* spider outlived its host: it can be stopped, and its end is noticed.
NoStraySpider ==
    \A p \in Procs : Alive(p) /\ proc[p].task \notin raced =>
        \/ slot[proc[p].task] = p
        \/ \E a \in Actors : act[a].pc = "spawn" /\ act[a].proc = p

\* Once nobody is writing the row, is_running says whether the task has a
\* process, provided that no two writers of the row overlapped since the host
\* was started.
FlagSettles ==
    \A t \in Tasks :
        host = "up" /\ row[t].there /\ Writing(t) = {} /\ t \notin muddled =>
            (row[t].flag <=> slot[t] # None)

\* A workspace that is closed and stays so has its spiders stopped, whoever
\* closed it, while the host stays up.
ClosedTenantStops ==
    \A t \in Tasks :
        host = "up" /\ Closed(t) /\ Running(t) ~> host # "up" \/ ~Closed(t) \/ ~Running(t)
=============================================================================
