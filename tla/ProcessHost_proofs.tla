------------------------- MODULE ProcessHost_proofs -------------------------
(***************************************************************************)
(* Theorems about ProcessHost: for any tasks, tenants and requests, any    *)
(* number of processes, crashes and restarts.                              *)
(***************************************************************************)
EXTENDS ProcessHost, TLAPS

\* Actors, processes and the absent value are told apart by their names.
DistinctNames ==
    /\ Requests \cap {"cron", "dog", "life"} = {}
    /\ Procs \cap Actors = {}
    /\ None \notin Procs

-----------------------------------------------------------------------------
(* The inductive invariant                                                 *)

ProcType == [state : {"live", "term", "dead"}, task : Tasks \cup {None}, manual : BOOLEAN]
WriterType == [pc : {"none", "read", "again", "save"}, task : Tasks \cup {None},
               flag : BOOLEAN, enabled : BOOLEAN, edit : {"flag", "switch", "create", None}]
ActType == [pc : Places,
            op : {"start", "stop", "delete", "patch", "create", "close", "run", "round",
                  "restore", "stop", None},
            task : Tasks \cup {None}, proc : Procs \cup {None}, list : SUBSET Tasks]

TypeInv ==
    /\ host \in {"down", "restoring", "up", "draining", "stopping"}
    /\ todo \subseteq Tasks /\ jobs \subseteq Tasks
    /\ row \in [Tasks -> [there : BOOLEAN, enabled : BOOLEAN, flag : BOOLEAN]]
    /\ proc \in [Procs -> ProcType]
    /\ slot \in [Tasks -> Procs \cup {None}]
    /\ watch \in [Procs -> {"none", "waiting", "hook"}]
    /\ writer \in [Writers -> WriterType]
    /\ act \in [Actors -> ActType]
    /\ manual \subseteq Tasks /\ saved \subseteq Tasks /\ snapshot \subseteq Tasks

\* Where a start, and where a stop, may be.
StartPlaces == {"idle", "begin", "drain", "asked", "spawn", "hook"}
StopPlaces == {"idle", "halt", "reaping", "dying"}

\* Where a coroutine is about one task.
TaskPlaces == {"begin", "drain", "asked", "spawn", "hook", "halt", "reaping", "dying", "drop"}

\* What an actor does at a stage of the host: no request outlives the stage
\* "up", the scheduler and the watchdog end with a shutdown, and the lifespan
\* starts tasks while it restores and stops them while it stops.
Role(a) ==
    /\ a \in Requests /\ host # "up" => act[a].pc = "idle"
    /\ a = "cron" => /\ act[a].pc \in StartPlaces /\ act[a].op \in {"run", None}
                     /\ host \notin {"restoring", "up"} => act[a].pc = "idle"
    /\ a = "dog" => /\ act[a].pc \in StopPlaces /\ act[a].op \in {"round", None}
                    /\ host = "down" => act[a].pc = "idle"
    /\ a = "life" =>
         /\ act[a].op \in {"restore", "stop", None}
         /\ act[a].pc # "idle" => act[a].task \notin todo
         /\ CASE host = "restoring" -> act[a].pc \in StartPlaces
              [] host = "stopping" -> act[a].pc \in StopPlaces
              [] OTHER -> act[a].pc = "idle"

\* The locals of a coroutine; a process that is being created is nobody else's.
ActorInv(a) ==
    /\ Role(a)
    /\ act[a].pc = "hook" <=> writer[a].pc # "none"
    /\ act[a].pc \in TaskPlaces =>
         act[a].task \in Tasks
    /\ act[a].pc \in {"drain", "spawn", "reaping", "dying"} => act[a].proc \in Procs
    /\ act[a].pc = "spawn" =>
         LET p == act[a].proc IN
         /\ watch[p] = "none"
         /\ Alive(p) => proc[p].task = act[a].task /\ (proc[p].manual <=> a # "cron")
         /\ \A b \in Actors : act[b].proc = p => b = a

\* The locals of a writer of a row.
WriterInv(w) ==
    writer[w].pc # "none" =>
      /\ writer[w].task \in Tasks
      /\ writer[w].edit \in {"flag", "switch", "create"}
      /\ writer[w].pc = "read" => writer[w].edit = "flag"
      /\ writer[w].edit = "create" => writer[w].pc = "save"

\* A live process is in the table, or being created, or its task was raced for.
ProcInv(p) ==
    /\ watch[p] = "hook" <=> writer[p].pc # "none"
    /\ Alive(p) => proc[p].task \in Tasks
    /\ Alive(p) => \/ proc[p].task \in raced
                   \/ slot[proc[p].task] = p
                   \/ \E a \in Actors : act[a].pc = "spawn" /\ act[a].proc = p

\* A process in the table has its watcher, and is there for one task.
SlotInv(t) ==
    slot[t] # None => /\ watch[slot[t]] = "waiting"
                      /\ \A u \in Tasks : slot[u] = slot[t] => u = t
\* Where nothing raced, a task has one start at a time, and while it is being
\* started no process but the one of that start.
StartInv(t) ==
    t \notin raced =>
      \A a \in Starting(t) :
        /\ \A b \in Starting(t) : b = a
        /\ \A p \in Procs : Alive(p) /\ proc[p].task = t =>
             act[a].pc = "spawn" /\ act[a].proc = p

\* Where no writers overlapped, the one writer of the row that is about to set
\* the flag has the right value, and the row has it when nobody sets it.
FlagInv(t) ==
    host \in {"restoring", "up"} /\ t \notin muddled =>
      /\ \A v, w \in Writing(t) : v = w
      /\ \A w \in Writing(t) : writer[w].edit = "flag" \/ writer[w].pc = "save" =>
           (writer[w].flag <=> slot[t] # None)
      /\ row[t].there /\ (\A w \in Writing(t) : writer[w].edit = "switch") =>
           (row[t].flag <=> slot[t] # None)

\* What runs and was started by hand is in the list in memory and in the
\* stored one; what has still to be restored does not run yet.
CutInv(t) ==
    host \in {"restoring", "up"} /\ Running(t) /\ proc[slot[t]].manual =>
      /\ t \in manual /\ t \in saved
      /\ host = "restoring" =>
           /\ t \notin todo
           /\ act["life"].task = t => act["life"].pc \in {"idle", "hook"}

\* While the lifespan stops, it has yet to come to whatever is in the table.
StopInv(t) ==
    host = "stopping" =>
      /\ slot[t] # None =>
           t \in todo \/ (act["life"].task = t /\ act["life"].pc # "idle")
      /\ act["life"].pc = "dying" /\ act["life"].task = t =>
           slot[t] \in {None, act["life"].proc}

\* The snapshot is spent when the host runs, and holds what ran when it ends.
HostInv ==
    /\ host \in {"restoring", "up"} => snapshot = {}
    /\ host \in {"draining", "stopping"} => wanted \subseteq snapshot
    /\ host = "down" => wanted \subseteq (IF snapshot # {} THEN snapshot ELSE saved)
    /\ host = "down" => /\ \A t \in Tasks : slot[t] = None
                        /\ \A p \in Procs : watch[p] = "none"
    /\ host \notin {"restoring", "up"} => jobs = {}

IInv ==
    /\ TypeInv /\ HostInv
    /\ \A a \in Actors : ActorInv(a)
    /\ \A w \in Writers : WriterInv(w)
    /\ \A p \in Procs : ProcInv(p)
    /\ \A t \in Tasks : SlotInv(t) /\ StartInv(t) /\ FlagInv(t) /\ CutInv(t) /\ StopInv(t)

-----------------------------------------------------------------------------
(* Names, and what a step leaves alone                                     *)

LEMMA Names ==
  ASSUME DistinctNames
  PROVE  /\ "cron" \in Actors /\ "dog" \in Actors /\ "life" \in Actors
         /\ Requests \subseteq Actors /\ Actors \subseteq Writers /\ Procs \subseteq Writers
         /\ \A a \in Actors : a \notin Procs /\ a \in Requests \cup {"cron", "dog", "life"}
         /\ \A r \in Requests : r # "cron" /\ r # "dog" /\ r # "life"
         /\ None \notin Procs
BY DEF DistinctNames, Actors, Writers

\* The shape of the state, in the pieces the proofs use.
LEMMA Shapes ==
  ASSUME TypeInv
  PROVE  /\ act \in [Actors -> ActType] /\ proc \in [Procs -> ProcType]
         /\ writer \in [Writers -> WriterType] /\ slot \in [Tasks -> Procs \cup {None}]
         /\ watch \in [Procs -> {"none", "waiting", "hook"}]
         /\ row \in [Tasks -> [there : BOOLEAN, enabled : BOOLEAN, flag : BOOLEAN]]
BY DEF TypeInv

LEMMA IdleType ==
  /\ Idle \in ActType /\ Idle.pc = "idle" /\ Idle.op = None /\ Idle.task = None
  /\ Idle.proc = None /\ Idle.list = {}
BY DEF Idle, ActType, Places

\* The flag of a task's row is about the table, the row and its writers.
LEMMA FlagStays ==
  ASSUME IInv, NEW t \in Tasks, host' = host, row' = row, slot' = slot,
         writer' = writer, muddled' = muddled
  PROVE  FlagInv(t)'
BY DEF IInv, FlagInv, Writing

\* A signal is on its way at most: who is alive stays so.
SameProcs ==
    /\ proc' \in [Procs -> ProcType]
    /\ \A p \in Procs : /\ proc'[p].state = "dead" <=> proc[p].state = "dead"
                        /\ proc'[p].task = proc[p].task
                        /\ proc'[p].manual = proc[p].manual

\* What the lifespan has to do with a task, while it does not move itself.
LEMMA LifeStays ==
  ASSUME DistinctNames, IInv, NEW t \in Tasks, act'["life"] = act["life"],
         proc' = proc \/ SameProcs, UNCHANGED <<host, slot, saved, manual, todo>>
  PROVE  CutInv(t)' /\ StopInv(t)'
<1>1. slot[t] \in Procs \cup {None} /\ CutInv(t) /\ StopInv(t)
  BY Shapes DEF IInv
<1>2. StopInv(t)'
  BY <1>1 DEF StopInv
<1>3. Running(t)' => Running(t) /\ proc'[slot[t]].manual = proc[slot[t]].manual
  BY <1>1 DEF Running, Alive, SameProcs
<1>4. CutInv(t)'
  BY <1>1, <1>3 DEF CutInv
<1> QED BY <1>2, <1>4

\* Steps of these variables alone leave the invariant alone.
LEMMA AllStays ==
  ASSUME DistinctNames, IInv, UNCHANGED <<host, todo, row, proc, memory, metadata, history>>
  PROVE  IInv'
<1>1. UNCHANGED <<host, todo, row, proc, jobs, slot, watch, writer, act, manual, saved, snapshot,
                  wanted, raced, muddled>>
  BY DEF memory, metadata, history
<1>2. TypeInv' /\ HostInv'
  BY <1>1 DEF IInv, TypeInv, HostInv
<1>3. ASSUME NEW a \in Actors PROVE ActorInv(a)'
  BY <1>1 DEF IInv, ActorInv, Role, Alive
<1>4. ASSUME NEW w \in Writers PROVE WriterInv(w)'
  BY <1>1 DEF IInv, WriterInv
<1>5. ASSUME NEW p \in Procs PROVE ProcInv(p)'
  BY <1>1 DEF IInv, ProcInv, Alive
<1>6. ASSUME NEW t \in Tasks PROVE SlotInv(t)' /\ StartInv(t)'
  BY <1>1 DEF IInv, SlotInv, StartInv, Starting, Alive
<1>7. ASSUME NEW t \in Tasks PROVE FlagInv(t)' /\ CutInv(t)' /\ StopInv(t)'
  BY <1>1, FlagStays, LifeStays
<1> QED BY <1>2, <1>3, <1>4, <1>5, <1>6, <1>7 DEF IInv

-----------------------------------------------------------------------------
(* A coroutine moves on                                                    *)

\* a moves on, and writes to its own writer; the processes and the table stay.
LEMMA ActWrites ==
  ASSUME DistinctNames, IInv, NEW a \in Actors, NEW new \in ActType, NEW wr \in WriterType,
         act' = [act EXCEPT ![a] = new], writer' = [writer EXCEPT ![a] = wr],
         new.pc = "hook" <=> wr.pc # "none",
         wr.pc # "none" => /\ wr.task \in Tasks /\ wr.edit \in {"flag", "switch", "create"}
                           /\ wr.pc = "read" => wr.edit = "flag"
                           /\ wr.edit = "create" => wr.pc = "save",
         proc' = proc \/ SameProcs, UNCHANGED <<host, slot, watch, saved, snapshot, wanted>>,
         act[a].pc # "spawn", new.pc # "spawn",
         new.pc \in TaskPlaces => new.task \in Tasks,
         new.pc \in {"drain", "reaping", "dying"} => new.proc \in Procs,
         new.proc \in {None, act[a].proc} \/ watch[new.proc] # "none",
         new.pc = "asked" =>
            new.task \in raced' \/ (Starting(new.task) = {} /\ ~ Running(new.task)),
         Role(a)', raced \subseteq raced', todo' \subseteq todo,
         manual' \subseteq Tasks, jobs' \subseteq Tasks,
         host \notin {"restoring", "up"} => jobs' = {},
         row' \in [Tasks -> [there : BOOLEAN, enabled : BOOLEAN, flag : BOOLEAN]],
         \A t \in Tasks : FlagInv(t)' /\ CutInv(t)' /\ StopInv(t)'
  PROVE  IInv'
<1>1. /\ TypeInv /\ HostInv /\ act \in [Actors -> ActType] /\ writer \in [Writers -> WriterType]
      /\ a \in Writers
  BY Names DEF IInv, TypeInv
<1>0. SameProcs
  BY <1>1 DEF SameProcs, TypeInv
<1>2. act'[a] = new /\ \A b \in Actors \ {a} : act'[b] = act[b]
  BY <1>1
<1>3. act' \in [Actors -> ActType] /\ writer' \in [Writers -> WriterType]
  BY <1>1
<1>12. writer'[a] = wr /\ \A w \in Writers \ {a} : writer'[w] = writer[w]
  BY <1>1
<1>4. TypeInv'
  BY <1>0, <1>1, <1>3 DEF TypeInv, SameProcs
<1>5. HostInv'
  BY <1>1 DEF HostInv
<1>6. ASSUME NEW b \in Actors PROVE ActorInv(b)'
  <2>1. CASE b = a
    <3>2. (act[a].pc = "hook" <=> writer[a].pc # "none")'
      BY <1>2, <1>12
    <3>3. (act[a].pc \in TaskPlaces => act[a].task \in Tasks)'
      BY <1>2
    <3>4. (act[a].pc \in {"drain", "spawn", "reaping", "dying"} => act[a].proc \in Procs)'
      BY <1>2
    <3>5. act'[a].pc # "spawn"
      BY <1>2
    <3> QED BY <2>1, <3>2, <3>3, <3>4, <3>5 DEF ActorInv
  <2>2. CASE b # a
    <3>1. ActorInv(b) /\ act'[b] = act[b] /\ writer'[b] = writer[b]
      BY <1>2, <1>12, <2>2, Names DEF IInv
    <3>2. Role(b)'
      BY <3>1 DEF ActorInv, Role
    <3>3. ASSUME act[b].pc = "spawn", NEW c \in Actors, act'[c].proc = act[b].proc PROVE c = b
      <4>1. /\ act[b].proc \in Procs /\ watch[act[b].proc] = "none"
            /\ \A d \in Actors : act[d].proc = act[b].proc => d = b
        BY <3>1, <3>3 DEF ActorInv
      <4>2. CASE c = a
        <5>1. new.proc # None /\ new.proc = act[b].proc
          BY <1>2, <3>3, <4>1, <4>2, Names
        <5>2. new.proc = act[a].proc
          BY <4>1, <5>1
        <5> QED BY <4>1, <4>2, <5>1, <5>2
      <4>3. CASE c # a
        BY <1>2, <3>3, <4>1, <4>3
      <4> QED BY <4>2, <4>3
    <3>4. act[b].pc = "spawn" =>
            /\ act[b].proc \in Procs
            /\ Alive(act[b].proc)' => Alive(act[b].proc)
            /\ proc'[act[b].proc].task = proc[act[b].proc].task
            /\ proc'[act[b].proc].manual = proc[act[b].proc].manual
      BY <1>0, <3>1 DEF ActorInv, SameProcs, Alive
    <3> QED BY <3>1, <3>2, <3>3, <3>4 DEF ActorInv
  <2> QED BY <2>1, <2>2
<1>7. ASSUME NEW w \in Writers PROVE WriterInv(w)'
  <2>1. CASE w = a
    BY <1>12, <2>1 DEF WriterInv
  <2>2. CASE w # a
    <3>1. WriterInv(w) /\ writer'[w] = writer[w]
      BY <1>12, <2>2 DEF IInv
    <3> QED BY <3>1 DEF WriterInv
  <2> QED BY <2>1, <2>2
<1>8. ASSUME NEW p \in Procs PROVE ProcInv(p)'
  <2>1. ProcInv(p) /\ writer'[p] = writer[p]
    BY <1>12, Names DEF IInv
  <2>2. \A b \in Actors : act[b].pc = "spawn" => act'[b] = act[b]
    BY <1>2
  <2> QED BY <1>0, <2>1, <2>2 DEF ProcInv, Alive, SameProcs
<1>9. ASSUME NEW t \in Tasks PROVE SlotInv(t)'
  BY DEF IInv, SlotInv
<1>10. ASSUME NEW t \in Tasks, t \notin raced', NEW b \in Starting(t)'
       PROVE  /\ \A c \in Starting(t)' : c = b
              /\ \A p \in Procs : Alive(p) /\ proc[p].task = t =>
                    act'[b].pc = "spawn" /\ act'[b].proc = p
  <2>1. StartInv(t) /\ t \notin raced
    BY <1>10 DEF IInv
  <2>2. CASE a \notin Starting(t)'
    <3>1. ASSUME NEW c \in Starting(t)' PROVE c \in Starting(t) /\ act'[c] = act[c]
      <4>1. c # a /\ c \in Actors
        BY <2>2, <3>1 DEF Starting
      <4> QED BY <1>2, <3>1, <4>1 DEF Starting
    <3> QED BY <1>10, <2>1, <3>1 DEF StartInv
  <2>3. CASE a \in Starting(t)'
    <3>1. new.pc = "asked" /\ new.task = t
      BY <1>2, <2>3 DEF Starting
    <3>2. Starting(t) = {} /\ ~ Running(t)
      BY <1>10, <3>1
    <3>3. \A c \in Starting(t)' : c = a
      BY <1>2, <3>2 DEF Starting
    <3>4. ASSUME NEW p \in Procs, Alive(p), proc[p].task = t PROVE FALSE
      <4>1. ProcInv(p) /\ \A c \in Actors : ActorInv(c)
        BY DEF IInv
      <4>2. CASE slot[t] = p
        BY <3>2, <3>4, <4>2, Names DEF Running
      <4>3. CASE \E c \in Actors : act[c].pc = "spawn" /\ act[c].proc = p
        BY <3>2, <3>4, <4>1, <4>3 DEF ActorInv, Starting
      <4> QED BY <2>1, <3>4, <4>1, <4>2, <4>3 DEF ProcInv
    <3> QED BY <1>10, <3>3, <3>4
  <2> QED BY <2>2, <2>3
<1>11. ASSUME NEW t \in Tasks PROVE StartInv(t)'
  BY <1>0, <1>10 DEF StartInv, Alive, SameProcs
<1> QED BY <1>4, <1>5, <1>6, <1>7, <1>8, <1>9, <1>11 DEF IInv

\* a moves on, and the processes, the table and the writers stay.
LEMMA ActMoves ==
  ASSUME DistinctNames, IInv, NEW a \in Actors, NEW new \in ActType,
         act' = [act EXCEPT ![a] = new],
         proc' = proc \/ SameProcs, UNCHANGED <<host, slot, watch, writer, saved, snapshot, wanted>>,
         act[a].pc \notin {"spawn", "hook"}, new.pc \notin {"spawn", "hook"},
         new.pc \in TaskPlaces => new.task \in Tasks,
         new.pc \in {"drain", "reaping", "dying"} => new.proc \in Procs,
         new.proc \in {None, act[a].proc} \/ watch[new.proc] # "none",
         new.pc = "asked" =>
            new.task \in raced' \/ (Starting(new.task) = {} /\ ~ Running(new.task)),
         Role(a)', raced \subseteq raced', todo' \subseteq todo,
         manual' \subseteq Tasks, jobs' \subseteq Tasks,
         host \notin {"restoring", "up"} => jobs' = {},
         row' \in [Tasks -> [there : BOOLEAN, enabled : BOOLEAN, flag : BOOLEAN]],
         \A t \in Tasks : FlagInv(t)' /\ CutInv(t)' /\ StopInv(t)'
  PROVE  IInv'
<1>1. /\ writer \in [Writers -> WriterType] /\ a \in Writers /\ ActorInv(a)
  BY Names DEF IInv, TypeInv
<1> DEFINE wr == writer[a]
<1>2. wr \in WriterType /\ wr.pc = "none" /\ writer' = [writer EXCEPT ![a] = wr]
  BY <1>1 DEF ActorInv
<1> HIDE DEF wr
<1>3. new.pc = "hook" <=> wr.pc # "none"
  BY <1>2
<1>4. UNCHANGED <<host, slot, watch, saved, snapshot, wanted>>
  OBVIOUS
<1>5. act[a].pc # "spawn" /\ new.pc # "spawn"
  OBVIOUS
<1> QED BY <1>2, <1>3, <1>4, <1>5, ActWrites

\* The call of a start or a stop returns.
LEMMA AfterKeeps ==
  ASSUME DistinctNames, IInv, NEW a \in Actors, NEW ok \in BOOLEAN, After(a, ok),
         act[a].pc \in {"begin", "drain", "asked", "halt", "dying"},
         a = "life" /\ host = "stopping" => slot[act[a].task] = None,
         UNCHANGED <<host, todo, row, proc, jobs, slot, watch, writer, metadata, wanted,
                     raced, muddled>>
  PROVE  IInv'
<1>1. /\ TypeInv /\ HostInv /\ ActorInv(a) /\ act[a] \in ActType /\ act \in [Actors -> ActType]
      /\ act[a].task \in Tasks
  BY DEF IInv, TypeInv, ActorInv, TaskPlaces
<1>2. PICK new \in ActType : /\ act' = [act EXCEPT ![a] = new]
                             /\ new.proc = None /\ new.pc \in {"drop", "sweep", "idle"}
                             /\ new.pc = "drop" => new.task = act[a].task
                             /\ act[a].op \notin {"delete", "close"} => new = Idle
  <2>1. CASE act[a].op = "delete"
    <3> DEFINE new == [act[a] EXCEPT !.pc = "drop", !.proc = None]
    <3>1. act' = [act EXCEPT ![a] = new]
      BY <2>1 DEF After
    <3>2. new \in ActType /\ new.proc = None /\ new.pc = "drop" /\ new.task = act[a].task
      BY <1>1 DEF ActType, Places
    <3> QED BY <2>1, <3>1, <3>2
  <2>2. CASE act[a].op = "close"
    <3> DEFINE new == [act[a] EXCEPT !.pc = "sweep", !.proc = None, !.task = None]
    <3>1. act' = [act EXCEPT ![a] = new]
      BY <2>2 DEF After
    <3>2. new \in ActType /\ new.proc = None /\ new.pc = "sweep"
      BY <1>1 DEF ActType, Places
    <3> QED BY <2>2, <3>1, <3>2
  <2>3. CASE act[a].op \notin {"delete", "close"}
    <3>1. act' = [act EXCEPT ![a] = Idle]
      BY <2>3 DEF After
    <3> QED BY <2>3, <3>1, IdleType
  <2> QED BY <2>1, <2>2, <2>3
<1>5. act'[a] = new /\ \A b \in Actors \ {a} : act'[b] = act[b]
  BY <1>1, <1>2
<1>6. Role(a)'
  <2>1. Role(a)
    BY <1>1 DEF ActorInv
  <2>2. CASE a \in Requests
    BY <1>5, <2>1, <2>2, Names DEF Role
  <2>3. CASE a \in {"cron", "dog", "life"}
    <3>1. act'[a] = Idle
      BY <1>2, <1>5, <2>1, <2>3 DEF Role, None
    <3> QED BY <2>1, <2>3, <3>1, IdleType DEF Role, StartPlaces, StopPlaces
  <2> QED BY <2>2, <2>3, Names
<1>7. ASSUME NEW t \in Tasks PROVE CutInv(t)' /\ StopInv(t)'
  <2>1. CutInv(t) /\ StopInv(t)
    BY DEF IInv
  <2>2. CASE a # "life"
    <3>1. manual' = manual /\ act'["life"] = act["life"]
      BY <1>5, <2>2, Names DEF After
    <3> QED BY <3>1, LifeStays DEF metadata
  <2>3. CASE a = "life"
    <3>1. act'["life"] = Idle
      BY <1>1, <1>2, <1>5, <2>3 DEF ActorInv, Role, None
    <3>2. manual' = manual \/ (host = "restoring" /\ manual' = manual \ {act["life"].task})
      BY <2>3 DEF After
    <3>3. CutInv(t)'
      BY <1>1, <2>1, <2>3, <3>1, <3>2, IdleType DEF CutInv, Running, Alive, metadata
    <3>4. StopInv(t)'
      BY <2>1, <2>3, <3>1, IdleType DEF StopInv
    <3> QED BY <3>3, <3>4
  <2> QED BY <2>2, <2>3
<1>8. manual' \subseteq Tasks
  BY <1>1 DEF After, TypeInv
<1>9. ASSUME NEW t \in Tasks PROVE FlagInv(t)'
  BY FlagStays
<1>10. new.pc \in TaskPlaces => new.task \in Tasks
  BY <1>1, <1>2 DEF TaskPlaces
<1> QED BY <1>1, <1>2, <1>6, <1>7, <1>8, <1>9, <1>10, ActMoves DEF metadata, TypeInv, HostInv

\* A move of a coroutine other than the lifespan's, or of the lifespan's that
\* leaves its task alone.
LEMMA StepMoves ==
  ASSUME DistinctNames, IInv, NEW a \in Actors, NEW new \in ActType,
         act' = [act EXCEPT ![a] = new],
         proc' = proc \/ SameProcs, UNCHANGED <<host, todo, row, jobs, slot, watch, writer, manual, metadata,
                     wanted, muddled>>,
         act[a].pc \notin {"spawn", "hook"}, new.pc \notin {"spawn", "hook"},
         new.pc \in TaskPlaces => new.task \in Tasks,
         new.pc \in {"drain", "reaping", "dying"} => new.proc \in Procs,
         new.proc \in {None, act[a].proc} \/ watch[new.proc] # "none",
         new.pc = "asked" =>
            new.task \in raced' \/ (Starting(new.task) = {} /\ ~ Running(new.task)),
         Role(a)', raced \subseteq raced',
         a = "life" => /\ act[a].pc # "idle" /\ new.pc # "idle"
                       /\ new.pc = "dying" => new.proc = slot[new.task]
                       /\ new.task = act[a].task
  PROVE  IInv'
<1>1. act \in [Actors -> ActType] /\ TypeInv /\ HostInv
  BY DEF IInv, TypeInv
<1>2. act'[a] = new /\ \A b \in Actors \ {a} : act'[b] = act[b]
  BY <1>1
<1>3. ASSUME NEW t \in Tasks PROVE CutInv(t)' /\ StopInv(t)'
  <2>1. CASE a # "life"
    BY <1>2, <2>1, LifeStays, Names DEF metadata
  <2>2. CASE a = "life"
    <3>1. CutInv(t) /\ StopInv(t) /\ slot[t] \in Procs \cup {None}
      BY <1>1, Shapes DEF IInv
    <3>2. StopInv(t)'
      BY <1>2, <2>2, <3>1 DEF StopInv, metadata
    <3>3. Running(t)' => Running(t) /\ proc'[slot[t]].manual = proc[slot[t]].manual
      BY <3>1 DEF Running, Alive, SameProcs
    <3>4. CutInv(t)'
      BY <1>2, <2>2, <3>1, <3>3 DEF CutInv, metadata
    <3> QED BY <3>2, <3>4
  <2> QED BY <2>1, <2>2
<1>4. ASSUME NEW t \in Tasks PROVE FlagInv(t)'
  BY FlagStays
<1> QED BY <1>1, <1>3, <1>4, ActMoves DEF metadata, TypeInv, HostInv

LEMMA CheckKeeps ==
  ASSUME DistinctNames, IInv, NEW a \in Actors, act[a].pc \in {"begin", "drain"}, Check(a),
         UNCHANGED <<host, todo, row, proc, jobs, slot, watch, writer, metadata, wanted, muddled>>
  PROVE  IInv'
<1>1. /\ TypeInv /\ ActorInv(a) /\ act[a] \in ActType /\ act \in [Actors -> ActType]
      /\ act[a].task \in Tasks
  BY DEF IInv, TypeInv, ActorInv, TaskPlaces
<1>2. CASE Running(act[a].task)
  <2>1. After(a, FALSE) /\ UNCHANGED raced
    BY <1>2 DEF Check
  <2>2. a = "life" => host # "stopping"
    BY <1>1 DEF ActorInv, Role, StopPlaces
  <2> QED BY <2>1, <2>2, AfterKeeps
<1>3. CASE ~ Running(act[a].task)
  <2> DEFINE new == [act[a] EXCEPT !.pc = "asked", !.proc = None]
  <2>1. /\ act' = [act EXCEPT ![a] = new] /\ UNCHANGED manual
        /\ raced' = IF Starting(act[a].task) = {} THEN raced ELSE raced \cup {act[a].task}
    BY <1>1, <1>3 DEF Check
  <2>2. /\ new \in ActType /\ new.pc = "asked" /\ new.proc = None
        /\ new.task = act[a].task /\ new.op = act[a].op
    BY <1>1 DEF ActType, Places
  <2> HIDE DEF new
  <2>3. act'[a] = new
    BY <1>1, <2>1
  <2>4. Role(a)'
    <3>1. Role(a)
      BY <1>1 DEF ActorInv
    <3> QED BY <2>2, <2>3, <3>1, Names DEF Role, StartPlaces, StopPlaces
  <2>5. raced \subseteq raced'
    BY <2>1
  <2>6. new.task \in raced' \/ (Starting(new.task) = {} /\ ~ Running(new.task))
    BY <1>3, <2>1, <2>2
  <2> QED BY <1>1, <2>1, <2>2, <2>4, <2>5, <2>6, StepMoves
<1> QED BY <1>2, <1>3

LEMMA BeginKeeps == ASSUME DistinctNames, IInv, NEW a \in Actors, Begin(a) PROVE IInv'
<1>1. /\ TypeInv /\ ActorInv(a) /\ act[a] \in ActType /\ act \in [Actors -> ActType]
      /\ act[a].pc = "begin" /\ act[a].task \in Tasks
  BY DEF IInv, TypeInv, ActorInv, Begin, TaskPlaces
<1>2. UNCHANGED <<host, todo, row, proc, jobs, slot, watch, writer, metadata, wanted, muddled>>
  BY DEF Begin
<1>3. CASE Ended(act[a].task)
  <2> DEFINE p == slot[act[a].task]
             new == [act[a] EXCEPT !.pc = "drain", !.proc = p]
  <2>1. act' = [act EXCEPT ![a] = new] /\ UNCHANGED <<manual, raced>>
    BY <1>1, <1>3 DEF Begin
  <2>2. p \in Procs /\ watch[p] # "none"
    BY <1>1, <1>3, Shapes DEF Ended, IInv, SlotInv
  <2> HIDE DEF p
  <2>3. /\ new \in ActType /\ new.pc = "drain" /\ new.proc = p
        /\ new.task = act[a].task /\ new.op = act[a].op
    BY <1>1, <2>2 DEF ActType, Places
  <2> HIDE DEF new
  <2>4. act'[a] = new
    BY <1>1, <2>1
  <2>5. Role(a)'
    <3>1. Role(a)
      BY <1>1 DEF ActorInv
    <3> QED BY <1>1, <1>2, <2>3, <2>4, <3>1, Names DEF Role, StartPlaces, StopPlaces
  <2> QED BY <1>1, <1>2, <2>1, <2>2, <2>3, <2>5, StepMoves
<1>4. CASE ~ Ended(act[a].task)
  BY <1>1, <1>2, <1>4, CheckKeeps DEF Begin
<1> QED BY <1>3, <1>4

LEMMA ReturnsKeep ==
  ASSUME DistinctNames, IInv, NEW a \in Actors, Drained(a) \/ Refused(a) \/ Halted(a)
  PROVE  IInv'
<1>1. CASE Drained(a)
  BY <1>1, CheckKeeps DEF Drained
<1>2. CASE Refused(a)
  <2>1. a = "life" => host # "stopping"
    BY <1>2 DEF Refused, IInv, ActorInv, Role, StopPlaces
  <2> QED BY <1>2, <2>1, AfterKeeps DEF Refused, history
<1>3. CASE Halted(a)
  <2>1. a = "life" /\ host = "stopping" => slot[act[a].task] = None
    <3> SUFFICES ASSUME a = "life", host = "stopping" PROVE slot[act[a].task] = None
      OBVIOUS
    <3>1. act[a].task \in Tasks /\ act[a].proc \in Procs
      BY <1>3 DEF Halted, IInv, ActorInv, TaskPlaces
    <3>2. SlotInv(act[a].task) /\ StopInv(act[a].task)
      BY <3>1 DEF IInv
    <3> QED BY <1>3, <3>1, <3>2, Names DEF Halted, SlotInv, StopInv
  <2> QED BY <1>3, <2>1, AfterKeeps DEF Halted, history
<1> QED BY <1>1, <1>2, <1>3

LEMMA ReapedKeeps == ASSUME DistinctNames, IInv, NEW a \in Actors, Reaped(a) PROVE IInv'
<1>1. /\ TypeInv /\ ActorInv(a) /\ act[a] \in ActType /\ act \in [Actors -> ActType]
      /\ act[a].pc = "reaping" /\ act[a].task \in Tasks
  BY DEF IInv, TypeInv, ActorInv, Reaped, TaskPlaces
<1> DEFINE new == [act[a] EXCEPT !.pc = "halt", !.proc = None]
<1>2. /\ act' = [act EXCEPT ![a] = new]
      /\ UNCHANGED <<host, todo, row, proc, jobs, slot, watch, writer, manual, metadata, history>>
  BY <1>1 DEF Reaped
<1>3. /\ new \in ActType /\ new.pc = "halt" /\ new.proc = None
      /\ new.task = act[a].task /\ new.op = act[a].op
  BY <1>1 DEF ActType, Places
<1> HIDE DEF new
<1>4. act'[a] = new
  BY <1>1, <1>2
<1>5. Role(a)'
  <2>1. Role(a)
    BY <1>1 DEF ActorInv
  <2> QED BY <1>1, <1>2, <1>3, <1>4, <2>1, Names DEF Role, StartPlaces, StopPlaces
<1> QED BY <1>1, <1>2, <1>3, <1>5, StepMoves DEF history

\* A request begins, or moves between steps that are about the tasks as a
\* whole.  It may write a row if nobody else is about it.
LEMMA RequestMoves ==
  ASSUME DistinctNames, IInv, NEW r \in Requests, NEW new \in ActType,
         act' = [act EXCEPT ![r] = new], host = "up" \/ act[r].pc # "idle",
         act[r].pc \in {"idle", "drop", "reload", "apply", "sweep"},
         new.pc \in {"idle", "begin", "halt", "drop", "reload", "apply", "sweep"},
         new.pc \in TaskPlaces => new.task \in Tasks,
         new.proc \in {None, act[r].proc},
         UNCHANGED <<host, todo, proc, slot, watch, writer, manual, metadata, wanted, raced>>,
         jobs' \subseteq Tasks,
         row' \in [Tasks -> [there : BOOLEAN, enabled : BOOLEAN, flag : BOOLEAN]],
         \A t \in Tasks : FlagInv(t)'
  PROVE  IInv'
<1>1. act \in [Actors -> ActType] /\ TypeInv /\ HostInv /\ r \in Actors /\ Role(r)
  BY Names DEF IInv, TypeInv, ActorInv
<1>2. act'[r] = new /\ act'["life"] = act["life"] /\ host = "up"
  BY <1>1, Names DEF Role
<1>3. \A t \in Tasks : CutInv(t)' /\ StopInv(t)'
  BY <1>2, LifeStays DEF metadata
<1>4. Role(r)'
  BY <1>2, Names DEF Role
<1>5. new.pc \notin {"spawn", "hook", "drain", "reaping", "dying", "asked"}
  OBVIOUS
<1> QED BY <1>1, <1>2, <1>3, <1>4, <1>5, ActMoves DEF metadata, TypeInv

LEMMA RequestsKeep ==
  ASSUME DistinctNames, IInv, NEW r \in Requests,
         \/ \E t \in Tasks : RequestStart(r, t) \/ RequestStop(r, t) \/ RequestDelete(r, t)
         \/ \E n \in Tenants : RequestClose(r, n)
         \/ Sweep(r) \/ ReadTasks(r) \/ ReloadJobs(r)
  PROVE  IInv'
<1>1. act \in [Actors -> ActType] /\ TypeInv /\ r \in Actors /\ act[r] \in ActType
  BY Names DEF IInv, TypeInv
<1>2. /\ UNCHANGED <<host, todo, row, proc, slot, watch, writer, manual, metadata, history>>
      /\ jobs' = jobs \/ ReloadJobs(r)
  BY DEF RequestStart, RequestStop, RequestDelete, RequestClose, Serve, Sweep, ReadTasks,
         ReloadJobs
<1>3. \A t \in Tasks : FlagInv(t)'
  BY <1>2, FlagStays DEF history
<1>4. /\ jobs' \subseteq Tasks
      /\ row' \in [Tasks -> [there : BOOLEAN, enabled : BOOLEAN, flag : BOOLEAN]]
  BY <1>1, <1>2 DEF ReloadJobs, TypeInv, ActType
<1>5. ASSUME NEW t \in Tasks, RequestStart(r, t) \/ RequestStop(r, t) \/ RequestDelete(r, t)
      PROVE  IInv'
  <2>1. PICK op \in {"start", "stop", "delete"}, pc \in {"begin", "halt"} :
           act' = [act EXCEPT ![r] = [Idle EXCEPT !.op = op, !.task = t, !.pc = pc]]
    BY <1>5 DEF RequestStart, RequestStop, RequestDelete, Serve
  <2>2. host = "up" /\ act[r] = Idle
    BY <1>5 DEF RequestStart, RequestStop, RequestDelete, Serve
  <2> DEFINE new == [Idle EXCEPT !.op = op, !.task = t, !.pc = pc]
  <2>3. new \in ActType /\ new.pc = pc /\ new.task = t /\ new.proc = None
    BY DEF Idle, ActType, Places
  <2>4. act' = [act EXCEPT ![r] = new]
    BY <2>1
  <2> HIDE DEF new
  <2> QED BY <1>1, <1>2, <1>3, <1>4, <2>2, <2>3, <2>4, IdleType, RequestMoves DEF history
<1>6. ASSUME NEW n \in Tenants, RequestClose(r, n) PROVE IInv'
  <2> DEFINE list == {t \in Tasks : slot[t] # None /\ row[t].there /\ TenantOf[t] = n}
             new == [Idle EXCEPT !.op = "close", !.pc = "sweep", !.list = list]
  <2>1. act' = [act EXCEPT ![r] = new] /\ host = "up" /\ act[r] = Idle
    BY <1>6 DEF RequestClose
  <2>2. list \in SUBSET Tasks
    OBVIOUS
  <2> HIDE DEF list
  <2>3. new \in ActType /\ new.pc = "sweep" /\ new.proc = None
    BY <2>2 DEF Idle, ActType, Places
  <2> HIDE DEF new
  <2> QED BY <1>1, <1>2, <1>3, <1>4, <2>1, <2>3, IdleType, RequestMoves DEF history, TaskPlaces
<1>7. CASE Sweep(r)
  <2>1. CASE act' = [act EXCEPT ![r] = Idle]
    BY <1>1, <1>2, <1>3, <1>4, <1>7, <2>1, IdleType, RequestMoves DEF history, Sweep, TaskPlaces
  <2>2. ASSUME NEW t \in act[r].list,
               act' = [act EXCEPT ![r].list = act[r].list \ {t},
                         ![r].pc = IF Running(t) THEN "halt" ELSE "sweep",
                         ![r].task = IF Running(t) THEN t ELSE None]
        PROVE  IInv'
    <3> DEFINE rest == act[r].list \ {t}
               pc == IF Running(t) THEN "halt" ELSE "sweep"
               task == IF Running(t) THEN t ELSE None
               new == [act[r] EXCEPT !.list = rest, !.pc = pc, !.task = task]
    <3>1. act' = [act EXCEPT ![r] = new]
      BY <1>1, <2>2
    <3>2. /\ rest \in SUBSET Tasks /\ pc \in {"halt", "sweep"} /\ task \in Tasks \cup {None}
          /\ pc = "halt" => task \in Tasks
      BY <1>1 DEF ActType
    <3> HIDE DEF rest, pc, task
    <3>3. new \in ActType /\ new.pc = pc /\ new.task = task /\ new.proc = act[r].proc
      BY <1>1, <3>2 DEF ActType, Places
    <3> HIDE DEF new
    <3>4. act[r].pc = "sweep"
      BY <1>7 DEF Sweep
    <3> QED BY <1>1, <1>2, <1>3, <1>4, <3>1, <3>2, <3>3, <3>4, RequestMoves DEF history, TaskPlaces
  <2> QED BY <1>7, <2>1, <2>2 DEF Sweep
<1>8. CASE ReadTasks(r)
  <2> DEFINE new == [act[r] EXCEPT !.pc = "apply", !.list = Scheduled]
  <2>1. act' = [act EXCEPT ![r] = new] /\ act[r].pc = "reload"
    BY <1>1, <1>8 DEF ReadTasks
  <2>2. Scheduled \in SUBSET Tasks
    BY HostConstants DEF Scheduled
  <2>3. new \in ActType /\ new.pc = "apply" /\ new.proc = act[r].proc
    BY <1>1, <2>2 DEF ActType, Places
  <2> HIDE DEF new
  <2> QED BY <1>1, <1>2, <1>3, <1>4, <2>1, <2>3, RequestMoves DEF history, TaskPlaces
<1>9. CASE ReloadJobs(r)
  <2>1. act' = [act EXCEPT ![r] = Idle] /\ act[r].pc = "apply"
    BY <1>9 DEF ReloadJobs
  <2> QED BY <1>1, <1>2, <1>3, <1>4, <2>1, IdleType, RequestMoves DEF history, TaskPlaces
<1> QED BY <1>5, <1>6, <1>7, <1>8, <1>9

\* A request deletes the row.
LEMMA DropKeeps ==
  ASSUME DistinctNames, IInv, NEW r \in Requests, Drop(r)
  PROVE  IInv'
<1>1. /\ act \in [Actors -> ActType] /\ TypeInv /\ r \in Actors /\ act[r] \in ActType
      /\ row \in [Tasks -> [there : BOOLEAN, enabled : BOOLEAN, flag : BOOLEAN]] /\ ActorInv(r)
  BY Names DEF IInv, TypeInv
<1> DEFINE t == act[r].task
<1>2. /\ act[r].pc = "drop" /\ row' = [row EXCEPT ![t] = NoRow] /\ t \in Tasks
      /\ UNCHANGED <<host, todo, proc, jobs, slot, watch, writer, manual, metadata, history>>
  BY <1>1 DEF Drop, ActorInv, TaskPlaces
<1>3. row' \in [Tasks -> [there : BOOLEAN, enabled : BOOLEAN, flag : BOOLEAN]]
  BY <1>1, <1>2 DEF NoRow
<1>4. row'[t].there = FALSE /\ \A u \in Tasks \ {t} : row'[u] = row[u]
  BY <1>1, <1>2 DEF NoRow
<1>5. ASSUME NEW u \in Tasks PROVE FlagInv(u)'
  <2>1. FlagInv(u)
    BY DEF IInv
  <2>2. row'[u].there => row'[u] = row[u]
    BY <1>4
  <2> QED BY <1>2, <2>1, <2>2 DEF FlagInv, Writing, history
<1>6. PICK new \in ActType : /\ act' = [act EXCEPT ![r] = new]
                             /\ new.pc \in {"reload", "idle"} /\ new.proc \in {None, act[r].proc}
  <2> DEFINE new == [act[r] EXCEPT !.pc = "reload"]
  <2>1. new \in ActType /\ new.pc = "reload" /\ new.proc = act[r].proc
    BY <1>1 DEF ActType, Places
  <2>2. act' = [act EXCEPT ![r] = new] \/ act' = [act EXCEPT ![r] = Idle]
    BY <1>1 DEF Drop
  <2> QED BY <2>1, <2>2, IdleType
<1> QED BY <1>1, <1>2, <1>3, <1>5, <1>6, RequestMoves DEF history, TypeInv, TaskPlaces

\* The scheduler and the watchdog begin.
LEMMA TimersKeep ==
  ASSUME DistinctNames, IInv, NEW t \in Tasks, CronFires(t) \/ Enforce(t)
  PROVE  IInv'
<1>1. act \in [Actors -> ActType] /\ TypeInv /\ HostInv /\ "cron" \in Actors /\ "dog" \in Actors
  BY Names DEF IInv, TypeInv
<1>2. PICK a \in {"cron", "dog"}, op \in {"run", "round"}, pc \in {"begin", "halt"} :
        /\ act' = [act EXCEPT ![a] = [Idle EXCEPT !.op = op, !.task = t, !.pc = pc]]
        /\ act[a] = Idle /\ host \in {"restoring", "up"}
        /\ a = "cron" => op = "run" /\ pc = "begin"
        /\ a = "dog" => op = "round" /\ pc = "halt"
  BY <1>1 DEF CronFires, Enforce, HostInv
<1>3. UNCHANGED <<host, todo, row, proc, jobs, slot, watch, writer, manual, metadata, history>>
  BY DEF CronFires, Enforce
<1> DEFINE new == [Idle EXCEPT !.op = op, !.task = t, !.pc = pc]
<1>4. /\ new \in ActType /\ new.pc = pc /\ new.task = t /\ new.op = op /\ new.proc = None
  BY DEF Idle, ActType, Places
<1>5. act' = [act EXCEPT ![a] = new]
  BY <1>2
<1> HIDE DEF new
<1>6. act'[a] = new /\ a \in Actors
  BY <1>1, <1>5
<1>7. Role(a)'
  <2>1. a \notin Requests
    BY Names
  <2> QED BY <1>2, <1>3, <1>4, <1>6, <2>1 DEF Role, StartPlaces, StopPlaces
<1> QED BY <1>1, <1>2, <1>3, <1>4, <1>5, <1>6, <1>7, IdleType, StepMoves DEF history

\* The lifespan turns to its next task.
LEMMA NextTaskKeeps ==
  ASSUME DistinctNames, IInv, NEW t \in Tasks, Restore(t) \/ StopNext(t)
  PROVE  IInv'
<1>1. /\ act \in [Actors -> ActType] /\ TypeInv /\ HostInv /\ "life" \in Actors
      /\ act["life"] = Idle /\ t \in todo
  BY Names DEF IInv, TypeInv, Restore, StopNext
<1>2. /\ todo' = todo \ {t} /\ UNCHANGED <<host, row, proc, jobs, slot, watch, writer, metadata, history>>
  BY DEF Restore, StopNext
<1>3. \A u \in Tasks : FlagInv(u)'
  BY <1>2, FlagStays DEF history
<1>4. ASSUME NEW op \in {"restore", "stop"}, NEW pc \in {"begin", "halt"}, manual' = manual,
             act' = [act EXCEPT !["life"] = [Idle EXCEPT !.op = op, !.task = t, !.pc = pc]],
             \/ host = "restoring" /\ pc = "begin"
             \/ host = "stopping" /\ pc = "halt"
      PROVE  IInv'
  <2> DEFINE new == [Idle EXCEPT !.op = op, !.task = t, !.pc = pc]
  <2>1. /\ new \in ActType /\ new.pc = pc /\ new.task = t /\ new.op = op /\ new.proc = None
    BY DEF Idle, ActType, Places
  <2>2. act' = [act EXCEPT !["life"] = new]
    BY <1>4
  <2> HIDE DEF new
  <2>3. act'["life"] = new
    BY <1>1, <2>2
  <2>4. Role("life")'
    BY <1>2, <1>4, <2>1, <2>3, Names DEF Role, StartPlaces, StopPlaces
  <2>5. ASSUME NEW u \in Tasks PROVE CutInv(u)' /\ StopInv(u)'
    <3>1. CutInv(u) /\ StopInv(u)
      BY DEF IInv
    <3>2. CutInv(u)'
      BY <1>1, <1>2, <1>4, <2>1, <2>3, <3>1 DEF CutInv, Running, Alive, metadata
    <3>3. StopInv(u)'
      BY <1>1, <1>2, <1>4, <2>1, <2>3, <3>1, IdleType DEF StopInv
    <3> QED BY <3>2, <3>3
  <2> QED BY <1>1, <1>2, <1>3, <1>4, <2>1, <2>2, <2>4, <2>5, IdleType, ActMoves
       DEF TypeInv, HostInv, metadata, history
<1>5. CASE host = "restoring" /\ manual' = manual \ {t} /\ act' = act
  <2>1. act' = [act EXCEPT !["life"] = Idle]
    BY <1>1, <1>5
  <2>2. Role("life")'
    BY <1>1, <1>2, <1>5, IdleType, Names DEF Role, StartPlaces
  <2>3. ASSUME NEW u \in Tasks PROVE CutInv(u)' /\ StopInv(u)'
    <3>1. CutInv(u) /\ StopInv(u)
      BY DEF IInv
    <3> QED BY <1>1, <1>2, <1>5, <3>1 DEF CutInv, StopInv, Running, Alive, metadata
  <2> QED BY <1>1, <1>2, <1>3, <1>5, <2>1, <2>2, <2>3, IdleType, ActMoves
       DEF TypeInv, HostInv, metadata, history, TaskPlaces
<1> QED BY <1>4, <1>5 DEF Restore, StopNext

LEMMA HaltKeeps == ASSUME DistinctNames, IInv, NEW a \in Actors, Halt(a) PROVE IInv'
<1> DEFINE p == slot[act[a].task]
<1>1. /\ TypeInv /\ ActorInv(a) /\ Role(a) /\ act[a] \in ActType /\ act \in [Actors -> ActType]
      /\ act[a].pc = "halt" /\ act[a].task \in Tasks /\ proc \in [Procs -> ProcType]
      /\ SlotInv(act[a].task) /\ p \in Procs \cup {None}
  BY Shapes DEF IInv, TypeInv, ActorInv, Halt, TaskPlaces
<1>2. UNCHANGED <<host, todo, row, jobs, slot, watch, writer, metadata, history>>
  BY DEF Halt
<1>3. CASE p = None
  <2>1. After(a, FALSE) /\ UNCHANGED proc
    BY <1>3 DEF Halt
  <2> QED BY <1>1, <1>2, <1>3, <2>1, AfterKeeps DEF history
<1>4. ASSUME p # None, NEW pc \in {"dying", "reaping"}, UNCHANGED manual,
             act' = [act EXCEPT ![a].pc = pc, ![a].proc = p], proc' = proc \/ SameProcs
      PROVE  IInv'
  <2> DEFINE new == [act[a] EXCEPT !.pc = pc, !.proc = p]
  <2>1. p \in Procs /\ watch[p] # "none"
    BY <1>1, <1>4 DEF SlotInv
  <2>2. act' = [act EXCEPT ![a] = new]
    BY <1>1, <1>4
  <2>5. p = slot[act[a].task]
    OBVIOUS
  <2> HIDE DEF p
  <2>3. /\ new \in ActType /\ new.pc = pc /\ new.proc = p
        /\ new.task = act[a].task /\ new.op = act[a].op
    BY <1>1, <2>1 DEF ActType, Places
  <2> HIDE DEF new
  <2>4. act'[a] = new
    BY <1>1, <2>2
  <2>6. Role(a)'
    BY <1>1, <1>2, <2>3, <2>4, Names DEF Role, StartPlaces, StopPlaces
  <2> QED BY <1>1, <1>2, <1>4, <2>1, <2>2, <2>3, <2>5, <2>6, StepMoves DEF history
<1>5. CASE p # None /\ Alive(p)
  <2>1. /\ proc' = [proc EXCEPT ![p].state = "term"] /\ UNCHANGED manual
        /\ act' = [act EXCEPT ![a].pc = "dying", ![a].proc = p]
    BY <1>5 DEF Halt
  <2>2. SameProcs
    BY <1>1, <1>5, <2>1 DEF SameProcs, ProcType, Alive
  <2> QED BY <1>4, <1>5, <2>1, <2>2
<1>6. CASE p # None /\ ~ Alive(p)
  <2>1. /\ UNCHANGED <<proc, manual>>
        /\ act' = [act EXCEPT ![a].pc = "reaping", ![a].proc = p]
    BY <1>6 DEF Halt
  <2> QED BY <1>4, <1>6, <2>1
<1> QED BY <1>3, <1>5, <1>6

-----------------------------------------------------------------------------
(* Processes come and go                                                   *)

LEMMA DieKeeps == ASSUME DistinctNames, IInv, NEW p \in Procs, Die(p) PROVE IInv'
<1>1. /\ TypeInv /\ HostInv /\ proc \in [Procs -> ProcType] /\ Alive(p)
      /\ proc' = [proc EXCEPT ![p] = Dead]
      /\ raced' = {t \in raced : Starting(t) # {} \/ \E q \in Procs \ {p} : proc[q].task = t}
      /\ UNCHANGED <<host, todo, row, jobs, slot, watch, writer, act, manual, saved, snapshot,
                     wanted, muddled>>
  BY DEF IInv, TypeInv, Die, memory, metadata
<1>2. proc'[p] = Dead /\ \A q \in Procs \ {p} : proc'[q] = proc[q]
  BY <1>1
<1>3. ~ Alive(p)' /\ \A q \in Procs : Alive(q)' => q # p /\ Alive(q)
  BY <1>2 DEF Alive, Dead
<1>4. TypeInv'
  <2>1. Dead \in ProcType
    BY DEF Dead, ProcType
  <2> QED BY <1>1, <2>1 DEF TypeInv
<1>5. HostInv'
  BY <1>1 DEF HostInv
<1>6. ASSUME NEW a \in Actors PROVE ActorInv(a)'
  <2>1. ActorInv(a) /\ Role(a)
    BY DEF IInv, ActorInv
  <2>2. Role(a)'
    BY <1>1, <2>1 DEF Role
  <2> QED BY <1>1, <1>2, <1>3, <2>1, <2>2 DEF ActorInv
<1>7. ASSUME NEW w \in Writers PROVE WriterInv(w)'
  BY <1>1 DEF IInv, WriterInv
<1>8. ASSUME NEW q \in Procs PROVE ProcInv(q)'
  <2>1. ProcInv(q)
    BY DEF IInv
  <2>2. Alive(q)' /\ proc[q].task \in raced => proc'[q].task \in raced'
    BY <1>1, <1>2, <1>3
  <2>3. Alive(q)' => proc'[q] = proc[q]
    BY <1>2, <1>3
  <2> QED BY <1>1, <1>3, <2>1, <2>2, <2>3 DEF ProcInv
<1>9. ASSUME NEW t \in Tasks PROVE SlotInv(t)' /\ FlagInv(t)' /\ StopInv(t)'
  BY <1>1 DEF IInv, SlotInv, FlagInv, Writing, StopInv
<1>10. ASSUME NEW t \in Tasks PROVE StartInv(t)'
  <2>1. StartInv(t) /\ Starting(t)' = Starting(t)
    BY <1>1 DEF IInv, Starting
  <2>2. \A q \in Procs : Alive(q)' => proc'[q] = proc[q] /\ Alive(q)
    BY <1>2, <1>3
  <2>3. t \in raced \ raced' => Starting(t) = {}
    BY <1>1
  <2> QED BY <1>1, <2>1, <2>2, <2>3 DEF StartInv
<1>11. ASSUME NEW t \in Tasks PROVE CutInv(t)'
  <2>1. CutInv(t) /\ slot[t] \in Procs \cup {None}
    BY <1>1, Shapes DEF IInv
  <2>2. Running(t)' => Running(t) /\ proc'[slot[t]] = proc[slot[t]]
    BY <1>1, <1>2, <1>3, <2>1 DEF Running
  <2> QED BY <1>1, <2>1, <2>2 DEF CutInv
<1> QED BY <1>4, <1>5, <1>6, <1>7, <1>8, <1>9, <1>10, <1>11 DEF IInv

LEMMA SpawnKeeps == ASSUME DistinctNames, IInv, NEW a \in Actors, Spawn(a) PROVE IInv'
<1>1. /\ TypeInv /\ HostInv /\ ActorInv(a) /\ Role(a) /\ act[a] \in ActType
      /\ act \in [Actors -> ActType] /\ proc \in [Procs -> ProcType]
      /\ act[a].pc = "asked" /\ act[a].task \in Tasks
  BY DEF IInv, TypeInv, ActorInv, Spawn, TaskPlaces
<1>2. PICK p \in Procs :
        /\ Free(p)
        /\ proc' = [proc EXCEPT ![p] = [state |-> "live", task |-> act[a].task,
                                        manual |-> a # "cron"]]
        /\ act' = [act EXCEPT ![a].pc = "spawn", ![a].proc = p]
  BY DEF Spawn
<1>3. UNCHANGED <<host, todo, row, jobs, slot, watch, writer, manual, saved, snapshot, wanted,
                  raced, muddled>>
  BY DEF Spawn, metadata, history
<1> DEFINE new == [act[a] EXCEPT !.pc = "spawn", !.proc = p]
           live == [state |-> "live", task |-> act[a].task, manual |-> a # "cron"]
<1>4. /\ new \in ActType /\ new.pc = "spawn" /\ new.proc = p
      /\ new.task = act[a].task /\ new.op = act[a].op
  BY <1>1 DEF ActType, Places
<1>5. /\ live \in ProcType /\ live.state = "live" /\ live.task = act[a].task
      /\ live.manual <=> a # "cron"
  BY <1>1 DEF ProcType
<1>6. act' = [act EXCEPT ![a] = new] /\ proc' = [proc EXCEPT ![p] = live]
  BY <1>1, <1>2
<1> HIDE DEF new, live
<1>7. /\ act'[a] = new /\ \A b \in Actors \ {a} : act'[b] = act[b]
      /\ proc'[p] = live /\ \A q \in Procs \ {p} : proc'[q] = proc[q]
  BY <1>1, <1>6
<1>8. ~ Alive(p) /\ watch[p] = "none" /\ \A b \in Actors : act[b].proc # p
  BY <1>2 DEF Free
<1>9. TypeInv'
  <2>1. act' \in [Actors -> ActType] /\ proc' \in [Procs -> ProcType]
    BY <1>1, <1>4, <1>5, <1>6
  <2> QED BY <1>1, <1>3, <2>1 DEF TypeInv
<1>10. HostInv'
  BY <1>1, <1>3 DEF HostInv
<1>11. ASSUME NEW b \in Actors PROVE ActorInv(b)'
  <2>1. ActorInv(b) /\ Role(b)
    BY DEF IInv, ActorInv
  <2>2. CASE b = a
    <3>1. Role(a)'
      BY <1>1, <1>3, <1>4, <1>7, Names DEF Role, StartPlaces, StopPlaces
    <3>2. \A c \in Actors : act'[c].proc = p => c = a
      BY <1>7, <1>8
    <3>3. writer[a].pc = "none"
      BY <1>1 DEF ActorInv
    <3> QED BY <1>1, <1>3, <1>4, <1>5, <1>7, <1>8, <2>2, <3>1, <3>2, <3>3 DEF ActorInv
  <2>3. CASE b # a
    <3>1. Role(b)'
      BY <1>3, <1>7, <2>1, <2>3 DEF Role
    <3>2. act'[b] = act[b] /\ act[b].proc # p
      BY <1>7, <1>8, <2>3
    <3>3. act[b].pc = "spawn" => /\ act[b].proc \in Procs
                                 /\ proc'[act[b].proc] = proc[act[b].proc]
      BY <1>7, <2>1, <3>2 DEF ActorInv
    <3>4. ASSUME act[b].pc = "spawn", NEW c \in Actors, act'[c].proc = act[b].proc PROVE c = b
      <4>1. c # a
        BY <1>4, <1>7, <3>2, <3>4
      <4> QED BY <1>7, <2>1, <3>4, <4>1 DEF ActorInv
    <3> QED BY <1>3, <2>1, <3>1, <3>2, <3>3, <3>4 DEF ActorInv, Alive
  <2> QED BY <2>2, <2>3
<1>12. ASSUME NEW w \in Writers PROVE WriterInv(w)'
  BY <1>3 DEF IInv, WriterInv
<1>13. ASSUME NEW q \in Procs PROVE ProcInv(q)'
  <2>1. ProcInv(q)
    BY DEF IInv
  <2>2. CASE q = p
    BY <1>1, <1>3, <1>4, <1>5, <1>7, <2>1, <2>2 DEF ProcInv
  <2>3. CASE q # p
    <3>1. proc'[q] = proc[q] /\ \A b \in Actors : act[b].pc = "spawn" => act'[b] = act[b]
      BY <1>1, <1>7, <2>3
    <3> QED BY <1>3, <2>1, <3>1 DEF ProcInv, Alive
  <2> QED BY <2>2, <2>3
<1>14. ASSUME NEW t \in Tasks PROVE SlotInv(t)' /\ FlagInv(t)'
  BY <1>3 DEF IInv, SlotInv, FlagInv, Writing
<1>15. ASSUME NEW t \in Tasks PROVE StartInv(t)'
  <2>1. StartInv(t)
    BY DEF IInv
  <2>2. Starting(t)' = Starting(t)
    <3>1. \A b \in Actors : /\ act'[b].task = act[b].task
                            /\ act'[b].pc \in {"asked", "spawn"} <=> act[b].pc \in {"asked", "spawn"}
      BY <1>1, <1>4, <1>7
    <3> QED BY <3>1 DEF Starting
  <2>3. CASE t # act[a].task
    <3>1. \A b \in Starting(t) : act'[b] = act[b]
      BY <1>7, <2>3 DEF Starting
    <3>2. \A q \in Procs : Alive(q)' /\ proc'[q].task = t => Alive(q) /\ proc[q].task = t
      BY <1>5, <1>7, <2>3 DEF Alive
    <3> QED BY <1>3, <2>1, <2>2, <3>1, <3>2 DEF StartInv
  <2>4. CASE t = act[a].task
    <3>1. a \in Starting(t)
      BY <1>1, <2>4 DEF Starting
    <3>2. t \notin raced => \A q \in Procs : ~ (Alive(q) /\ proc[q].task = t)
      BY <1>1, <2>1, <3>1 DEF StartInv
    <3>3. t \notin raced => \A q \in Procs : Alive(q)' /\ proc'[q].task = t => q = p
      BY <1>7, <3>2 DEF Alive
    <3> QED BY <1>3, <1>4, <1>7, <2>1, <2>2, <3>1, <3>3 DEF StartInv
  <2> QED BY <2>3, <2>4
<1>16. ASSUME NEW t \in Tasks PROVE CutInv(t)' /\ StopInv(t)'
  <2>1. CutInv(t) /\ StopInv(t) /\ SlotInv(t) /\ slot[t] \in Procs \cup {None}
    BY <1>1, Shapes DEF IInv
  <2>2. slot[t] # p /\ (slot[t] # None => proc'[slot[t]] = proc[slot[t]])
    BY <1>7, <1>8, <2>1, Names DEF SlotInv
  <2>3. /\ act'["life"].task = act["life"].task
        /\ act'["life"] = act["life"] \/ (act["life"].pc = "asked" /\ act'["life"].pc = "spawn")
    BY <1>1, <1>4, <1>7, Names
  <2>4. CutInv(t)'
    BY <1>3, <2>1, <2>2, <2>3 DEF CutInv, Running, Alive
  <2>5. StopInv(t)'
    BY <1>3, <2>1, <2>3 DEF StopInv
  <2> QED BY <2>4, <2>5
<1> QED BY <1>9, <1>10, <1>11, <1>12, <1>13, <1>14, <1>15, <1>16 DEF IInv

-----------------------------------------------------------------------------
(* The writers of the rows                                                 *)

\* A writer has done what it can, and whoever it wrote for goes on.
LEMMA WrittenKeeps ==
  ASSUME DistinctNames, IInv, NEW w \in Writers, NEW done \in BOOLEAN,
         writer[w].pc # "none", Written(w, done),
         row' \in [Tasks -> [there : BOOLEAN, enabled : BOOLEAN, flag : BOOLEAN]],
         UNCHANGED <<host, todo, proc, jobs, slot, saved, snapshot, wanted, raced, muddled>>,
         \A t \in Tasks : FlagInv(t)'
  PROVE  IInv'
<1>1. /\ TypeInv /\ HostInv /\ act \in [Actors -> ActType] /\ writer \in [Writers -> WriterType]
      /\ watch \in [Procs -> {"none", "waiting", "hook"}]
      /\ writer' = [writer EXCEPT ![w] = Quiet]
  BY DEF IInv, TypeInv, Written
<1>2. Quiet \in WriterType /\ Quiet.pc = "none"
  BY DEF Quiet, WriterType
<1>3. writer'[w] = Quiet /\ \A v \in Writers \ {w} : writer'[v] = writer[v]
  BY <1>1
<1>4. CASE w \in Procs
  <2>1. /\ watch' = [watch EXCEPT ![w] = "none"] /\ UNCHANGED <<act, manual>>
        /\ watch[w] = "hook"
    BY <1>4 DEF Written, IInv, ProcInv
  <2>2. watch'[w] = "none" /\ \A p \in Procs \ {w} : watch'[p] = watch[p]
    BY <1>1, <1>4, <2>1
  <2>3. TypeInv'
    BY <1>1, <1>2, <2>1 DEF TypeInv
  <2>4. HostInv'
    BY <1>1, <1>4, <2>1, <2>2 DEF HostInv
  <2>5. ASSUME NEW a \in Actors PROVE ActorInv(a)'
    <3>1. ActorInv(a) /\ writer'[a] = writer[a]
      BY <1>3, <1>4, Names DEF IInv
    <3>2. Role(a)'
      BY <2>1, <3>1 DEF ActorInv, Role
    <3>3. \A p \in Procs : watch[p] = "none" => watch'[p] = "none"
      BY <2>2
    <3> QED BY <2>1, <3>1, <3>2, <3>3 DEF ActorInv, Alive
  <2>6. ASSUME NEW v \in Writers PROVE WriterInv(v)'
    BY <1>2, <1>3 DEF IInv, WriterInv
  <2>7. ASSUME NEW p \in Procs PROVE ProcInv(p)'
    <3>1. ProcInv(p) /\ p \in Writers
      BY Names DEF IInv
    <3>2. (watch[p] = "hook" <=> writer[p].pc # "none")'
      BY <1>2, <1>3, <2>2, <3>1 DEF ProcInv
    <3> QED BY <2>1, <3>1, <3>2 DEF ProcInv, Alive
  <2>8. ASSUME NEW t \in Tasks PROVE SlotInv(t)' /\ StartInv(t)'
    <3>1. SlotInv(t) /\ StartInv(t) /\ slot[t] \in Procs \cup {None}
      BY <1>1, Shapes DEF IInv
    <3>2. SlotInv(t)'
      BY <2>1, <2>2, <3>1 DEF SlotInv
    <3>3. StartInv(t)'
      BY <2>1, <3>1 DEF StartInv, Starting, Alive
    <3> QED BY <3>2, <3>3
  <2>9. ASSUME NEW t \in Tasks PROVE CutInv(t)' /\ StopInv(t)'
    BY <2>1, LifeStays
  <2> QED BY <2>3, <2>4, <2>5, <2>6, <2>7, <2>8, <2>9 DEF IInv
<1>5. CASE w \in Actors
  <2>1. /\ ActorInv(w) /\ Role(w) /\ act[w] \in ActType /\ act[w].pc = "hook"
        /\ act[w].task \in Tasks /\ w \notin Procs /\ UNCHANGED watch
    BY <1>1, <1>5, Names DEF IInv, ActorInv, TaskPlaces, Written
  <2>2. PICK new \in ActType :
          /\ act' = [act EXCEPT ![w] = new] /\ manual' = manual
          /\ new.proc \in {None, act[w].proc}
          /\ new.pc \in {"reload", "drop", "sweep", "idle"}
          /\ new.pc = "drop" => new.task = act[w].task
          /\ act[w].op \notin {"patch", "create", "delete", "close"} => new = Idle
    <3>1. CASE done /\ act[w].op \in {"patch", "create"}
      <4> DEFINE new == [act[w] EXCEPT !.pc = "reload"]
      <4>1. act' = [act EXCEPT ![w] = new] /\ manual' = manual
        BY <1>1, <2>1, <3>1 DEF Written, Goto
      <4>2. new \in ActType /\ new.pc = "reload" /\ new.proc = act[w].proc
        BY <2>1 DEF ActType, Places
      <4> QED BY <3>1, <4>1, <4>2
    <3>2. CASE act[w].op = "delete"
      <4> DEFINE new == [act[w] EXCEPT !.pc = "drop", !.proc = None]
      <4>1. act' = [act EXCEPT ![w] = new] /\ manual' = manual
        BY <2>1, <3>2 DEF Written, After
      <4>2. new \in ActType /\ new.pc = "drop" /\ new.proc = None /\ new.task = act[w].task
        BY <2>1 DEF ActType, Places
      <4> QED BY <3>2, <4>1, <4>2
    <3>3. CASE act[w].op = "close"
      <4> DEFINE new == [act[w] EXCEPT !.pc = "sweep", !.proc = None, !.task = None]
      <4>1. act' = [act EXCEPT ![w] = new] /\ manual' = manual
        BY <2>1, <3>3 DEF Written, After
      <4>2. new \in ActType /\ new.pc = "sweep" /\ new.proc = None
        BY <2>1 DEF ActType, Places
      <4> QED BY <3>3, <4>1, <4>2
    <3>4. CASE /\ act[w].op \notin {"delete", "close"}
               /\ ~ (done /\ act[w].op \in {"patch", "create"})
      <4>1. act' = [act EXCEPT ![w] = Idle] /\ manual' = manual
        BY <2>1, <3>4 DEF Written, After
      <4> QED BY <3>4, <4>1, IdleType
    <3> QED BY <3>1, <3>2, <3>3, <3>4
  <2>3. act'[w] = new /\ \A b \in Actors \ {w} : act'[b] = act[b]
    BY <1>1, <1>5, <2>2
  <2>4. Role(w)'
    <3>1. CASE w \in Requests
      BY <2>1, <2>3, <3>1, Names DEF Role
    <3>2. CASE w \in {"cron", "dog", "life"}
      <4>1. act'[w] = Idle
        BY <2>1, <2>2, <2>3, <3>2 DEF Role, None
      <4> QED BY <2>1, <3>2, <4>1, IdleType DEF Role, StartPlaces, StopPlaces
    <3> QED BY <1>5, <3>1, <3>2, Names
  <2>5. ASSUME NEW t \in Tasks PROVE CutInv(t)' /\ StopInv(t)'
    <3>1. CASE w # "life"
      BY <2>2, <2>3, <3>1, LifeStays, Names
    <3>2. CASE w = "life"
      <4>1. act'["life"] = Idle /\ CutInv(t) /\ host # "stopping"
        BY <2>1, <2>2, <2>3, <3>2 DEF IInv, Role, None, StopPlaces
      <4> QED BY <2>2, <4>1, IdleType DEF CutInv, StopInv, Running, Alive
    <3> QED BY <3>1, <3>2
  <2>6. new.pc \in TaskPlaces => new.task \in Tasks
    BY <2>1, <2>2 DEF TaskPlaces
  <2>7. /\ new.pc # "hook" /\ new.pc # "asked" /\ new.pc # "spawn"
        /\ new.pc \notin {"drain", "reaping", "dying"}
    BY <2>2
  <2>8. /\ todo' \subseteq todo /\ raced \subseteq raced' /\ manual' \subseteq Tasks
        /\ jobs' \subseteq Tasks /\ (host \notin {"restoring", "up"} => jobs' = {})
    BY <1>1, <2>2 DEF TypeInv, HostInv
  <2> QED BY <1>1, <1>2, <1>5, <2>1, <2>2, <2>4, <2>5, <2>6, <2>7, <2>8, ActWrites
<1> QED BY <1>4, <1>5, Names DEF Writers

\* A writer goes on from one statement to the next.
LEMMA WriterMoves ==
  ASSUME DistinctNames, IInv, NEW w \in Writers, NEW wr \in WriterType,
         writer' = [writer EXCEPT ![w] = wr], writer[w].pc # "none", wr.pc # "none",
         wr.task \in Tasks, wr.edit \in {"flag", "switch"}, wr.pc = "read" => wr.edit = "flag",
         UNCHANGED <<host, todo, row, proc, jobs, slot, watch, act, manual, saved, snapshot,
                     wanted, raced, muddled>>,
         \A t \in Tasks : FlagInv(t)'
  PROVE  IInv'
<1>1. TypeInv /\ HostInv /\ writer \in [Writers -> WriterType]
  BY DEF IInv, TypeInv
<1>2. writer'[w] = wr /\ \A v \in Writers \ {w} : writer'[v] = writer[v]
  BY <1>1
<1>3. \A v \in Writers : writer'[v].pc = "none" <=> writer[v].pc = "none"
  BY <1>2
<1>4. TypeInv' /\ HostInv'
  BY <1>1 DEF TypeInv, HostInv
<1>5. ASSUME NEW a \in Actors PROVE ActorInv(a)'
  <2>1. ActorInv(a) /\ a \in Writers
    BY Names DEF IInv
  <2>2. Role(a)'
    BY <2>1 DEF ActorInv, Role
  <2> QED BY <1>3, <2>1, <2>2 DEF ActorInv, Alive
<1>6. ASSUME NEW v \in Writers PROVE WriterInv(v)'
  BY <1>2 DEF IInv, WriterInv
<1>7. ASSUME NEW p \in Procs PROVE ProcInv(p)'
  <2>1. ProcInv(p) /\ p \in Writers
    BY Names DEF IInv
  <2> QED BY <1>3, <2>1 DEF ProcInv, Alive
<1>8. ASSUME NEW t \in Tasks PROVE SlotInv(t)' /\ StartInv(t)'
  BY DEF IInv, SlotInv, StartInv, Starting, Alive
<1>9. ASSUME NEW t \in Tasks PROVE CutInv(t)' /\ StopInv(t)'
  BY LifeStays
<1> QED BY <1>4, <1>5, <1>6, <1>7, <1>8, <1>9 DEF IInv

\* A writer that is done leaves a row with the right flag, or no row.
LEMMA FlagWritten ==
  ASSUME IInv, NEW w \in Writers, NEW t \in Tasks, writer[w].pc # "none",
         writer' = [writer EXCEPT ![w] = Quiet], UNCHANGED <<host, slot, muddled>>,
         t # writer[w].task => row'[t] = row[t],
         t = writer[w].task /\ t \notin muddled /\ host \in {"restoring", "up"} /\ row'[t].there =>
            (row'[t].flag <=> slot[t] # None)
  PROVE  FlagInv(t)'
<1>1. FlagInv(t) /\ writer \in [Writers -> WriterType]
  BY DEF IInv, TypeInv
<1>2. writer'[w].pc = "none" /\ \A v \in Writers \ {w} : writer'[v] = writer[v]
  BY <1>1 DEF Quiet
<1>3. Writing(t)' = Writing(t) \ {w}
  BY <1>2 DEF Writing
<1>4. \A v \in Writing(t)' : writer'[v] = writer[v]
  BY <1>2, <1>3 DEF Writing
<1>5. CASE t = writer[w].task
  <2>1. w \in Writing(t)
    BY <1>5 DEF Writing
  <2>2. host \in {"restoring", "up"} /\ t \notin muddled => Writing(t)' = {}
    BY <1>1, <1>3, <2>1 DEF FlagInv
  <2> QED BY <1>5, <2>2 DEF FlagInv
<1>6. CASE t # writer[w].task
  <2>1. w \notin Writing(t)
    BY <1>6 DEF Writing
  <2>2. Writing(t)' = Writing(t)
    BY <1>3, <2>1
  <2> QED BY <1>1, <1>4, <1>6, <2>2 DEF FlagInv
<1> QED BY <1>5, <1>6

\* A writer that goes on is still about the same field of the same row.
LEMMA FlagMoves ==
  ASSUME IInv, NEW w \in Writers, NEW t \in Tasks, NEW wr \in WriterType,
         writer[w].pc # "none", wr.pc # "none", wr.task = writer[w].task,
         wr.edit = writer[w].edit, writer' = [writer EXCEPT ![w] = wr],
         UNCHANGED <<host, slot, muddled, row>>,
         t = wr.task /\ t \notin muddled /\ host \in {"restoring", "up"} =>
            (wr.edit = "flag" \/ wr.pc = "save" => (wr.flag <=> slot[t] # None))
  PROVE  FlagInv(t)'
<1>1. FlagInv(t) /\ writer \in [Writers -> WriterType]
  BY DEF IInv, TypeInv
<1>2. writer'[w] = wr /\ \A v \in Writers \ {w} : writer'[v] = writer[v]
  BY <1>1
<1>3. Writing(t)' = Writing(t)
  BY <1>2 DEF Writing
<1>4. \A v \in Writing(t) : writer'[v] = writer[v] \/ (v = w /\ writer'[v] = wr /\ wr.task = t)
  BY <1>2 DEF Writing
<1>5. \A v \in Writing(t) : writer'[v].edit = writer[v].edit
  BY <1>2 DEF Writing
<1>6. ASSUME host \in {"restoring", "up"}, t \notin muddled, NEW v \in Writing(t),
             writer'[v].edit = "flag" \/ writer'[v].pc = "save"
      PROVE  writer'[v].flag <=> slot[t] # None
  BY <1>1, <1>4, <1>6 DEF FlagInv
<1> QED BY <1>1, <1>3, <1>5, <1>6 DEF FlagInv

LEMMA WritesKeep == ASSUME DistinctNames, IInv, NEW w \in Writers, Writes(w) PROVE IInv'
<1> DEFINE t == writer[w].task
<1>1. /\ TypeInv /\ writer[w] \in WriterType /\ writer \in [Writers -> WriterType]
      /\ row \in [Tasks -> [there : BOOLEAN, enabled : BOOLEAN, flag : BOOLEAN]]
      /\ writer[w].pc # "none" /\ WriterInv(w) /\ t \in Tasks
      /\ writer[w].edit \in {"flag", "switch", "create"}
      /\ writer[w].edit = "create" => writer[w].pc = "save"
  BY DEF IInv, TypeInv, Writes, ReadFlag, ReadRow, Replace, WriterInv
<1>2. UNCHANGED <<host, todo, proc, jobs, slot, saved, snapshot, wanted, raced, muddled>>
  BY DEF Writes, ReadFlag, ReadRow, Replace, metadata, history
<1>3. /\ FlagInv(t) /\ w \in Writing(t)
      /\ host \in {"restoring", "up"} /\ t \notin muddled => \A v \in Writing(t) : v = w
  BY <1>1 DEF IInv, Writing, FlagInv
<1>4. host \in {"restoring", "up"} /\ t \notin muddled
        /\ (writer[w].edit = "flag" \/ writer[w].pc = "save") =>
          (writer[w].flag <=> slot[t] # None)
  BY <1>3 DEF FlagInv
<1>5. ASSUME NEW done \in BOOLEAN, Written(w, done), UNCHANGED row,
             ~ row[t].there \/ (row[t].flag = writer[w].flag /\ writer[w].edit = "flag")
      PROVE  IInv'
  <2>1. writer' = [writer EXCEPT ![w] = Quiet]
    BY <1>5 DEF Written
  <2>2. ASSUME NEW u \in Tasks PROVE FlagInv(u)'
    BY <1>1, <1>2, <1>4, <1>5, <2>1, FlagWritten
  <2> QED BY <1>1, <1>2, <1>5, <2>2, WrittenKeeps
<1>6. ASSUME NEW wr \in WriterType, writer' = [writer EXCEPT ![w] = wr], wr.pc \in {"again", "save"},
             wr.task = t, wr.edit = writer[w].edit, wr.edit # "create",
             t \notin muddled /\ host \in {"restoring", "up"} =>
                (wr.edit = "flag" \/ wr.pc = "save" => (wr.flag <=> slot[t] # None)),
             UNCHANGED <<row, watch, act, manual>>
      PROVE  IInv'
  <2>1. \A u \in Tasks : FlagInv(u)'
    BY <1>1, <1>2, <1>6, FlagMoves
  <2>2. wr.pc # "none" /\ wr.pc # "read"
    BY <1>6
  <2> QED BY <1>1, <1>2, <1>6, <2>1, <2>2, WriterMoves
<1>7. CASE ReadFlag(w)
  <2>1. UNCHANGED row /\ writer[w].edit = "flag"
    BY <1>1, <1>7 DEF ReadFlag, WriterInv
  <2>2. CASE row[t].there /\ row[t].flag # writer[w].flag
    <3> DEFINE wr == [writer[w] EXCEPT !.pc = "again"]
    <3>1. writer' = [writer EXCEPT ![w] = wr] /\ UNCHANGED <<watch, act, manual>>
      BY <1>1, <1>7, <2>2 DEF ReadFlag
    <3>2. /\ wr \in WriterType /\ wr.pc = "again" /\ wr.task = t
          /\ wr.edit = writer[w].edit /\ wr.flag = writer[w].flag
      BY <1>1 DEF WriterType
    <3> HIDE DEF wr
    <3> QED BY <1>4, <1>6, <2>1, <3>1, <3>2
  <2>3. CASE ~ (row[t].there /\ row[t].flag # writer[w].flag)
    <3>1. Written(w, TRUE)
      BY <1>7, <2>3 DEF ReadFlag
    <3> QED BY <1>5, <2>1, <2>3, <3>1
  <2> QED BY <2>2, <2>3
<1>8. CASE ReadRow(w)
  <2>1. UNCHANGED row /\ writer[w].edit # "create"
    BY <1>1, <1>8 DEF ReadRow
  <2>2. CASE row[t].there /\ writer[w].edit = "flag"
    <3> DEFINE wr == [writer[w] EXCEPT !.pc = "save", !.enabled = row[t].enabled]
    <3>1. writer' = [writer EXCEPT ![w] = wr] /\ UNCHANGED <<watch, act, manual>>
      BY <1>1, <1>8, <2>2 DEF ReadRow
    <3>2. /\ wr \in WriterType /\ wr.pc = "save" /\ wr.task = t
          /\ wr.edit = writer[w].edit /\ wr.flag = writer[w].flag
      BY <1>1 DEF WriterType
    <3> HIDE DEF wr
    <3> QED BY <1>4, <1>6, <2>1, <2>2, <3>1, <3>2
  <2>3. CASE row[t].there /\ writer[w].edit # "flag"
    <3> DEFINE wr == [writer[w] EXCEPT !.pc = "save", !.flag = row[t].flag]
    <3>1. writer' = [writer EXCEPT ![w] = wr] /\ UNCHANGED <<watch, act, manual>>
      BY <1>1, <1>8, <2>3 DEF ReadRow
    <3>2. /\ wr \in WriterType /\ wr.pc = "save" /\ wr.task = t
          /\ wr.edit = writer[w].edit /\ wr.flag = row[t].flag
      BY <1>1 DEF WriterType
    <3>3. host \in {"restoring", "up"} /\ t \notin muddled => (row[t].flag <=> slot[t] # None)
      BY <1>1, <1>3, <2>1, <2>3 DEF FlagInv
    <3> HIDE DEF wr
    <3> QED BY <1>6, <2>1, <3>1, <3>2, <3>3
  <2>4. CASE ~ row[t].there
    <3>1. Written(w, FALSE)
      BY <1>8, <2>4 DEF ReadRow
    <3> QED BY <1>5, <2>1, <2>4, <3>1
  <2> QED BY <2>2, <2>3, <2>4
<1>9. CASE Replace(w)
  <2> DEFINE new == [there |-> TRUE, enabled |-> writer[w].enabled, flag |-> writer[w].flag]
  <2>1. row' = [row EXCEPT ![t] = new] /\ Written(w, TRUE) /\ writer[w].pc = "save"
    BY <1>9 DEF Replace
  <2>2. /\ new \in [there : BOOLEAN, enabled : BOOLEAN, flag : BOOLEAN]
        /\ new.flag = writer[w].flag
    BY <1>1 DEF WriterType
  <2> HIDE DEF new
  <2>3. /\ row' \in [Tasks -> [there : BOOLEAN, enabled : BOOLEAN, flag : BOOLEAN]]
        /\ row'[t].flag = writer[w].flag /\ \A u \in Tasks : u # t => row'[u] = row[u]
    BY <1>1, <2>1, <2>2
  <2>4. writer' = [writer EXCEPT ![w] = Quiet]
    BY <2>1 DEF Written
  <2>5. ASSUME NEW u \in Tasks PROVE FlagInv(u)'
    BY <1>1, <1>2, <1>4, <2>1, <2>3, <2>4, FlagWritten
  <2> QED BY <1>1, <1>2, <2>1, <2>3, <2>5, WrittenKeeps
<1> QED BY <1>7, <1>8, <1>9 DEF Writes

\* A writer begins: it is alone, or the row is counted as muddled.
LEMMA FlagBegins ==
  ASSUME IInv, NEW w \in Writers, NEW t \in Tasks, NEW u \in Tasks, NEW wr \in WriterType,
         writer[w].pc = "none", wr.pc # "none", wr.task = t,
         writer' = [writer EXCEPT ![w] = wr], UNCHANGED <<host, row>>,
         u # t => slot'[u] = slot[u],
         muddled \subseteq muddled', t \notin muddled' => Writing(t) = {},
         t \notin muddled' /\ (wr.edit = "flag" \/ wr.pc = "save") =>
            (wr.flag <=> slot'[t] # None),
         wr.edit = "switch" => slot'[t] = slot[t]
  PROVE  FlagInv(u)'
<1>1. FlagInv(u) /\ writer \in [Writers -> WriterType]
  BY DEF IInv, TypeInv
<1>2. writer'[w] = wr /\ \A v \in Writers \ {w} : writer'[v] = writer[v]
  BY <1>1
<1>3. muddled \subseteq muddled' /\ (t \notin muddled' => Writing(t) = {})
  OBVIOUS
<1>4. CASE u # t
  <2>1. Writing(u)' = Writing(u)
    BY <1>2, <1>4 DEF Writing
  <2>2. \A v \in Writing(u) : writer'[v] = writer[v]
    BY <1>2 DEF Writing
  <2> QED BY <1>1, <1>3, <1>4, <2>1, <2>2 DEF FlagInv
<1>5. CASE u = t
  <2> SUFFICES ASSUME u \notin muddled', host \in {"restoring", "up"} PROVE FlagInv(u)'
    BY DEF FlagInv
  <2>1. Writing(t) = {} /\ Writing(t)' = {w}
    BY <1>2, <1>3, <1>5 DEF Writing
  <2>2. row[u].there => (row[u].flag <=> slot[u] # None)
    BY <1>1, <1>3, <1>5, <2>1 DEF FlagInv
  <2>3. /\ \A x, y \in Writing(t)' : x = y
        /\ \A v \in Writing(t)' : writer'[v] = wr
    BY <1>2, <2>1
  <2>4. row[t].there /\ (\A v \in Writing(t)' : writer'[v].edit = "switch") =>
          (row[t].flag <=> slot'[t] # None)
    BY <1>2, <1>5, <2>1, <2>2
  <2> QED BY <1>5, <2>3, <2>4 DEF FlagInv
<1> QED BY <1>4, <1>5

\* The switch of a task begins to be written.
LEMMA PatchKeeps ==
  ASSUME DistinctNames, IInv, NEW r \in Requests, NEW t \in Tasks, RequestPatch(r, t)
  PROVE  IInv'
<1> DEFINE enabled == ~ row[t].enabled
           new == [Idle EXCEPT !.op = "patch", !.task = t, !.pc = "hook"]
           wr == [pc |-> "again", task |-> t, flag |-> FALSE, enabled |-> enabled,
                  edit |-> "switch"]
<1>1. /\ TypeInv /\ HostInv /\ r \in Actors /\ r \in Writers /\ ActorInv(r)
      /\ act \in [Actors -> ActType] /\ act[r] = Idle /\ host = "up"
      /\ row \in [Tasks -> [there : BOOLEAN, enabled : BOOLEAN, flag : BOOLEAN]]
  BY Names DEF IInv, TypeInv, RequestPatch, Serve
<1>2. /\ act' = [act EXCEPT ![r] = new] /\ writer' = [writer EXCEPT ![r] = wr]
      /\ muddled \subseteq muddled' /\ (t \notin muddled' => Writing(t) = {})
  BY DEF RequestPatch, Serve, Muddle
<1>3. UNCHANGED <<host, todo, row, proc, jobs, slot, watch, manual, saved, snapshot, wanted, raced>>
  BY DEF RequestPatch, metadata
<1>4. /\ new \in ActType /\ new.pc = "hook" /\ new.task = t /\ new.proc = None
  BY DEF Idle, ActType, Places
<1>5. enabled \in BOOLEAN
  BY <1>1
<1> HIDE DEF enabled
<1>6. wr \in WriterType /\ wr.pc = "again" /\ wr.task = t /\ wr.edit = "switch"
  BY <1>5 DEF WriterType
<1> HIDE DEF new, wr
<1>7. act'[r] = new /\ act'["life"] = act["life"]
  BY <1>1, <1>2, Names
<1>8. writer[r].pc = "none" /\ act[r].pc = "idle"
  BY <1>1, IdleType DEF ActorInv
<1>9. \A u \in Tasks : FlagInv(u)'
  BY <1>1, <1>2, <1>3, <1>6, <1>8, FlagBegins
<1>10. \A u \in Tasks : CutInv(u)' /\ StopInv(u)'
  BY <1>3, <1>7, LifeStays
<1>11. Role(r)'
  BY <1>1, <1>3, Names DEF Role
<1>12. /\ new.pc # "asked" /\ new.pc # "spawn" /\ new.pc \notin {"drain", "reaping", "dying"}
       /\ act[r].pc # "spawn" /\ wr.pc # "read" /\ wr.pc # "none"
  BY <1>4, <1>6, <1>8
<1>13. manual' \subseteq Tasks /\ jobs' \subseteq Tasks
  BY <1>1, <1>3 DEF TypeInv
<1> QED BY <1>1, <1>2, <1>3, <1>4, <1>6, <1>9, <1>10, <1>11, <1>12, <1>13, ActWrites

\* A new row begins to be written.
LEMMA CreateKeeps ==
  ASSUME DistinctNames, IInv, NEW r \in Requests, NEW t \in Tasks, RequestCreate(r, t)
  PROVE  IInv'
<1> DEFINE new == [Idle EXCEPT !.op = "create", !.task = t, !.pc = "hook"]
           wr == [pc |-> "save", task |-> t, flag |-> FALSE, enabled |-> TRUE,
                  edit |-> "create"]
<1>1. /\ TypeInv /\ HostInv /\ r \in Actors /\ r \in Writers /\ ActorInv(r)
      /\ act \in [Actors -> ActType] /\ act[r] = Idle /\ host = "up"
      /\ row \in [Tasks -> [there : BOOLEAN, enabled : BOOLEAN, flag : BOOLEAN]]
  BY Names DEF IInv, TypeInv, RequestCreate, Serve
<1>2. /\ act' = [act EXCEPT ![r] = new] /\ writer' = [writer EXCEPT ![r] = wr]
      /\ muddled \subseteq muddled' /\ (t \notin muddled' => Writing(t) = {} /\ slot[t] = None)
  BY DEF RequestCreate, Serve
<1>3. UNCHANGED <<host, todo, row, proc, jobs, slot, watch, manual, saved, snapshot, wanted, raced>>
  BY DEF RequestCreate, metadata
<1>4. /\ new \in ActType /\ new.pc = "hook" /\ new.task = t /\ new.proc = None
  BY DEF Idle, ActType, Places
<1>5. /\ wr \in WriterType /\ wr.pc = "save" /\ wr.task = t /\ wr.edit = "create"
      /\ wr.flag = FALSE
  BY DEF WriterType
<1> HIDE DEF new, wr
<1>6. act'[r] = new /\ act'["life"] = act["life"]
  BY <1>1, <1>2, Names
<1>7. writer[r].pc = "none" /\ act[r].pc = "idle"
  BY <1>1, IdleType DEF ActorInv
<1>8. \A u \in Tasks : FlagInv(u)'
  BY <1>1, <1>2, <1>3, <1>5, <1>7, FlagBegins
<1>9. \A u \in Tasks : CutInv(u)' /\ StopInv(u)'
  BY <1>3, <1>6, LifeStays
<1>10. Role(r)'
  BY <1>1, <1>3, Names DEF Role
<1>11. /\ new.pc # "asked" /\ new.pc # "spawn" /\ new.pc \notin {"drain", "reaping", "dying"}
       /\ act[r].pc # "spawn" /\ wr.pc # "read" /\ wr.pc # "none"
  BY <1>4, <1>5, <1>7
<1>12. manual' \subseteq Tasks /\ jobs' \subseteq Tasks
  BY <1>1, <1>3 DEF TypeInv
<1> QED BY <1>1, <1>2, <1>3, <1>4, <1>5, <1>8, <1>9, <1>10, <1>11, <1>12, ActWrites

-----------------------------------------------------------------------------
(* A process enters the table and leaves it                                *)

LEMMA RegisterKeeps == ASSUME DistinctNames, IInv, NEW a \in Actors, Register(a) PROVE IInv'
<1> DEFINE t == act[a].task
           p == act[a].proc
           new == [act[a] EXCEPT !.pc = "hook", !.proc = None]
           wr == [pc |-> "read", task |-> t, flag |-> TRUE, enabled |-> FALSE, edit |-> "flag"]
<1>1. /\ TypeInv /\ HostInv /\ ActorInv(a) /\ Role(a) /\ act[a] \in ActType
      /\ act \in [Actors -> ActType] /\ writer \in [Writers -> WriterType] /\ a \in Writers
      /\ slot \in [Tasks -> Procs \cup {None}] /\ watch \in [Procs -> {"none", "waiting", "hook"}]
      /\ act[a].pc = "spawn" /\ t \in Tasks /\ p \in Procs
  BY Names DEF IInv, TypeInv, ActorInv, Register, TaskPlaces
<1>2. /\ slot' = [slot EXCEPT ![t] = p] /\ watch' = [watch EXCEPT ![p] = "waiting"]
      /\ act' = [act EXCEPT ![a] = new] /\ writer' = [writer EXCEPT ![a] = wr] /\ Muddle(t)
      /\ UNCHANGED <<host, todo, row, proc, jobs, snapshot, wanted, raced>>
  BY <1>1 DEF Register
<1>3. /\ manual \subseteq manual' /\ manual' \subseteq Tasks /\ saved' \subseteq Tasks
      /\ saved' = saved \/ manual \subseteq saved'
      /\ a # "cron" => t \in manual' /\ t \in saved'
  BY <1>1 DEF Register, TypeInv
<1>4. /\ new \in ActType /\ new.pc = "hook" /\ new.proc = None /\ new.task = t
      /\ new.op = act[a].op
  BY <1>1 DEF ActType, Places
<1>5. wr \in WriterType /\ wr.pc = "read" /\ wr.task = t /\ wr.edit = "flag" /\ wr.flag = TRUE
  BY <1>1 DEF WriterType
<1>6. /\ watch[p] = "none" /\ (Alive(p) => proc[p].task = t /\ (proc[p].manual <=> a # "cron"))
      /\ \A b \in Actors : act[b].proc = p => b = a
      /\ writer[a].pc = "none"
  BY <1>1 DEF ActorInv
<1>7. host \in {"restoring", "up"} /\ a # "dog" /\ (host = "restoring" => a \in {"cron", "life"})
  BY <1>1, Names DEF Role, StopPlaces
<1>8. a \in Starting(t)
  BY <1>1 DEF Starting
<1> HIDE DEF new, wr, t, p
<1>9. /\ act'[a] = new /\ \A b \in Actors \ {a} : act'[b] = act[b]
      /\ writer'[a] = wr /\ \A w \in Writers \ {a} : writer'[w] = writer[w]
      /\ slot'[t] = p /\ \A u \in Tasks \ {t} : slot'[u] = slot[u]
      /\ watch'[p] = "waiting" /\ \A q \in Procs \ {p} : watch'[q] = watch[q]
  BY <1>1, <1>2
<1>10. TypeInv'
  <2>1. /\ act' \in [Actors -> ActType] /\ writer' \in [Writers -> WriterType]
        /\ slot' \in [Tasks -> Procs \cup {None}]
        /\ watch' \in [Procs -> {"none", "waiting", "hook"}]
    BY <1>1, <1>2, <1>4, <1>5
  <2> QED BY <1>1, <1>2, <1>3, <2>1 DEF TypeInv
<1>11. HostInv'
  BY <1>1, <1>2, <1>7 DEF HostInv
<1>12. ASSUME NEW b \in Actors PROVE ActorInv(b)'
  <2>1. ActorInv(b) /\ Role(b) /\ b \in Writers
    BY Names DEF IInv, ActorInv
  <2>2. CASE b = a
    <3>1. Role(a)'
      BY <1>1, <1>2, <1>4, <1>7, <1>9, Names DEF Role, StartPlaces, t
    <3> QED BY <1>1, <1>4, <1>5, <1>9, <2>2, <3>1 DEF ActorInv
  <2>3. CASE b # a
    <3>1. act'[b] = act[b] /\ writer'[b] = writer[b]
      BY <1>9, <2>1, <2>3
    <3>2. Role(b)'
      BY <1>2, <2>1, <3>1 DEF Role
    <3>3. act[b].pc = "spawn" => act[b].proc \in Procs /\ watch'[act[b].proc] = "none"
      BY <1>6, <1>9, <2>1, <2>3 DEF ActorInv
    <3>4. ASSUME act[b].pc = "spawn", NEW c \in Actors, act'[c].proc = act[b].proc PROVE c = b
      <4>1. c # a
        BY <1>4, <1>9, <3>3, <3>4, Names
      <4> QED BY <1>9, <2>1, <3>4, <4>1 DEF ActorInv
    <3> QED BY <1>2, <2>1, <3>1, <3>2, <3>3, <3>4 DEF ActorInv, Alive
  <2> QED BY <2>2, <2>3
<1>13. ASSUME NEW w \in Writers PROVE WriterInv(w)'
  <2>1. CASE w = a
    BY <1>1, <1>5, <1>9, <2>1 DEF WriterInv
  <2>2. CASE w # a
    <3>1. WriterInv(w) /\ writer'[w] = writer[w]
      BY <1>9, <2>2 DEF IInv
    <3> QED BY <3>1 DEF WriterInv
  <2> QED BY <2>1, <2>2
<1>14. ASSUME NEW q \in Procs PROVE ProcInv(q)'
  <2>1. ProcInv(q) /\ StartInv(t) /\ writer'[q] = writer[q]
    BY <1>1, <1>9, Names DEF IInv
  <2>2. (watch[q] = "hook" <=> writer[q].pc # "none")'
    BY <1>6, <1>9, <2>1 DEF ProcInv
  <2>3. ASSUME Alive(q), proc[q].task \notin raced
        PROVE  \/ slot'[proc[q].task] = q
               \/ \E b \in Actors : act'[b].pc = "spawn" /\ act'[b].proc = q
    <3>1. CASE q = p
      BY <1>6, <1>9, <2>3, <3>1
    <3>2. CASE q # p
      <4>1. proc[q].task \in Tasks /\ proc[q].task # t
        BY <1>8, <2>1, <2>3, <3>2 DEF ProcInv, StartInv, p
      <4>2. \A b \in Actors : act[b].proc = q => b # a
        BY <3>2 DEF p
      <4> QED BY <1>9, <2>1, <2>3, <4>1, <4>2 DEF ProcInv
    <3> QED BY <3>1, <3>2
  <2> QED BY <1>2, <2>1, <2>2, <2>3 DEF ProcInv, Alive
<1>15. ASSUME NEW u \in Tasks PROVE SlotInv(u)'
  <2>1. /\ \A v \in Tasks : SlotInv(v) /\ slot[v] \in Procs \cup {None}
    BY <1>1 DEF IInv
  <2>2. \A v \in Tasks : slot[v] # p
    BY <1>1, <1>6, <2>1, Names DEF SlotInv, p
  <2>3. CASE u = t
    BY <1>9, <2>2, <2>3 DEF SlotInv
  <2>4. CASE u # t
    <3>1. slot'[u] = slot[u] /\ SlotInv(u) /\ slot[u] # p
      BY <1>9, <2>1, <2>2, <2>4
    <3>2. slot[u] # None => watch'[slot[u]] = "waiting"
      BY <1>9, <2>1, <3>1 DEF SlotInv
    <3>3. slot[u] # None => \A v \in Tasks : slot'[v] = slot[u] => v = u
      BY <1>9, <3>1 DEF SlotInv
    <3> QED BY <3>1, <3>2, <3>3 DEF SlotInv
  <2> QED BY <2>3, <2>4
<1>16. ASSUME NEW u \in Tasks PROVE StartInv(u)'
  <2>1. StartInv(u)
    BY DEF IInv
  <2>2. \A b \in Starting(u)' : b \in Starting(u) /\ act'[b] = act[b]
    BY <1>4, <1>9 DEF Starting
  <2> QED BY <1>2, <2>1, <2>2 DEF StartInv, Alive
<1>17. ASSUME NEW u \in Tasks PROVE FlagInv(u)'
  <2>1. wr.pc # "none" /\ (wr.flag <=> slot'[t] # None) /\ wr.edit # "switch"
    BY <1>1, <1>5, <1>9, Names DEF p
  <2> QED BY <1>1, <1>2, <1>5, <1>6, <1>9, <2>1, FlagBegins DEF t, Muddle
<1>18. ASSUME NEW u \in Tasks PROVE CutInv(u)' /\ StopInv(u)'
  <2>1. CutInv(u)
    BY DEF IInv
  <2>2. StopInv(u)'
    BY <1>2, <1>7 DEF StopInv
  <2>3. /\ act'["life"].task = act["life"].task
        /\ act["life"].pc \in {"idle", "hook"} => act'["life"].pc \in {"idle", "hook"}
    <3>1. CASE a = "life"
      BY <1>4, <1>9, <3>1 DEF t
    <3>2. CASE a # "life"
      BY <1>9, <3>2, Names
    <3> QED BY <3>1, <3>2
  <2>4. CASE u = t
    <3>1. ASSUME Alive(p), proc[p].manual
          PROVE  /\ t \in manual' /\ t \in saved'
                 /\ host = "restoring" => t \notin todo /\ act'["life"].pc = "hook"
      <4>1. a # "cron"
        BY <1>6, <3>1
      <4>2. host = "restoring" => a = "life"
        BY <1>7, <4>1
      <4> QED BY <1>1, <1>3, <1>4, <1>9, <4>1, <4>2 DEF Role, t
    <3> QED BY <1>2, <1>9, <2>2, <2>4, <3>1 DEF CutInv, Running, Alive
  <2>5. CASE u # t
    <3>1. slot'[u] = slot[u]
      BY <1>9, <2>5
    <3> QED BY <1>2, <1>3, <2>1, <2>2, <2>3, <3>1 DEF CutInv, Running, Alive
  <2> QED BY <2>4, <2>5
<1> QED BY <1>10, <1>11, <1>12, <1>13, <1>14, <1>15, <1>16, <1>17, <1>18 DEF IInv

LEMMA ReapKeeps == ASSUME DistinctNames, IInv, NEW p \in Procs, Reap(p) PROVE IInv'
<1>1. /\ TypeInv /\ HostInv /\ ProcInv(p) /\ p \in Writers /\ host # "down"
      /\ act \in [Actors -> ActType] /\ writer \in [Writers -> WriterType]
      /\ slot \in [Tasks -> Procs \cup {None}] /\ watch \in [Procs -> {"none", "waiting", "hook"}]
      /\ watch[p] = "waiting" /\ ~ Alive(p) /\ writer[p].pc = "none"
      /\ UNCHANGED <<host, todo, row, proc, jobs, act, snapshot, wanted, raced>>
  BY Names DEF IInv, TypeInv, ProcInv, HostInv, Reap
<1>2. \A t \in Tasks : SlotInv(t) /\ StartInv(t) /\ CutInv(t) /\ StopInv(t)
  BY DEF IInv
<1>3. ASSUME NEW t \in Tasks PROVE StartInv(t)'
  BY <1>1, <1>2 DEF StartInv, Starting, Alive
<1>4. ASSUME NEW x \in {"none", "hook"}, watch' = [watch EXCEPT ![p] = x],
             x = "hook" <=> writer'[p].pc # "none",
             \A w \in Writers \ {p} : writer'[w] = writer[w],
             WriterInv(p)', writer' \in [Writers -> WriterType],
             slot' \in [Tasks -> Procs \cup {None}],
             \A t \in Tasks : slot'[t] # p /\ (slot'[t] = slot[t] \/ (slot[t] = p /\ slot'[t] = None)),
             manual' \subseteq Tasks, saved' \subseteq Tasks,
             \A t \in Tasks : slot[t] # p => /\ t \in manual => t \in manual'
                                             /\ t \in manual /\ t \in saved => t \in saved',
             \A t \in Tasks : FlagInv(t)'
      PROVE  IInv'
  <2>1. watch'[p] = x /\ \A q \in Procs \ {p} : watch'[q] = watch[q]
    BY <1>1, <1>4
  <2>2. TypeInv'
    <3>1. watch' \in [Procs -> {"none", "waiting", "hook"}]
      BY <1>1, <1>4
    <3> QED BY <1>1, <1>4, <3>1 DEF TypeInv
  <2>3. HostInv'
    BY <1>1 DEF HostInv
  <2>4. ASSUME NEW a \in Actors PROVE ActorInv(a)'
    <3>1. ActorInv(a) /\ writer'[a] = writer[a]
      BY <1>4, Names DEF IInv
    <3>2. Role(a)'
      BY <1>1, <3>1 DEF ActorInv, Role
    <3>3. act[a].pc = "spawn" => watch'[act[a].proc] = "none"
      BY <1>1, <2>1, <3>1 DEF ActorInv
    <3> QED BY <1>1, <3>1, <3>2, <3>3 DEF ActorInv, Alive
  <2>5. ASSUME NEW w \in Writers PROVE WriterInv(w)'
    <3>1. CASE w = p
      BY <1>4, <3>1
    <3>2. CASE w # p
      <4>1. WriterInv(w) /\ writer'[w] = writer[w]
        BY <1>4, <3>2 DEF IInv
      <4> QED BY <4>1 DEF WriterInv
    <3> QED BY <3>1, <3>2
  <2>6. ASSUME NEW q \in Procs PROVE ProcInv(q)'
    <3>1. ProcInv(q) /\ q \in Writers
      BY Names DEF IInv
    <3>2. CASE q = p
      BY <1>1, <1>4, <2>1, <3>2 DEF ProcInv, Alive
    <3>3. CASE q # p
      <4>1. watch'[q] = watch[q] /\ writer'[q] = writer[q]
        BY <1>4, <2>1, <3>1, <3>3
      <4>2. \A t \in Tasks : slot[t] = q => slot'[t] = q
        BY <1>4, <3>3
      <4> QED BY <1>1, <3>1, <4>1, <4>2 DEF ProcInv, Alive
    <3> QED BY <3>2, <3>3
  <2>7. ASSUME NEW t \in Tasks PROVE SlotInv(t)'
    <3> SUFFICES ASSUME slot'[t] # None PROVE SlotInv(t)'
      BY DEF SlotInv
    <3>1. slot'[t] = slot[t] /\ slot[t] # p /\ slot[t] \in Procs
      BY <1>1, <1>4
    <3>2. watch'[slot[t]] = "waiting"
      BY <1>2, <2>1, <3>1 DEF SlotInv
    <3>3. \A u \in Tasks : slot'[u] = slot[t] => u = t
      BY <1>2, <1>4, <3>1 DEF SlotInv
    <3> QED BY <3>1, <3>2, <3>3 DEF SlotInv
  <2>8. ASSUME NEW t \in Tasks PROVE CutInv(t)' /\ StopInv(t)'
    <3>1. StopInv(t)'
      BY <1>1, <1>2, <1>4 DEF StopInv
    <3>2. Running(t)' => Running(t) /\ slot'[t] = slot[t] /\ slot[t] # p
      BY <1>1, <1>4 DEF Running, Alive
    <3>3. CutInv(t)'
      BY <1>1, <1>2, <1>4, <3>2 DEF CutInv
    <3> QED BY <3>1, <3>3
  <2> QED BY <1>3, <1>4, <2>2, <2>3, <2>4, <2>5, <2>6, <2>7, <2>8 DEF IInv
<1>5. CASE \E t \in Tasks : slot[t] = p
  <2>1. PICK t \in Tasks :
          /\ slot[t] = p /\ slot' = [slot EXCEPT ![t] = None]
          /\ manual' = manual \ {t}
          /\ saved' = IF t \in manual THEN manual \ {t} ELSE saved
          /\ watch' = [watch EXCEPT ![p] = "hook"]
          /\ writer' = [writer EXCEPT ![p] = [pc |-> "read", task |-> t, flag |-> FALSE,
                                              enabled |-> FALSE, edit |-> "flag"]]
          /\ Muddle(t)
    <3> DEFINE t == CHOOSE u \in Tasks : slot[u] = p
    <3>1. t \in Tasks /\ slot[t] = p
      BY <1>5
    <3>2. /\ slot' = [slot EXCEPT ![t] = None]
          /\ manual' = manual \ {t}
          /\ saved' = IF t \in manual THEN manual \ {t} ELSE saved
          /\ watch' = [watch EXCEPT ![p] = "hook"]
          /\ writer' = [writer EXCEPT ![p] = [pc |-> "read", task |-> t, flag |-> FALSE,
                                              enabled |-> FALSE, edit |-> "flag"]]
          /\ Muddle(t)
      BY <1>5 DEF Reap
    <3> HIDE DEF t
    <3> QED BY <3>1, <3>2
  <2> DEFINE wr == [pc |-> "read", task |-> t, flag |-> FALSE, enabled |-> FALSE, edit |-> "flag"]
  <2>2. /\ wr \in WriterType /\ wr.pc = "read" /\ wr.task = t /\ wr.edit = "flag"
        /\ wr.flag = FALSE
    BY DEF WriterType
  <2>3. writer' = [writer EXCEPT ![p] = wr]
    BY <2>1
  <2> HIDE DEF wr
  <2>4. /\ writer'[p] = wr /\ \A w \in Writers \ {p} : writer'[w] = writer[w]
        /\ slot'[t] = None /\ \A u \in Tasks \ {t} : slot'[u] = slot[u]
    BY <1>1, <2>1, <2>3
  <2>5. \A u \in Tasks : slot'[u] # p /\ (slot'[u] = slot[u] \/ (slot[u] = p /\ slot'[u] = None))
    BY <1>2, <2>1, <2>4, Names DEF SlotInv
  <2>6. ASSUME NEW u \in Tasks PROVE FlagInv(u)'
    <3>1. /\ wr.pc # "none" /\ wr.edit # "switch"
          /\ wr.flag <=> slot'[t] # None
          /\ u # t => slot'[u] = slot[u]
      BY <2>2, <2>4
    <3> QED BY <1>1, <2>1, <2>2, <2>3, <3>1, FlagBegins DEF Muddle
  <2>7. WriterInv(p)'
    BY <2>2, <2>4 DEF WriterInv
  <2>8. /\ writer' \in [Writers -> WriterType] /\ slot' \in [Tasks -> Procs \cup {None}]
        /\ manual' \subseteq Tasks /\ saved' \subseteq Tasks
    <3>1. writer' \in [Writers -> WriterType]
      BY <1>1, <2>2, <2>3
    <3>2. slot' \in [Tasks -> Procs \cup {None}]
      BY <1>1, <2>1
    <3>3. manual \subseteq Tasks /\ saved \subseteq Tasks
      BY <1>1 DEF TypeInv
    <3>4. manual' \subseteq Tasks /\ saved' \subseteq Tasks
      BY <2>1, <3>3
    <3> QED BY <3>1, <3>2, <3>4
  <2>9. \A u \in Tasks : slot[u] # p => /\ u \in manual => u \in manual'
                                        /\ u \in manual /\ u \in saved => u \in saved'
    BY <2>1
  <2>10. "hook" = "hook" <=> writer'[p].pc # "none"
    BY <2>2, <2>4
  <2> QED BY <1>4, <2>1, <2>4, <2>5, <2>6, <2>7, <2>8, <2>9, <2>10
<1>6. CASE ~ \E t \in Tasks : slot[t] = p
  <2>1. watch' = [watch EXCEPT ![p] = "none"] /\ UNCHANGED <<slot, manual, saved, writer, muddled>>
    BY <1>6 DEF Reap
  <2>2. \A t \in Tasks : FlagInv(t)'
    BY <1>1, <2>1, FlagStays
  <2>3. WriterInv(p)'
    BY <1>1, <2>1 DEF WriterInv
  <2>4. manual \subseteq Tasks /\ saved \subseteq Tasks
    BY <1>1 DEF TypeInv
  <2>5. "none" = "hook" <=> writer'[p].pc # "none"
    BY <1>1, <2>1
  <2> QED BY <1>1, <1>4, <1>6, <2>1, <2>2, <2>3, <2>4, <2>5
<1> QED BY <1>5, <1>6

-----------------------------------------------------------------------------
(* The stages of the host                                                  *)

\* The host is gone, and with it every coroutine, watcher and table.
LEMMA ForgetKeeps ==
  ASSUME DistinctNames, IInv, host' = "down", Forget,
         todo' \subseteq Tasks, UNCHANGED <<row, saved, snapshot>>,
         wanted' \subseteq (IF snapshot # {} THEN snapshot ELSE saved),
         proc' \in [Procs -> ProcType],
         \A p \in Procs : Alive(p)' => proc'[p].task \in Tasks /\ proc'[p].task \in raced'
  PROVE  IInv'
<1>1. /\ TypeInv /\ jobs' = {} /\ manual' = {}
      /\ \A t \in Tasks : slot'[t] = None
      /\ \A p \in Procs : watch'[p] = "none"
      /\ \A w \in Writers : writer'[w] = Quiet
      /\ \A a \in Actors : act'[a] = Idle
  BY DEF IInv, Forget
<1>2. Quiet.pc = "none" /\ Quiet \in WriterType
  BY DEF Quiet, WriterType
<1>3. TypeInv'
  <2>1. /\ slot' \in [Tasks -> Procs \cup {None}]
        /\ watch' \in [Procs -> {"none", "waiting", "hook"}]
    BY DEF Forget
  <2>2. writer' \in [Writers -> WriterType] /\ act' \in [Actors -> ActType]
    BY <1>2, IdleType DEF Forget
  <2> QED BY <1>1, <2>1, <2>2 DEF TypeInv
<1>4. HostInv'
  BY <1>1 DEF HostInv
<1>5. ASSUME NEW a \in Actors PROVE ActorInv(a)'
  <2>1. act'[a].pc = "idle" /\ act'[a].op = None /\ writer'[a].pc = "none"
    BY <1>1, <1>2, IdleType, Names
  <2>2. Role(a)'
    BY <2>1 DEF Role, StartPlaces, StopPlaces
  <2> QED BY <2>1, <2>2 DEF ActorInv, TaskPlaces
<1>6. ASSUME NEW w \in Writers PROVE WriterInv(w)'
  BY <1>1, <1>2 DEF WriterInv
<1>7. ASSUME NEW p \in Procs PROVE ProcInv(p)'
  <2>1. watch'[p] = "none" /\ writer'[p].pc = "none"
    BY <1>1, <1>2, Names
  <2> QED BY <2>1 DEF ProcInv
<1>8. ASSUME NEW t \in Tasks PROVE SlotInv(t)' /\ StartInv(t)'
  <2>1. Starting(t)' = {}
    BY <1>1, IdleType DEF Starting
  <2> QED BY <1>1, <2>1 DEF SlotInv, StartInv
<1>9. ASSUME NEW t \in Tasks PROVE FlagInv(t)' /\ CutInv(t)' /\ StopInv(t)'
  BY DEF FlagInv, CutInv, StopInv
<1> QED BY <1>3, <1>4, <1>5, <1>6, <1>7, <1>8, <1>9 DEF IInv

LEMMA StoppedKeeps == ASSUME DistinctNames, IInv, Stopped PROVE IInv'
<1>1. /\ TypeInv /\ HostInv /\ host = "stopping" /\ todo = {} /\ act["life"].pc = "idle"
      /\ host' = "down" /\ Forget /\ UNCHANGED <<todo, row, proc, saved, snapshot, wanted, raced>>
  BY IdleType DEF IInv, Stopped, metadata, history
<1>2. \A t \in Tasks : slot[t] = None
  BY <1>1 DEF IInv, StopInv
<1>3. ASSUME NEW a \in Actors PROVE act[a].pc # "spawn"
  <2>1. Role(a)
    BY DEF IInv, ActorInv
  <2>2. a \in Requests \/ a = "cron" \/ a = "dog" \/ a = "life"
    BY Names
  <2> QED BY <1>1, <2>1, <2>2 DEF Role, StopPlaces
<1>4. ASSUME NEW p \in Procs, Alive(p) PROVE proc[p].task \in Tasks /\ proc[p].task \in raced
  <2>1. ProcInv(p) /\ p # None
    BY Names DEF IInv
  <2> QED BY <1>2, <1>3, <1>4, <2>1 DEF ProcInv
<1>5. wanted' \subseteq (IF snapshot # {} THEN snapshot ELSE saved)
  BY <1>1 DEF HostInv
<1>6. proc' \in [Procs -> ProcType] /\ todo' \subseteq Tasks
  BY <1>1 DEF TypeInv
<1>7. \A p \in Procs : Alive(p)' => proc'[p].task \in Tasks /\ proc'[p].task \in raced'
  BY <1>1, <1>4 DEF Alive
<1> QED BY <1>1, <1>5, <1>6, <1>7, ForgetKeeps

LEMMA CrashKeeps == ASSUME DistinctNames, IInv, Crash PROVE IInv'
<1>1. /\ TypeInv /\ HostInv /\ host # "down" /\ host' = "down" /\ Forget /\ todo' = {}
      /\ UNCHANGED <<row, saved, snapshot>>
      /\ wanted' = IF host \in {"draining", "stopping"} THEN wanted ELSE CutRuns
  BY DEF IInv, Crash, metadata
<1>2. wanted' \subseteq (IF snapshot # {} THEN snapshot ELSE saved)
  <2>1. CASE host \in {"draining", "stopping"}
    BY <1>1, <2>1 DEF HostInv
  <2>2. CASE host \in {"restoring", "up"}
    <3>1. \A t \in CutRuns : t \in saved
      BY <2>2 DEF CutRuns, IInv, CutInv
    <3> QED BY <1>1, <2>2, <3>1 DEF HostInv
  <2> QED BY <1>1, <2>1, <2>2 DEF TypeInv
<1>3. /\ proc' \in [Procs -> ProcType]
      /\ \A p \in Procs : Alive(p)' => proc'[p].task \in Tasks /\ proc'[p].task \in raced'
  <2>1. CASE proc' = [p \in Procs |-> Dead]
    <3>1. Dead \in ProcType /\ Dead.state = "dead"
      BY DEF Dead, ProcType
    <3> QED BY <2>1, <3>1 DEF Alive
  <2>2. CASE /\ raced' = raced \cup {proc[p].task : p \in {q \in Procs : Alive(q)}}
             /\ UNCHANGED proc
    <3>1. proc' \in [Procs -> ProcType]
      BY <1>1, <2>2 DEF TypeInv
    <3>2. ASSUME NEW p \in Procs, Alive(p)'
          PROVE  proc'[p].task \in Tasks /\ proc'[p].task \in raced'
      <4>1. Alive(p)
        BY <2>2, <3>2 DEF Alive
      <4>2. proc[p].task \in Tasks
        BY <4>1 DEF IInv, ProcInv
      <4> QED BY <2>2, <4>1, <4>2
    <3> QED BY <3>1, <3>2
  <2> QED BY <2>1, <2>2 DEF Crash
<1> QED BY <1>1, <1>2, <1>3, ForgetKeeps

LEMMA StopAllKeeps == ASSUME DistinctNames, IInv, StopAll PROVE IInv'
<1>1. /\ TypeInv /\ HostInv /\ host = "draining" /\ act["dog"].pc = "idle"
      /\ host' = "stopping" /\ todo' = {t \in Tasks : slot[t] # None}
      /\ UNCHANGED <<row, proc, jobs, slot, watch, writer, act, manual, saved, snapshot,
                     wanted, raced, muddled>>
  BY IdleType DEF IInv, StopAll, memory, metadata, history
<1>2. TypeInv' /\ HostInv'
  BY <1>1 DEF TypeInv, HostInv
<1>3. act["life"].pc = "idle"
  BY <1>1, Names DEF IInv, ActorInv, Role
<1>4. ASSUME NEW a \in Actors PROVE ActorInv(a)'
  <2>1. ActorInv(a)
    BY DEF IInv
  <2>2. Role(a)'
    BY <1>1, <1>3, <2>1, Names DEF ActorInv, Role, StopPlaces
  <2> QED BY <1>1, <2>1, <2>2 DEF ActorInv, Alive
<1>5. ASSUME NEW w \in Writers PROVE WriterInv(w)'
  BY <1>1 DEF IInv, WriterInv
<1>6. ASSUME NEW p \in Procs PROVE ProcInv(p)'
  BY <1>1 DEF IInv, ProcInv, Alive
<1>7. ASSUME NEW t \in Tasks PROVE SlotInv(t)' /\ StartInv(t)'
  BY <1>1 DEF IInv, SlotInv, StartInv, Starting, Alive
<1>8. ASSUME NEW t \in Tasks PROVE FlagInv(t)' /\ CutInv(t)' /\ StopInv(t)'
  BY <1>1, <1>3 DEF FlagInv, CutInv, StopInv
<1> QED BY <1>2, <1>4, <1>5, <1>6, <1>7, <1>8 DEF IInv

LEMMA RestoredKeeps == ASSUME DistinctNames, IInv, Restored PROVE IInv'
<1>1. /\ TypeInv /\ HostInv /\ host = "restoring" /\ todo = {} /\ act["life"].pc = "idle"
      /\ host' = "up" /\ saved' = manual
      /\ UNCHANGED <<todo, row, proc, jobs, slot, watch, writer, act, manual, snapshot,
                     wanted, raced, muddled>>
  BY IdleType DEF IInv, Restored, memory, metadata, history
<1>2. TypeInv' /\ HostInv'
  BY <1>1 DEF TypeInv, HostInv
<1>4. ASSUME NEW a \in Actors PROVE ActorInv(a)'
  <2>1. ActorInv(a)
    BY DEF IInv
  <2>2. Role(a)'
    BY <1>1, <2>1, Names DEF ActorInv, Role, StopPlaces
  <2> QED BY <1>1, <2>1, <2>2 DEF ActorInv, Alive
<1>5. ASSUME NEW w \in Writers PROVE WriterInv(w)'
  BY <1>1 DEF IInv, WriterInv
<1>6. ASSUME NEW p \in Procs PROVE ProcInv(p)'
  BY <1>1 DEF IInv, ProcInv, Alive
<1>7. ASSUME NEW t \in Tasks PROVE SlotInv(t)' /\ StartInv(t)'
  BY <1>1 DEF IInv, SlotInv, StartInv, Starting, Alive
<1>8. ASSUME NEW t \in Tasks PROVE FlagInv(t)' /\ CutInv(t)' /\ StopInv(t)'
  BY <1>1 DEF IInv, FlagInv, CutInv, StopInv, Writing, Running, Alive
<1> QED BY <1>2, <1>4, <1>5, <1>6, <1>7, <1>8 DEF IInv

LEMMA ShutdownKeeps == ASSUME DistinctNames, IInv, Shutdown PROVE IInv'
<1> DEFINE c == act["cron"].proc
<1>1. /\ TypeInv /\ HostInv /\ host = "up" /\ host' = "draining"
      /\ act \in [Actors -> ActType] /\ writer \in [Writers -> WriterType]
      /\ proc \in [Procs -> ProcType]
      /\ \A r \in Requests : act[r].pc = "idle"
      /\ snapshot' = manual /\ wanted' = CutRuns /\ jobs' = {}
      /\ proc' = IF act["cron"].pc = "spawn" THEN [proc EXCEPT ![c] = Dead] ELSE proc
      /\ act' = [act EXCEPT !["cron"] = Idle]
      /\ writer' = [writer EXCEPT !["cron"] = Quiet]
      /\ UNCHANGED <<todo, row, slot, watch, manual, saved, raced, muddled>>
  BY IdleType DEF IInv, TypeInv, Shutdown
<1>2. Quiet.pc = "none" /\ Quiet \in WriterType /\ Dead \in ProcType /\ Dead.state = "dead"
  BY DEF Quiet, WriterType, Dead, ProcType
<1>3. /\ act'["cron"] = Idle /\ \A a \in Actors \ {"cron"} : act'[a] = act[a]
      /\ writer'["cron"] = Quiet /\ \A w \in Writers \ {"cron"} : writer'[w] = writer[w]
  BY <1>1, Names
<1>4. ASSUME NEW a \in Actors, a # "cron" PROVE act[a].pc \notin {"asked", "spawn"}
  <2>1. Role(a)
    BY DEF IInv, ActorInv
  <2>2. a \in Requests \/ a = "dog" \/ a = "life"
    BY <1>4, Names
  <2> QED BY <1>1, <2>1, <2>2 DEF Role, StopPlaces
<1>5. act["cron"].pc = "spawn" => c \in Procs
  BY Names DEF IInv, ActorInv
<1> HIDE DEF c
<1>6. proc' \in [Procs -> ProcType]
  BY <1>1, <1>2, <1>5
<1>7. ASSUME NEW p \in Procs
      PROVE  /\ proc'[p] = proc[p] \/ proc'[p] = Dead
             /\ act["cron"].pc = "spawn" /\ p = c => proc'[p] = Dead
  BY <1>1, <1>5
<1>8. TypeInv'
  <2>1. act' \in [Actors -> ActType] /\ writer' \in [Writers -> WriterType]
    BY <1>1, <1>2, IdleType
  <2> QED BY <1>1, <1>6, <2>1 DEF TypeInv
<1>9. HostInv'
  <2>1. \A t \in CutRuns : t \in manual
    BY <1>1 DEF CutRuns, IInv, CutInv
  <2> QED BY <1>1, <2>1 DEF HostInv
<1>10. ASSUME NEW a \in Actors PROVE ActorInv(a)'
  <2>1. CASE a = "cron"
    <3>1. act'[a].pc = "idle" /\ act'[a].op = None /\ writer'[a].pc = "none"
      BY <1>2, <1>3, <2>1, IdleType
    <3>2. Role(a)'
      BY <2>1, <3>1, Names DEF Role, StartPlaces
    <3> QED BY <3>1, <3>2 DEF ActorInv, TaskPlaces
  <2>2. CASE a # "cron"
    <3>1. /\ ActorInv(a) /\ act'[a] = act[a] /\ writer'[a] = writer[a] /\ act[a].pc # "spawn"
      BY <1>3, <1>4, <2>2, Names DEF IInv
    <3>2. Role(a)'
      BY <1>1, <2>2, <3>1, Names DEF ActorInv, Role, StopPlaces
    <3> QED BY <1>1, <3>1, <3>2 DEF ActorInv
  <2> QED BY <2>1, <2>2
<1>11. ASSUME NEW w \in Writers PROVE WriterInv(w)'
  BY <1>2, <1>3 DEF IInv, WriterInv
<1>12. ASSUME NEW p \in Procs PROVE ProcInv(p)'
  <2>1. ProcInv(p) /\ writer'[p] = writer[p]
    BY <1>3, Names DEF IInv
  <2>2. CASE proc'[p] = Dead
    BY <1>1, <1>2, <2>1, <2>2 DEF ProcInv, Alive
  <2>3. CASE proc'[p] = proc[p] /\ ~ (act["cron"].pc = "spawn" /\ p = c)
    <3>1. \A a \in Actors : ~ (act[a].pc = "spawn" /\ act[a].proc = p)
      BY <1>4, <2>3 DEF c
    <3> QED BY <1>1, <2>1, <2>3, <3>1 DEF ProcInv, Alive
  <2> QED BY <1>7, <2>2, <2>3
<1>13. ASSUME NEW t \in Tasks PROVE SlotInv(t)' /\ StartInv(t)'
  <2>1. Starting(t)' = {}
    BY <1>3, <1>4, IdleType DEF Starting
  <2> QED BY <1>1, <2>1 DEF IInv, SlotInv, StartInv
<1>14. ASSUME NEW t \in Tasks PROVE FlagInv(t)' /\ CutInv(t)' /\ StopInv(t)'
  BY <1>1 DEF FlagInv, CutInv, StopInv
<1> QED BY <1>8, <1>9, <1>10, <1>11, <1>12, <1>13, <1>14 DEF IInv

LEMMA BootKeeps == ASSUME DistinctNames, IInv, Boot PROVE IInv'
<1>1. /\ TypeInv /\ HostInv /\ host = "down" /\ host' = "restoring"
      /\ manual' = saved /\ todo' = (IF snapshot # {} THEN snapshot ELSE saved)
      /\ snapshot' = {} /\ jobs' = Scheduled /\ wanted' = {} /\ muddled' = {}
      /\ row' = [t \in Tasks |-> [row[t] EXCEPT !.flag = FALSE]]
      /\ UNCHANGED <<proc, slot, watch, writer, act, saved, raced>>
  BY DEF IInv, Boot
<1>2. (\A t \in Tasks : slot[t] = None) /\ (\A p \in Procs : watch[p] = "none")
  BY <1>1 DEF HostInv
<1>3. ASSUME NEW a \in Actors PROVE act[a].pc = "idle" /\ writer[a].pc = "none"
  <2>1. Role(a) /\ ActorInv(a)
    BY DEF IInv, ActorInv
  <2>2. a \in Requests \/ a = "cron" \/ a = "dog" \/ a = "life"
    BY Names
  <2>3. act[a].pc = "idle"
    BY <1>1, <2>1, <2>2 DEF Role
  <2> QED BY <2>1, <2>3 DEF ActorInv
<1>4. ASSUME NEW p \in Procs PROVE writer[p].pc = "none"
  BY <1>2 DEF IInv, ProcInv
<1>5. \A w \in Writers : writer[w].pc = "none"
  BY <1>3, <1>4 DEF Writers
<1>6. TypeInv'
  <2>1. row' \in [Tasks -> [there : BOOLEAN, enabled : BOOLEAN, flag : BOOLEAN]]
    BY <1>1 DEF TypeInv
  <2>2. jobs' \subseteq Tasks
    BY <1>1, HostConstants DEF Scheduled
  <2> QED BY <1>1, <2>1, <2>2 DEF TypeInv
<1>7. HostInv'
  BY <1>1 DEF HostInv
<1>8. ASSUME NEW a \in Actors PROVE ActorInv(a)'
  <2>1. ActorInv(a) /\ act[a].pc = "idle"
    BY <1>3 DEF IInv
  <2>2. Role(a)'
    BY <1>1, <2>1 DEF ActorInv, Role, StartPlaces
  <2> QED BY <1>1, <2>1, <2>2 DEF ActorInv
<1>9. ASSUME NEW w \in Writers PROVE WriterInv(w)'
  BY <1>1, <1>5 DEF WriterInv
<1>10. ASSUME NEW p \in Procs PROVE ProcInv(p)'
  BY <1>1 DEF IInv, ProcInv, Alive
<1>11. ASSUME NEW t \in Tasks PROVE SlotInv(t)' /\ StartInv(t)'
  BY <1>1 DEF IInv, SlotInv, StartInv, Starting, Alive
<1>12. ASSUME NEW t \in Tasks PROVE FlagInv(t)'
  <2>1. Writing(t)' = {}
    BY <1>1, <1>5 DEF Writing
  <2>2. row'[t].flag = FALSE
    BY <1>1 DEF TypeInv
  <2> QED BY <1>1, <1>2, <2>1, <2>2 DEF FlagInv
<1>13. ASSUME NEW t \in Tasks PROVE CutInv(t)' /\ StopInv(t)'
  BY <1>1, <1>2 DEF CutInv, StopInv, Running
<1> QED BY <1>6, <1>7, <1>8, <1>9, <1>10, <1>11, <1>12, <1>13 DEF IInv

-----------------------------------------------------------------------------
(* The invariant holds                                                     *)

LEMMA InitKeeps == ASSUME DistinctNames, Init PROVE IInv
<1>1. Quiet.pc = "none" /\ Quiet \in WriterType /\ Dead.state = "dead" /\ Dead \in ProcType
  BY DEF Quiet, WriterType, Dead, ProcType
<1>2. /\ \A a \in Actors : act[a] = Idle /\ writer[a].pc = "none"
      /\ \A w \in Writers : writer[w].pc = "none"
      /\ \A p \in Procs : ~ Alive(p) /\ watch[p] = "none" /\ writer[p].pc = "none"
      /\ \A t \in Tasks : slot[t] = None
      /\ host = "down"
  BY <1>1, Names DEF Init, Alive
<1>3. TypeInv
  <2>1. row \in [Tasks -> [there : BOOLEAN, enabled : BOOLEAN, flag : BOOLEAN]]
    <3> DEFINE rows == {NoRow, NewRow}
    <3>1. rows \subseteq [there : BOOLEAN, enabled : BOOLEAN, flag : BOOLEAN]
      BY DEF NoRow, NewRow
    <3>2. row \in [Tasks -> rows]
      BY DEF Init
    <3> HIDE DEF rows
    <3> QED BY <3>1, <3>2
  <2> QED BY <1>1, <2>1, IdleType DEF Init, TypeInv
<1>4. HostInv
  BY <1>2 DEF Init, HostInv
<1>5. ASSUME NEW a \in Actors PROVE ActorInv(a)
  BY <1>2, IdleType DEF ActorInv, Role, StartPlaces, StopPlaces, TaskPlaces
<1>6. ASSUME NEW w \in Writers PROVE WriterInv(w)
  BY <1>2 DEF WriterInv
<1>7. ASSUME NEW p \in Procs PROVE ProcInv(p)
  BY <1>2 DEF ProcInv
<1>8. ASSUME NEW t \in Tasks PROVE SlotInv(t) /\ StartInv(t)
  <2>1. Starting(t) = {}
    BY <1>2, IdleType DEF Starting
  <2> QED BY <1>2, <2>1 DEF SlotInv, StartInv
<1>9. ASSUME NEW t \in Tasks PROVE FlagInv(t) /\ CutInv(t) /\ StopInv(t)
  BY <1>2 DEF FlagInv, CutInv, StopInv
<1> QED BY <1>3, <1>4, <1>5, <1>6, <1>7, <1>8, <1>9 DEF IInv

LEMMA NextKeeps == ASSUME DistinctNames, IInv, [Next]_vars PROVE IInv'
<1>1. CASE \E a \in Actors : Starts(a) \/ Stops(a)
  <2>1. PICK a \in Actors : Starts(a) \/ Stops(a)
    BY <1>1
  <2>2. CASE Starts(a)
    BY <2>2, BeginKeeps, ReturnsKeep, SpawnKeeps, RegisterKeeps DEF Starts
  <2>3. CASE Stops(a)
    BY <2>3, HaltKeeps, ReapedKeeps, ReturnsKeep DEF Stops
  <2> QED BY <2>1, <2>2, <2>3
<1>2. CASE \E w \in Writers : Writes(w)
  BY <1>2, WritesKeep
<1>3. CASE \E p \in Procs : Exit(p) \/ Killed(p) \/ Reap(p)
  BY <1>3, DieKeeps, ReapKeeps DEF Exit, Killed
<1>4. CASE \E r \in Requests : Request(r)
  BY <1>4, RequestsKeep, DropKeeps, PatchKeeps, CreateKeeps DEF Request
<1>5. CASE \E n \in Tenants : Toggle(n)
  BY <1>5, AllStays DEF Toggle
<1>6. CASE \E t \in Tasks : CronFires(t) \/ Enforce(t)
  BY <1>6, TimersKeep
<1>7. CASE Lifespan
  BY <1>7, BootKeeps, RestoredKeeps, ShutdownKeeps, StopAllKeeps, StoppedKeeps, NextTaskKeeps
     DEF Lifespan
<1>8. CASE Crash
  BY <1>8, CrashKeeps
<1>9. CASE UNCHANGED vars
  BY <1>9, AllStays DEF vars
<1> QED BY <1>1, <1>2, <1>3, <1>4, <1>5, <1>6, <1>7, <1>8, <1>9 DEF Next

LEMMA Inductive == DistinctNames => (Spec => []IInv)
<1>1. DistinctNames /\ Init => IInv
  BY InitKeeps
<1>2. DistinctNames /\ IInv /\ [Next]_vars => IInv'
  BY NextKeeps
<1>3. SUFFICES ASSUME DistinctNames PROVE Spec => []IInv
  OBVIOUS
<1>4. (Init => IInv) /\ (IInv /\ [Next]_vars => IInv')
  BY <1>1, <1>2, <1>3
<1> QED BY <1>4, PTL DEF Spec

-----------------------------------------------------------------------------
(* What follows                                                            *)

\* The tables, the watchers and the coroutines of the web API keep their
\* shape: a process is in ProcessService's table only with its watcher, and a
\* hook runs exactly where a row of tasks is being written.
THEOREM TypeCorrect == DistinctNames => (Spec => []TypeOK)
<1> SUFFICES ASSUME DistinctNames PROVE Spec => []TypeOK
  OBVIOUS
<1>1. ASSUME IInv PROVE TypeOK
  <2>1. /\ TypeInv /\ act \in [Actors -> ActType]
        /\ row \in [Tasks -> [there : BOOLEAN, enabled : BOOLEAN, flag : BOOLEAN]]
    BY <1>1, Shapes DEF IInv
  <2>2. ASSUME NEW a \in Actors
        PROVE  act[a].pc \in Places /\ (act[a].pc = "hook" <=> writer[a].pc # "none")
    BY <1>1, <2>1 DEF IInv, ActorInv, ActType
  <2>3. \A t \in Tasks : slot[t] # None => watch[slot[t]] = "waiting"
    BY <1>1 DEF IInv, SlotInv
  <2>4. \A p \in Procs : (watch[p] = "hook") <=> (writer[p].pc # "none")
    BY <1>1 DEF IInv, ProcInv
  <2> QED BY <2>1, <2>2, <2>3, <2>4 DEF TypeOK, TypeInv
<1>2. IInv => TypeOK
  BY <1>1
<1> QED BY <1>2, Inductive, PTL

\* No spider is lost from sight: unless two starts of its task overlapped or it
\* outlived a host, a live one is in ProcessService's table, where stop_task
\* and the watcher find it, or its start is still in create_subprocess_exec.
THEOREM NoSpiderLost == DistinctNames => (Spec => []NoStraySpider)
<1> SUFFICES ASSUME DistinctNames PROVE Spec => []NoStraySpider
  OBVIOUS
<1>1. IInv => NoStraySpider
  BY DEF IInv, ProcInv, NoStraySpider
<1> QED BY <1>1, Inductive, PTL

\* The hooks leave the right is_running behind: with the host up, nobody
\* writing the row and no writers of it that overlapped, the flag says whether
\* the task has a process.
THEOREM FlagAlwaysSettles == DistinctNames => (Spec => []FlagSettles)
<1> SUFFICES ASSUME DistinctNames PROVE Spec => []FlagSettles
  OBVIOUS
<1>1. IInv => FlagSettles
  BY DEF IInv, FlagInv, FlagSettles
<1> QED BY <1>1, Inductive, PTL

\* Only the start of the lifespan takes the host from down to restoring.
LEMMA OnlyBootStarts ==
  ASSUME [Next]_vars, host = "down", host' = "restoring"
  PROVE  Boot
<1>1. ~ UNCHANGED vars
  BY DEF vars
<1>2. ASSUME NEW a \in Actors PROVE ~ Starts(a) /\ ~ Stops(a)
  BY DEF Starts, Stops, Begin, Drained, Refused, Spawn, Register, Halt, Reaped, Halted
<1>3. ASSUME NEW w \in Writers PROVE ~ Writes(w)
  BY DEF Writes, ReadFlag, ReadRow, Replace
<1>4. ASSUME NEW p \in Procs PROVE ~ Exit(p) /\ ~ Killed(p) /\ ~ Reap(p)
  BY DEF Exit, Killed, Die, Reap
<1>5. ASSUME NEW r \in Requests PROVE ~ Request(r)
  BY DEF Request, RequestStart, RequestStop, RequestDelete, RequestPatch, RequestCreate,
         RequestClose, Sweep, Drop, ReadTasks, ReloadJobs
<1>6. ASSUME NEW t \in Tasks PROVE ~ CronFires(t) /\ ~ Enforce(t) /\ ~ Restore(t) /\ ~ StopNext(t)
  BY DEF CronFires, Enforce, Restore, StopNext
<1>7. /\ \A n \in Tenants : ~ Toggle(n)
      /\ ~ Crash /\ ~ Restored /\ ~ Shutdown /\ ~ StopAll /\ ~ Stopped
  BY DEF Toggle, Crash, Restored, Shutdown, StopAll, Stopped
<1> QED BY <1>1, <1>2, <1>3, <1>4, <1>5, <1>6, <1>7 DEF Next, Lifespan

\* What was started by hand and ran when the host ended, by a shutdown or by a
\* crash at any point, is among what restore_manual_tasks goes through when the
\* host starts again.
THEOREM CutRunsAlwaysRestored == DistinctNames => (Spec => CutRunsAreRestored)
<1> SUFFICES ASSUME DistinctNames PROVE Spec => CutRunsAreRestored
  OBVIOUS
<1>1. ASSUME IInv, [Next]_vars, host = "down", host' = "restoring"
      PROVE  wanted \subseteq todo'
  <2>1. Boot
    BY <1>1, OnlyBootStarts
  <2> QED BY <1>1, <2>1 DEF Boot, IInv, HostInv
<1>2. IInv /\ [Next]_vars => [host = "down" /\ host' = "restoring" => wanted \subseteq todo']_vars
  BY <1>1
<1> QED BY <1>2, Inductive, PTL DEF Spec, CutRunsAreRestored
=============================================================================
