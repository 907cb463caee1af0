------------------------- MODULE SpiderItems_proofs -------------------------
(***************************************************************************)
(* Theorems about SpiderItems: for any set of items, sellers and login     *)
(* states, any limits, and any number of faults and deletions.             *)
(***************************************************************************)
EXTENDS SpiderItems, FiniteSetTheorems, TLAPS

-----------------------------------------------------------------------------
(* The inductive invariant                                                 *)

Places == {"idle", "select", "opening", "filters", "page", "items", "detail", "joining", "ended"}

RunType ==
    [pc : Places, plan : {"forced", "root", "pool", "none"}, ttl : Nat,
     sel : Logins \cup {None}, bad : SUBSET Logins,
     attempt : 0..AttemptLimit, page : 0..(MaxPages + 1),
     limit : DebugLimits \cup {0}, todo : SUBSET Items,
     at : Items \cup {None}, got : Nat, links : SUBSET Items,
     why : {"none", "return", "closed", "login", "risk", "raise", "cancel"},
     outcome : {"none", "skipped", "success", "failure", "cancelled", "killed"}]

PastType == [known : SUBSET Items, analysed : [Items -> Nat], told : [Items -> Nat],
             visits : [Sellers -> Nat], lapses : [Sellers -> Nat]]

TypeInv ==
    /\ run \in RunType
    /\ job \in [Items -> Over \cup Active \cup {"queued"}]
    /\ load \in [Sellers -> {"none", "running", "stored", "raised"}]
    /\ profile \in SUBSET Sellers
    /\ result \in [Items -> {None, "mine", "other"}]
    /\ past \in PastType
    /\ faults \in 0..MaxFaults /\ deletes \in 0..MaxDeletes

\* No browser is open, or it was just opened.
Quiet == {"idle", "select", "opening", "ended"}
\* No attempt is going on.
Between == {"idle", "select", "ended"}

\* Where the run is says what its locals are.
WalkInv ==
    /\ run.pc = "select" => run.attempt < AttemptLimit
    /\ run.pc \notin Between => run.attempt > 0
    /\ run.attempt > 0 => run.sel \in Logins
    /\ run.pc \in {"items", "detail"} => run.page <= MaxPages
    /\ run.pc = "detail" => run.at \in Items \ run.links
    /\ run.pc = "idle" => run.links = {} /\ run.attempt = 0
    /\ run.outcome = "success" => run.pc = "ended"
    /\ past.known \subseteq run.links

\* An item has a task exactly if this run submitted it, and how far the task
\* is says what was done for the item.
ItemInv(i) ==
    /\ run.pc \in Quiet => job[i] \in Over
    /\ job[i] # "none" <=> i \in run.links \ past.known
    /\ job[i] \in {"none", "queued", "seller", "loading", "analyse"} => past.analysed[i] = 0
    /\ past.analysed[i] <= 1
    /\ job[i] \in {"save", "notify"} => past.told[i] = 0
    /\ job[i] \in {"save", "notify", "done"} => past.analysed[i] = 1
    /\ past.told[i] <= past.analysed[i]
    /\ i \in run.links /\ faults = 0 /\ deletes = 0 =>
         result[i] # None \/ job[i] \in {"queued", "seller", "loading", "analyse", "save"}

\* A load in flight has someone who waits for it; a visit of this attempt
\* shows in the cache, or is in flight, or was in vain.
SellerInv(s) ==
    /\ load[s] # "none" => \E i \in Items : job[i] = "loading" /\ SellerOf[i] = s
    /\ past.visits[s] <= past.lapses[s] + run.attempt
    /\ s \notin profile /\ load[s] # "running" /\ run.pc \notin Between =>
         past.visits[s] < past.lapses[s] + run.attempt

IInv ==
    /\ TypeInv /\ WalkInv
    /\ \A i \in Items : ItemInv(i)
    /\ \A s \in Sellers : SellerInv(s)

-----------------------------------------------------------------------------
(* Limits                                                                  *)

LEMMA Limits == AttemptLimit \in Nat /\ AttemptLimit >= 1 /\ MaxPages \in Nat /\ MaxPages >= 1
  BY ItemConstants DEF AttemptLimit, Retries

\* No element of these sets is in another.
LEMMA JobStates == /\ \A x \in Over : x \notin Active /\ x # "queued"
                   /\ "none" \in Over /\ "done" \in Over /\ "dropped" \in Over
  BY DEF Over, Active

-----------------------------------------------------------------------------
(* The steps of the walk                                                   *)

\* A step that writes r to run, and leaves the items and sellers alone.
LEMMA WalkMoves ==
  ASSUME IInv, NEW r \in RunType, run' = r,
         r.links = run.links, r.attempt = run.attempt, r.sel = run.sel,
         UNCHANGED <<job, load, profile, result, past, deletes>>,
         faults' \in 0..MaxFaults, faults' >= faults,
         r.pc \in Quiet => run.pc \in Quiet \/ \A i \in Items : job[i] \in Over,
         r.pc \notin Between => run.pc \notin Between,
         r.pc = "select" => r.attempt < AttemptLimit,
         r.pc \in {"items", "detail"} => r.page <= MaxPages,
         r.pc = "detail" => r.at \in Items \ run.links,
         r.pc # "idle", r.outcome = "success" => r.pc = "ended"
  PROVE  IInv'
<1>1. TypeInv'
  BY DEF IInv, TypeInv
<1>2. WalkInv'
  BY DEF IInv, WalkInv
<1>3. faults' = 0 => faults = 0
  BY ItemConstants DEF IInv, TypeInv
<1>4. ASSUME NEW i \in Items PROVE ItemInv(i)'
  BY <1>3 DEF IInv, ItemInv
<1>5. ASSUME NEW s \in Sellers PROVE SellerInv(s)'
  BY DEF IInv, SellerInv
<1> QED BY <1>1, <1>2, <1>4, <1>5 DEF IInv

LEMMA LeaveMoves ==
  ASSUME IInv, NEW why \in {"return", "closed", "login", "risk", "raise", "cancel"}, Leave(why),
         run.pc \notin Between,
         UNCHANGED <<job, load, profile, result, past, deletes>>,
         faults' \in 0..MaxFaults, faults' >= faults
  PROVE  IInv'
<1> DEFINE r == [run EXCEPT !.pc = "joining", !.why = why, !.todo = {}, !.at = None]
<1>1. run \in RunType /\ WalkInv /\ run' = r
  BY DEF IInv, TypeInv, Leave
<1>2. /\ r.pc = "joining" /\ r.links = run.links
      /\ r.attempt = run.attempt /\ r.sel = run.sel /\ r.outcome = run.outcome
  BY <1>1 DEF RunType
<1>4. r \in RunType
  BY <1>1 DEF RunType, Places
<1> HIDE DEF r
<1>3. r.outcome # "success"
  BY <1>1, <1>2 DEF WalkInv, Between
<1> QED BY <1>1, <1>2, <1>3, <1>4, WalkMoves DEF Quiet

LEMMA FaultCounts ==
  ASSUME TypeInv, Fault \/ UNCHANGED faults
  PROVE  faults' \in 0..MaxFaults /\ faults' >= faults /\ (Fault => faults' # 0)
BY ItemConstants DEF TypeInv, Fault

LEMMA LeavingKeeps ==
  ASSUME IInv,
         OpenFails \/ FilterFails \/ PagesEnd \/ PageFails \/ LimitReached
  PROVE  IInv'
<1>1. TypeInv
  BY DEF IInv
<1>2. UNCHANGED <<job, load, profile, result, past, deletes>>
  BY DEF OpenFails, FilterFails, PagesEnd, PageFails, LimitReached
<1>3. PICK why \in {"return", "closed", "login", "risk", "raise", "cancel"} : Leave(why)
  BY DEF OpenFails, FilterFails, PagesEnd, PageFails, LimitReached
<1>4. run.pc \notin Between /\ (Fault \/ UNCHANGED faults)
  BY DEF OpenFails, FilterFails, PagesEnd, PageFails, LimitReached, Between
<1> QED BY <1>1, <1>2, <1>3, <1>4, LeaveMoves, FaultCounts

LEMMA WalkingKeeps ==
  ASSUME IInv,
         Open \/ Filter \/ ListPage \/ SkipPage \/ TakeItem \/ PageDone \/ Miss
  PROVE  IInv'
<1>1. TypeInv /\ WalkInv /\ run \in RunType
  BY DEF IInv, TypeInv
<1>2. /\ UNCHANGED <<job, load, profile, result, past, deletes, faults>>
      /\ faults' \in 0..MaxFaults /\ faults' >= faults
  <2>1. UNCHANGED <<job, load, profile, result, past, deletes, faults>>
    BY DEF Open, Filter, ListPage, SkipPage, TakeItem, PageDone, Miss
  <2> QED BY <1>1, <2>1, FaultCounts
<1>3. run.outcome = "success" => run.pc = "ended"
  BY <1>1 DEF WalkInv
<1>4. CASE Open
  <2> DEFINE r == [run EXCEPT !.pc = "filters"]
  <2>1. run' = r /\ run.pc = "opening"
    BY <1>4 DEF Open
  <2>2. /\ r.pc = "filters" /\ r.links = run.links /\ r.attempt = run.attempt
        /\ r.sel = run.sel /\ r.outcome = run.outcome
    BY <1>1 DEF RunType
  <2>3. r \in RunType
    BY <1>1 DEF RunType, Places
  <2> HIDE DEF r
  <2> QED BY <1>2, <1>3, <2>1, <2>2, <2>3, WalkMoves DEF Quiet, Between
<1>5. CASE Filter
  <2> DEFINE r == [run EXCEPT !.pc = "page", !.page = 1]
  <2>1. run' = r /\ run.pc = "filters"
    BY <1>5 DEF Filter
  <2>2. /\ r.pc = "page" /\ r.links = run.links /\ r.attempt = run.attempt
        /\ r.sel = run.sel /\ r.outcome = run.outcome
    BY <1>1 DEF RunType
  <2>4. 1 \in 0..(MaxPages + 1)
    BY Limits
  <2>3. r \in RunType
    BY <1>1, <2>4 DEF RunType, Places
  <2> HIDE DEF r
  <2> QED BY <1>2, <1>3, <2>1, <2>2, <2>3, WalkMoves DEF Quiet, Between
<1>6. CASE ListPage
  <2>1. PICK listed \in SUBSET Items : run' = [run EXCEPT !.pc = "items", !.todo = listed]
    BY <1>6 DEF ListPage
  <2> DEFINE r == [run EXCEPT !.pc = "items", !.todo = listed]
  <2>2. run' = r /\ run.pc = "page" /\ run.page <= MaxPages
    BY <1>6, <2>1 DEF ListPage
  <2>3. /\ r.pc = "items" /\ r.links = run.links /\ r.attempt = run.attempt
        /\ r.sel = run.sel /\ r.outcome = run.outcome /\ r.page = run.page
    BY <1>1 DEF RunType
  <2>4. r \in RunType
    BY <1>1 DEF RunType, Places
  <2> HIDE DEF r
  <2> QED BY <1>2, <1>3, <2>2, <2>3, <2>4, WalkMoves DEF Quiet, Between
<1>7. CASE SkipPage \/ PageDone
  <2> DEFINE k == run.page + 1
  <2>1. PICK todo \in SUBSET Items :
          run' = [run EXCEPT !.pc = "page", !.page = k, !.todo = todo]
    <3>1. CASE SkipPage
      <4>1. [run EXCEPT !.pc = "page", !.page = k, !.todo = run.todo] = [run EXCEPT !.page = k]
        BY <1>1, <3>1 DEF SkipPage, RunType
      <4>2. run' = [run EXCEPT !.page = k] /\ run.todo \in SUBSET Items
        BY <1>1, <3>1 DEF SkipPage, RunType
      <4> QED BY <4>1, <4>2
    <3>2. CASE PageDone
      BY <3>2 DEF PageDone
    <3> QED BY <1>7, <3>1, <3>2
  <2> DEFINE r == [run EXCEPT !.pc = "page", !.page = k, !.todo = todo]
  <2>2. run' = r
    BY <2>1
  <2>3. run.page \in 0..MaxPages /\ run.pc \in {"page", "items"}
    <3>1. run.page \in 0..(MaxPages + 1)
      BY <1>1 DEF RunType
    <3> QED BY <1>1, <1>7, <3>1, Limits DEF SkipPage, PageDone, WalkInv
  <2>4. k \in 0..(MaxPages + 1)
    BY <2>3, Limits
  <2> HIDE DEF k
  <2>5. /\ r.pc = "page" /\ r.links = run.links /\ r.attempt = run.attempt
        /\ r.sel = run.sel /\ r.outcome = run.outcome
    BY <1>1 DEF RunType
  <2>6. r \in RunType
    BY <1>1, <2>4 DEF RunType, Places
  <2> HIDE DEF r
  <2> QED BY <1>2, <1>3, <2>2, <2>3, <2>5, <2>6, WalkMoves DEF Quiet, Between
<1>8. CASE TakeItem
  <2>1. PICK i \in run.todo \ run.links :
          run' = [run EXCEPT !.pc = "detail", !.at = i, !.todo = run.todo \ {i}]
    BY <1>1, <1>8 DEF TakeItem, RunType
  <2> DEFINE rest == run.todo \ {i}
             r == [run EXCEPT !.pc = "detail", !.at = i, !.todo = rest]
  <2>2. run' = r /\ run.pc = "items"
    BY <1>8, <2>1 DEF TakeItem
  <2>3. i \in Items \ run.links /\ rest \in SUBSET Items
    BY <1>1, <2>1 DEF RunType
  <2> HIDE DEF rest
  <2>4. /\ r.pc = "detail" /\ r.links = run.links /\ r.attempt = run.attempt
        /\ r.sel = run.sel /\ r.outcome = run.outcome /\ r.page = run.page /\ r.at = i
    BY <1>1 DEF RunType
  <2>5. r \in RunType
    BY <1>1, <2>3 DEF RunType, Places
  <2> HIDE DEF r
  <2>6. run.page <= MaxPages
    BY <1>1, <2>2 DEF WalkInv
  <2> QED BY <1>2, <1>3, <2>2, <2>3, <2>4, <2>5, <2>6, WalkMoves DEF Quiet, Between
<1>9. CASE Miss
  <2> DEFINE r == [run EXCEPT !.pc = "items", !.at = None]
  <2>1. run' = r /\ run.pc = "detail" /\ run.page <= MaxPages
    BY <1>1, <1>9 DEF Miss, WalkInv
  <2>2. /\ r.pc = "items" /\ r.links = run.links /\ r.attempt = run.attempt
        /\ r.sel = run.sel /\ r.outcome = run.outcome /\ r.page = run.page
    BY <1>1 DEF RunType
  <2>3. r \in RunType
    BY <1>1 DEF RunType, Places
  <2> HIDE DEF r
  <2> QED BY <1>2, <1>3, <2>1, <2>2, <2>3, WalkMoves DEF Quiet, Between
<1> QED BY <1>4, <1>5, <1>6, <1>7, <1>8, <1>9

LEMMA EndingKeeps == ASSUME IInv, Skip \/ Join PROVE IInv'
<1>1. TypeInv /\ WalkInv /\ run \in RunType
  BY DEF IInv, TypeInv
<1>2. /\ UNCHANGED <<job, load, profile, result, past, deletes, faults>>
      /\ faults' \in 0..MaxFaults /\ faults' >= faults
  <2>1. UNCHANGED <<job, load, profile, result, past, deletes, faults>>
    BY DEF Skip, Join
  <2> QED BY <1>1, <2>1, FaultCounts
<1>3. run.outcome # "success" /\ (run.pc \in Quiet \/ \A i \in Items : job[i] \in Over)
  BY <1>1 DEF WalkInv, Skip, Join, Quiet
<1>4. CASE run' = [run EXCEPT !.pc = "select"] /\ run.attempt < AttemptLimit
  <2> DEFINE r == [run EXCEPT !.pc = "select"]
  <2>1. /\ r.pc = "select" /\ r.links = run.links /\ r.attempt = run.attempt
        /\ r.sel = run.sel /\ r.outcome = run.outcome
    BY <1>1 DEF RunType
  <2>2. r \in RunType
    BY <1>1 DEF RunType, Places
  <2>3. run' = r
    BY <1>4
  <2> HIDE DEF r
  <2> QED BY <1>2, <1>3, <1>4, <2>1, <2>2, <2>3, WalkMoves DEF Between
<1>5. ASSUME NEW o \in {"skipped", "success", "failure", "cancelled"},
             run' = [run EXCEPT !.pc = "ended", !.outcome = o]
      PROVE  IInv'
  <2> DEFINE r == [run EXCEPT !.pc = "ended", !.outcome = o]
  <2>1. /\ r.pc = "ended" /\ r.links = run.links /\ r.attempt = run.attempt /\ r.sel = run.sel
    BY <1>1 DEF RunType
  <2>2. r \in RunType
    BY <1>1 DEF RunType, Places
  <2>3. run' = r
    BY <1>5
  <2> HIDE DEF r
  <2> QED BY <1>2, <1>3, <2>1, <2>2, <2>3, WalkMoves DEF Between
<1>6. \/ run' = [run EXCEPT !.pc = "select"] /\ run.attempt < AttemptLimit
      \/ \E o \in {"skipped", "success", "failure", "cancelled"} :
            run' = [run EXCEPT !.pc = "ended", !.outcome = o]
  BY DEF Skip, Join, AttemptEnds
<1> QED BY <1>4, <1>5, <1>6

\* The run is over at once, and every task and load of the dispatcher with it.
LEMMA DroppedKeeps ==
  ASSUME IInv, NEW o \in {"cancelled", "killed"},
         run' = [run EXCEPT !.pc = "ended", !.outcome = o], Dropped, Fault,
         UNCHANGED <<profile, result, past, deletes>>
  PROVE  IInv'
<1> DEFINE r == [run EXCEPT !.pc = "ended", !.outcome = o]
<1>1. TypeInv /\ WalkInv /\ run \in RunType /\ past \in PastType
  BY DEF IInv, TypeInv
<1>2. /\ r.pc = "ended" /\ r.links = run.links /\ r.attempt = run.attempt
      /\ r.sel = run.sel /\ r.outcome = o
  BY <1>1 DEF RunType
<1>3. r \in RunType
  BY <1>1 DEF RunType, Places
<1> HIDE DEF r
<1>4. run' = r /\ faults' \in 0..MaxFaults /\ faults' # 0
  BY <1>1, FaultCounts DEF r
<1>5. ASSUME NEW i \in Items
      PROVE  job'[i] = IF job[i] \in Over THEN job[i] ELSE "dropped"
  BY DEF Dropped
<1>6. TypeInv'
  BY <1>1, <1>3, <1>4, <1>5, JobStates DEF TypeInv, Dropped
<1>7. WalkInv'
  BY <1>1, <1>2, <1>4 DEF WalkInv, Between
<1>8. ASSUME NEW i \in Items PROVE ItemInv(i)'
  <2>1. ItemInv(i) /\ past.analysed[i] \in Nat /\ past.told[i] \in Nat
    BY <1>1 DEF IInv, PastType
  <2>2. CASE job[i] \in Over
    BY <1>2, <1>4, <1>5, <2>1, <2>2 DEF ItemInv
  <2>3. CASE job[i] \notin Over
    <3>1. job'[i] = "dropped" /\ job[i] # "none"
      BY <1>5, <2>3, JobStates
    <3> QED BY <1>2, <1>4, <2>1, <3>1, JobStates DEF ItemInv
  <2> QED BY <2>2, <2>3
<1>9. ASSUME NEW s \in Sellers PROVE SellerInv(s)'
  <2>1. SellerInv(s) /\ load'[s] = "none"
    BY DEF IInv, Dropped
  <2> QED BY <1>2, <1>4, <2>1 DEF SellerInv, Between
<1> QED BY <1>6, <1>7, <1>8, <1>9 DEF IInv

LEMMA StopKeeps == ASSUME IInv, Cancel \/ Kill PROVE IInv'
<1>1. Fault /\ UNCHANGED <<profile, result, past, deletes>>
  BY DEF Cancel, Kill
<1>2. CASE Dropped /\ \E o \in {"cancelled", "killed"} : run' = [run EXCEPT !.pc = "ended", !.outcome = o]
  BY <1>1, <1>2, DroppedKeeps
<1>3. CASE run.pc \notin Between /\ Leave("cancel") /\ UNCHANGED <<job, load>>
  BY <1>1, <1>3, LeaveMoves, FaultCounts DEF IInv
<1> QED BY <1>2, <1>3 DEF Cancel, Kill, Between

LEMMA StartKeeps == ASSUME IInv, Start PROVE IInv'
<1>1. TypeInv /\ WalkInv /\ run \in RunType /\ past \in PastType /\ run.pc = "idle"
  BY DEF IInv, TypeInv, Start
<1>2. PICK strategy \in Strategies, bound \in BOOLEAN, root \in BOOLEAN, limit \in DebugLimits,
           ttl \in BlacklistTtls :
        run' = [run EXCEPT !.pc = "select", !.links = Stored, !.limit = limit,
                           !.plan = Plan(strategy, bound, root), !.ttl = Ttl(ttl)]
  BY DEF Start
<1> DEFINE plan == Plan(strategy, bound, root)
           left == Ttl(ttl)
           r == [run EXCEPT !.pc = "select", !.links = Stored, !.limit = limit, !.plan = plan,
                            !.ttl = left]
           p == [past EXCEPT !.known = Stored]
<1>3. Stored \in SUBSET Items /\ \A i \in Items : i \in Stored <=> result[i] # None
  BY DEF Stored
<1>4. plan \in {"forced", "root", "pool", "none"}
  BY DEF Plan
<1>4a. left \in Nat
  BY ItemConstants DEF Ttl
<1>5. /\ run' = r /\ past' = p
      /\ UNCHANGED <<job, load, profile, result, faults, deletes>>
  BY <1>2 DEF Start
<1> HIDE DEF plan, left
<1>6. /\ r.pc = "select" /\ r.links = Stored /\ r.attempt = run.attempt
      /\ r.sel = run.sel /\ r.outcome = run.outcome
  BY <1>1 DEF RunType
<1>7. r \in RunType
  BY <1>1, <1>3, <1>4, <1>4a DEF RunType, Places
<1>8. /\ p \in PastType /\ p.known = Stored /\ p.analysed = past.analysed /\ p.told = past.told
      /\ p.visits = past.visits /\ p.lapses = past.lapses
  BY <1>1, <1>3 DEF PastType
<1> HIDE DEF r, p
<1>9. TypeInv'
  BY <1>1, <1>5, <1>7, <1>8 DEF TypeInv
<1>10. WalkInv'
  BY <1>1, <1>5, <1>6, <1>8, Limits DEF WalkInv, Between
<1>11. ASSUME NEW i \in Items PROVE ItemInv(i)'
  <2>1. ItemInv(i) /\ job[i] = "none"
    BY <1>1 DEF IInv, ItemInv, WalkInv
  <2> QED BY <1>3, <1>5, <1>6, <1>8, <2>1, JobStates DEF ItemInv
<1>12. ASSUME NEW s \in Sellers PROVE SellerInv(s)'
  BY <1>5, <1>6, <1>8 DEF IInv, SellerInv, Between
<1> QED BY <1>9, <1>10, <1>11, <1>12 DEF IInv

LEMMA PicksType ==
  ASSUME TypeInv, NEW usable \in SUBSET Accounts
  PROVE  Picks(usable) \subseteq Logins \cup {None}
<1>1. run.plan \in {"forced", "root", "pool", "none"} /\ run.sel \in Logins \cup {None}
  BY DEF TypeInv, RunType
<1> QED BY <1>1 DEF Picks, Logins

LEMMA RotatedType ==
  ASSUME TypeInv, run.sel \in Logins
  PROVE  Rotated \subseteq (Logins \cup {None}) \X SUBSET Logins
<1>1. run.bad \in SUBSET Logins
  BY DEF TypeInv, RunType
<1>2. ASSUME NEW kept \in SUBSET run.bad,
             NEW login \in Picks(Accounts \ (kept \cup Marked))
      PROVE  <<login, kept \cup Marked>> \in (Logins \cup {None}) \X SUBSET Logins
  <2>1. login \in Logins \cup {None}
    BY PicksType
  <2>2. kept \cup Marked \in SUBSET Logins
    BY <1>1 DEF Marked
  <2> QED BY <2>1, <2>2
<1>3. ASSUME NEW next \in Rotated PROVE next \in (Logins \cup {None}) \X SUBSET Logins
  <2>1. PICK kept \in SUBSET run.bad :
          next \in {<<login, kept \cup Marked>> : login \in Picks(Accounts \ (kept \cup Marked))}
    BY DEF Rotated
  <2>2. PICK login \in Picks(Accounts \ (kept \cup Marked)) :
          next = <<login, kept \cup Marked>>
    BY <2>1
  <2> QED BY <1>2, <2>2
<1> QED BY <1>3

\* A new attempt: whatever the last one had in flight is over.
LEMMA SelectKeeps == ASSUME IInv, Select PROVE IInv'
<1>1. TypeInv /\ WalkInv /\ run \in RunType /\ past \in PastType /\ run.pc = "select"
  BY DEF IInv, TypeInv, Select
<1>2. PICK next \in (Logins \cup {None}) \X SUBSET Logins :
         IF next[1] = None
           THEN run' = [run EXCEPT !.pc = "ended", !.outcome = "failure"]
           ELSE run' = [run EXCEPT !.pc = "opening", !.sel = next[1],
                                   !.bad = next[2], !.got = 0,
                                   !.attempt = run.attempt + 1, !.why = "none"]
  <2>1. Picks(Accounts) \X {{}} \subseteq (Logins \cup {None}) \X SUBSET Logins
    BY <1>1, PicksType
  <2>2. run.attempt # 0 => Rotated \subseteq (Logins \cup {None}) \X SUBSET Logins
    <3>1. run.attempt \in Nat
      BY <1>1, Limits DEF RunType
    <3> QED BY <1>1, <3>1, RotatedType DEF WalkInv
  <2>3. <<run.sel, run.bad>> \in (Logins \cup {None}) \X SUBSET Logins
    BY <1>1 DEF RunType
  <2> QED BY <2>1, <2>2, <2>3 DEF Select
<1>3. /\ profile' = {} /\ UNCHANGED <<job, load, result, past, faults, deletes>>
  BY DEF Select
<1>4. ASSUME NEW i \in Items PROVE job[i] \in Over /\ job[i] # "loading"
  BY <1>1 DEF IInv, ItemInv, Quiet, Over
<1>5. ASSUME NEW s \in Sellers PROVE load[s] = "none"
  BY <1>4 DEF IInv, SellerInv
<1>6. CASE next[1] = None
  <2> DEFINE r == [run EXCEPT !.pc = "ended", !.outcome = "failure"]
  <2>1. /\ r.pc = "ended" /\ r.links = run.links /\ r.attempt = run.attempt
        /\ r.sel = run.sel /\ r.outcome = "failure"
    BY <1>1 DEF RunType
  <2>2. r \in RunType
    BY <1>1 DEF RunType, Places
  <2>3. run' = r
    BY <1>2, <1>6
  <2> HIDE DEF r
  <2>4. TypeInv'
    BY <1>1, <1>3, <2>2, <2>3 DEF TypeInv
  <2>5. WalkInv'
    BY <1>1, <1>3, <2>1, <2>3 DEF WalkInv, Between
  <2>6. ASSUME NEW i \in Items PROVE ItemInv(i)'
    BY <1>3, <1>4, <2>1, <2>3 DEF IInv, ItemInv
  <2>7. ASSUME NEW s \in Sellers PROVE SellerInv(s)'
    BY <1>3, <2>1, <2>3 DEF IInv, SellerInv, Between
  <2> QED BY <2>4, <2>5, <2>6, <2>7 DEF IInv
<1>7. CASE next[1] # None
  <2> DEFINE k == run.attempt + 1
             login == next[1]
             bad == next[2]
             r == [run EXCEPT !.pc = "opening", !.sel = login, !.bad = bad, !.got = 0,
                              !.attempt = k, !.why = "none"]
  <2>1. run.attempt \in Nat /\ k \in 1..AttemptLimit /\ k \in 0..AttemptLimit /\ k = run.attempt + 1
    <3>1. run.attempt \in 0..AttemptLimit
      BY <1>1 DEF RunType
    <3> QED BY <1>1, <3>1, Limits DEF WalkInv
  <2>2. run' = r
    BY <1>2, <1>7
  <2>3. login \in Logins /\ bad \in SUBSET Logins
    BY <1>7
  <2> HIDE DEF k, login, bad
  <2>4. /\ r.pc = "opening" /\ r.links = run.links /\ r.attempt = k
        /\ r.sel = login /\ r.outcome = run.outcome
    BY <1>1 DEF RunType
  <2>5. r \in RunType
    BY <1>1, <2>1, <2>3 DEF RunType, Places
  <2> HIDE DEF r
  <2>6. TypeInv'
    BY <1>1, <1>3, <2>2, <2>5 DEF TypeInv
  <2>7. WalkInv'
    BY <1>1, <1>3, <2>1, <2>2, <2>3, <2>4 DEF WalkInv
  <2>8. ASSUME NEW i \in Items PROVE ItemInv(i)'
    BY <1>3, <1>4, <2>2, <2>4 DEF IInv, ItemInv
  <2>9. ASSUME NEW s \in Sellers PROVE SellerInv(s)'
    <3>1. /\ past.visits[s] \in Nat /\ past.lapses[s] \in Nat
          /\ past.visits[s] <= past.lapses[s] + run.attempt
      BY <1>1 DEF IInv, SellerInv, PastType
    <3>2. past.visits[s] < past.lapses[s] + k
      BY <2>1, <3>1
    <3>3. load'[s] = "none" /\ past' = past /\ run'.attempt = k
      BY <1>3, <1>5, <2>2, <2>4
    <3>4. past.visits[s] <= past.lapses[s] + k
      BY <2>1, <3>1
    <3> QED BY <3>2, <3>3, <3>4 DEF SellerInv
  <2> QED BY <2>6, <2>7, <2>8, <2>9 DEF IInv
<1> QED BY <1>6, <1>7

LEMMA SubmitKeeps == ASSUME IInv, Submit PROVE IInv'
<1>1. /\ TypeInv /\ WalkInv /\ run \in RunType /\ past \in PastType /\ run.pc = "detail"
      /\ run.at \in Items \ run.links /\ run.page <= MaxPages /\ run.got \in Nat
  BY DEF IInv, TypeInv, Submit, WalkInv, RunType
<1> DEFINE n == run.got + 1
           links == run.links \cup {run.at}
           r == [run EXCEPT !.pc = "items", !.at = None, !.got = n, !.links = links]
<1>2. /\ run' = r /\ job' = [job EXCEPT ![run.at] = "queued"]
      /\ UNCHANGED <<load, profile, result, past, faults, deletes>>
  BY DEF Submit
<1>3. n \in Nat /\ links \in SUBSET Items
  BY <1>1 DEF RunType
<1> HIDE DEF n
<1>4. /\ r.pc = "items" /\ r.links = links /\ r.attempt = run.attempt
      /\ r.sel = run.sel /\ r.outcome = run.outcome /\ r.page = run.page
  BY <1>1 DEF RunType
<1> HIDE DEF links
<1>5. r \in RunType
  BY <1>1, <1>3 DEF RunType, Places
<1> HIDE DEF r
<1>6. TypeInv'
  BY <1>1, <1>2, <1>5 DEF TypeInv
<1>7. WalkInv'
  BY <1>1, <1>2, <1>4 DEF WalkInv, Between, links
<1>8. ASSUME NEW i \in Items PROVE ItemInv(i)'
  <2>1. CASE i = run.at
    <3>1. ItemInv(i) /\ job[i] = "none" /\ job'[i] = "queued" /\ i \notin past.known
      BY <1>1, <1>2, <2>1 DEF IInv, ItemInv, WalkInv, TypeInv
    <3> QED BY <1>1, <1>2, <1>4, <2>1, <3>1 DEF ItemInv, Quiet, links
  <2>2. CASE i # run.at
    <3>1. ItemInv(i) /\ job'[i] = job[i]
      BY <1>1, <1>2, <2>2 DEF IInv, TypeInv
    <3> QED BY <1>1, <1>2, <1>4, <2>2, <3>1 DEF ItemInv, Quiet, links
  <2> QED BY <2>1, <2>2
<1>9. ASSUME NEW s \in Sellers PROVE SellerInv(s)'
  <2>1. SellerInv(s)
    BY DEF IInv
  <2>2. ASSUME NEW i \in Items, job[i] = "loading" PROVE job'[i] = "loading"
    <3>1. job[run.at] = "none"
      BY <1>1 DEF IInv, ItemInv
    <3> QED BY <1>1, <1>2, <2>2, <3>1 DEF TypeInv
  <2> QED BY <1>1, <1>2, <1>4, <2>1, <2>2 DEF SellerInv, Between
<1> QED BY <1>6, <1>7, <1>8, <1>9 DEF IInv

-----------------------------------------------------------------------------
(* The steps of the tasks and of the cache                                 *)

\* What a task that is not over says of its item and of the run.
LEMMA UnderWay ==
  ASSUME IInv, NEW i \in Items, job[i] \notin Over
  PROVE  /\ run.pc \notin Quiet /\ run.pc \notin Between
         /\ i \in run.links \ past.known
         /\ past.analysed[i] \in Nat /\ past.told[i] \in Nat
<1>1. ItemInv(i) /\ past \in PastType
  BY DEF IInv, TypeInv
<1> QED BY <1>1, JobStates DEF ItemInv, Quiet, Between, PastType

\* An item that a step does not touch.
LEMMA ItemStays ==
  ASSUME IInv, NEW i \in Items, run' = run, job'[i] = job[i], result'[i] = result[i],
         past'.known = past.known,
         past'.analysed[i] = past.analysed[i], past'.told[i] = past.told[i],
         faults' \in 0..MaxFaults, faults' >= faults, deletes' = deletes
  PROVE  ItemInv(i)'
<1>1. ItemInv(i) /\ (faults' = 0 => faults = 0)
  BY ItemConstants DEF IInv, TypeInv
<1> QED BY <1>1 DEF ItemInv

\* A task goes on to another state; what it awaits is not a seller.
LEMMA JobMoves ==
  ASSUME IInv, NEW i \in Items, NEW to \in Active \cup {"done"}, Step(i, to),
         job[i] \notin Over, job[i] # "loading",
         UNCHANGED <<run, load, profile, deletes>>,
         faults' \in 0..MaxFaults, faults' >= faults,
         past' \in PastType, past'.known = past.known,
         past'.visits = past.visits, past'.lapses = past.lapses,
         result' \in [Items -> {None, "mine", "other"}],
         \A j \in Items \ {i} : /\ result'[j] = result[j]
                                /\ past'.analysed[j] = past.analysed[j]
                                /\ past'.told[j] = past.told[j],
         ItemInv(i)'
  PROVE  IInv'
<1>1. TypeInv /\ WalkInv
  BY DEF IInv
<1>2. /\ job' \in [Items -> Over \cup Active \cup {"queued"}] /\ job'[i] = to
      /\ \A j \in Items \ {i} : job'[j] = job[j]
  BY <1>1 DEF TypeInv, Step, Over
<1>3. TypeInv'
  BY <1>1, <1>2 DEF TypeInv
<1>4. WalkInv'
  BY <1>1 DEF WalkInv
<1>5. ASSUME NEW j \in Items PROVE ItemInv(j)'
  BY <1>2, ItemStays
<1>6. ASSUME NEW s \in Sellers PROVE SellerInv(s)'
  <2>1. SellerInv(s)
    BY DEF IInv
  <2>2. \A j \in Items : job[j] = "loading" => job'[j] = "loading"
    BY <1>2
  <2> QED BY <2>1, <2>2 DEF SellerInv
<1> QED BY <1>3, <1>4, <1>5, <1>6 DEF IInv

LEMMA JobKeeps ==
  ASSUME IInv, NEW i \in Items,
         Acquire(i) \/ SellerKnown(i) \/ Analyse(i) \/ Save(i) \/ SaveFails(i) \/ Notify(i)
  PROVE  IInv'
<1>1. /\ TypeInv /\ job \in [Items -> Over \cup Active \cup {"queued"}]
      /\ past \in PastType /\ result \in [Items -> {None, "mine", "other"}] /\ ItemInv(i)
  BY DEF IInv, TypeInv
<1>2. /\ job[i] \in {"queued", "seller", "analyse", "save", "notify"}
      /\ UNCHANGED <<run, load, profile, deletes>> /\ (Fault \/ UNCHANGED faults)
  BY DEF Acquire, SellerKnown, Analyse, Save, SaveFails, Notify
<1>3. faults' \in 0..MaxFaults /\ faults' >= faults /\ (Fault => faults' # 0)
  BY <1>1, <1>2, FaultCounts
<1>4. faults' = 0 => faults = 0
  BY <1>1, <1>3, ItemConstants DEF TypeInv
<1>5. job[i] \notin Over /\ job[i] # "loading"
  BY <1>2 DEF Over
<1>6. /\ run.pc \notin Quiet /\ i \in run.links \ past.known
      /\ past.analysed[i] \in Nat /\ past.told[i] \in Nat
  BY <1>5, UnderWay
<1>7. CASE Acquire(i) \/ SellerKnown(i)
  <2>1. PICK to \in {"seller", "analyse"} : Step(i, to)
    BY <1>7 DEF Acquire, SellerKnown
  <2>2. UNCHANGED <<past, result>> /\ job[i] \in {"queued", "seller"}
    BY <1>7 DEF Acquire, SellerKnown
  <2>3. job'[i] = to
    BY <1>1, <2>1 DEF Step
  <2>4. ItemInv(i)'
    BY <1>1, <1>2, <1>4, <1>6, <2>2, <2>3 DEF ItemInv
  <2> QED BY <1>1, <1>2, <1>3, <1>5, <2>1, <2>2, <2>4, JobMoves DEF Active
<1>8. CASE Analyse(i)
  <2> DEFINE n == past.analysed[i] + 1
             p == [past EXCEPT !.analysed[i] = n]
  <2>1. past' = p /\ Step(i, "save") /\ UNCHANGED result /\ job[i] = "analyse"
    BY <1>8 DEF Analyse
  <2>2. n = 1 /\ past.told[i] = 0
    BY <1>1, <1>6, <2>1 DEF ItemInv
  <2> HIDE DEF n
  <2>3. /\ p.known = past.known /\ p.visits = past.visits /\ p.lapses = past.lapses
        /\ p.told = past.told /\ p.analysed = [past.analysed EXCEPT ![i] = n]
    BY <1>1 DEF PastType
  <2>4. p \in PastType
    BY <1>1, <2>2 DEF PastType
  <2>5. past.analysed \in [Items -> Nat]
    BY <1>1 DEF PastType
  <2> HIDE DEF p
  <2>6. p.analysed[i] = 1 /\ \A j \in Items \ {i} : p.analysed[j] = past.analysed[j]
    BY <2>2, <2>3, <2>5
  <2>7. job'[i] = "save"
    BY <1>1, <2>1 DEF Step
  <2>8. ItemInv(i)'
    BY <1>1, <1>2, <1>4, <1>6, <2>1, <2>2, <2>3, <2>6, <2>7 DEF ItemInv
  <2> QED BY <1>1, <1>2, <1>3, <1>5, <2>1, <2>3, <2>4, <2>6, <2>8, JobMoves DEF Active
<1>9. CASE Save(i) \/ SaveFails(i)
  <2>1. /\ Step(i, "notify") /\ job[i] = "save" /\ UNCHANGED past
        /\ result' \in [Items -> {None, "mine", "other"}]
        /\ \A j \in Items \ {i} : result'[j] = result[j]
    BY <1>1, <1>9 DEF Save, SaveFails
  <2>2. result'[i] # None \/ faults' # 0
    BY <1>1, <1>3, <1>9 DEF Save, SaveFails, None
  <2>3. job'[i] = "notify"
    BY <1>1, <2>1 DEF Step
  <2>4. ItemInv(i)'
    BY <1>1, <1>2, <1>4, <1>6, <2>1, <2>2, <2>3 DEF ItemInv
  <2> QED BY <1>1, <1>2, <1>3, <1>5, <2>1, <2>4, JobMoves DEF Active
<1>10. CASE Notify(i)
  <2> DEFINE n == past.told[i] + 1
             p == [past EXCEPT !.told[i] = n]
  <2>1. Step(i, "done") /\ UNCHANGED result /\ job[i] = "notify"
    BY <1>10 DEF Notify
  <2>2. job'[i] = "done"
    BY <1>1, <2>1 DEF Step
  <2>3. n = 1 /\ past.told[i] = 0 /\ past.analysed[i] = 1
    BY <1>1, <1>6, <2>1 DEF ItemInv
  <2>4. CASE past' = p
    <3> HIDE DEF n
    <3>1. /\ p.known = past.known /\ p.visits = past.visits /\ p.lapses = past.lapses
          /\ p.analysed = past.analysed /\ p.told = [past.told EXCEPT ![i] = n]
      BY <1>1 DEF PastType
    <3>2. p \in PastType
      BY <1>1, <2>3 DEF PastType
    <3>3. past.told \in [Items -> Nat]
      BY <1>1 DEF PastType
    <3> HIDE DEF p
    <3>4. p.told[i] = 1 /\ \A j \in Items \ {i} : p.told[j] = past.told[j]
      BY <2>3, <3>1, <3>3
    <3>5. ItemInv(i)'
      BY <1>1, <1>2, <1>4, <1>6, <2>1, <2>2, <2>3, <2>4, <3>1, <3>4 DEF ItemInv
    <3> QED BY <1>1, <1>2, <1>3, <1>5, <2>1, <2>4, <3>1, <3>2, <3>4, <3>5, JobMoves
  <2>5. CASE UNCHANGED past
    <3>1. ItemInv(i)'
      BY <1>1, <1>2, <1>4, <1>6, <2>1, <2>2, <2>3, <2>5 DEF ItemInv
    <3> QED BY <1>1, <1>2, <1>3, <1>5, <2>1, <2>5, <3>1, JobMoves
  <2> QED BY <1>10, <2>4, <2>5 DEF Notify
<1> QED BY <1>7, <1>8, <1>9, <1>10

\* get_or_load pays for a visit with the entry that expired, or with the slack
\* that an attempt without an entry has.
LEMMA SellerMissingKeeps == ASSUME IInv, NEW i \in Items, SellerMissing(i) PROVE IInv'
<1> DEFINE s == SellerOf[i]
           v == IF load[s] = "none" THEN past.visits[s] + 1 ELSE past.visits[s]
           l == IF s \in profile THEN past.lapses[s] + 1 ELSE past.lapses[s]
           p == [past EXCEPT !.visits[s] = v, !.lapses[s] = l]
<1>1. /\ TypeInv /\ WalkInv /\ job \in [Items -> Over \cup Active \cup {"queued"}]
      /\ past \in PastType /\ load \in [Sellers -> {"none", "running", "stored", "raised"}]
      /\ profile \in SUBSET Sellers
  BY DEF IInv, TypeInv
<1>2. /\ job[i] = "seller" /\ s \in Sellers /\ Step(i, "loading")
      /\ profile' = profile \ {s} /\ UNCHANGED <<run, result, deletes>>
      /\ load' = [load EXCEPT ![s] = IF load[s] = "none" THEN "running" ELSE load[s]]
      /\ past' = p /\ (Fault \/ UNCHANGED faults)
  BY ItemConstants DEF SellerMissing
<1>3. /\ past.visits \in [Sellers -> Nat] /\ past.lapses \in [Sellers -> Nat]
      /\ past.visits[s] \in Nat /\ past.lapses[s] \in Nat
  BY <1>1, <1>2 DEF PastType
<1>4. v \in Nat /\ l \in Nat
  BY <1>3
<1>5. /\ load[s] = "none" => v = past.visits[s] + 1
      /\ load[s] # "none" => v = past.visits[s]
      /\ s \in profile => l = past.lapses[s] + 1
      /\ s \notin profile => l = past.lapses[s]
  OBVIOUS
<1> HIDE DEF v, l
<1>6. /\ p.known = past.known /\ p.analysed = past.analysed /\ p.told = past.told
      /\ p.visits = [past.visits EXCEPT ![s] = v] /\ p.lapses = [past.lapses EXCEPT ![s] = l]
  BY <1>1 DEF PastType
<1>7. p \in PastType
  BY <1>1, <1>4 DEF PastType
<1> HIDE DEF p
<1>8. /\ faults' \in 0..MaxFaults /\ faults' >= faults
  BY <1>1, <1>2, FaultCounts
<1>9. /\ job' \in [Items -> Over \cup Active \cup {"queued"}] /\ job'[i] = "loading"
      /\ \A j \in Items \ {i} : job'[j] = job[j]
  BY <1>1, <1>2 DEF Step, Active
<1>10. /\ load' \in [Sellers -> {"none", "running", "stored", "raised"}]
       /\ load'[s] = IF load[s] = "none" THEN "running" ELSE load[s]
       /\ \A t \in Sellers \ {s} : load'[t] = load[t]
  BY <1>1, <1>2
<1>11. TypeInv'
  BY <1>1, <1>2, <1>7, <1>8, <1>9, <1>10 DEF TypeInv
<1>12. WalkInv'
  BY <1>1, <1>2, <1>6 DEF WalkInv
<1>13. ASSUME NEW j \in Items PROVE ItemInv(j)'
  <2>1. CASE j = i
    <3>1. ItemInv(i) /\ job[i] \notin Over /\ (faults' = 0 => faults = 0)
      BY <1>1, <1>2, <1>8, ItemConstants DEF IInv, TypeInv, Over
    <3>2. run.pc \notin Quiet /\ i \in run.links \ past.known
      BY <3>1, UnderWay
    <3> QED BY <1>2, <1>6, <1>9, <2>1, <3>1, <3>2 DEF ItemInv
  <2>2. CASE j # i
    BY <1>2, <1>6, <1>8, <1>9, <2>2, ItemStays
  <2> QED BY <2>1, <2>2
<1>14. ASSUME NEW t \in Sellers PROVE SellerInv(t)'
  <2>1. SellerInv(t) /\ run.attempt \in Nat
    BY <1>1, Limits DEF IInv, RunType, TypeInv
  <2>2. CASE t # s
    <3>1. /\ load'[t] = load[t] /\ (t \in profile' <=> t \in profile)
          /\ past'.visits[t] = past.visits[t] /\ past'.lapses[t] = past.lapses[t]
      BY <1>2, <1>3, <1>6, <1>10, <2>2
    <3>2. \A j \in Items : job[j] = "loading" => job'[j] = "loading"
      BY <1>9
    <3> QED BY <1>2, <2>1, <3>1, <3>2 DEF SellerInv
  <2>3. CASE t = s
    <3>1. /\ past'.visits[s] = v /\ past'.lapses[s] = l /\ s \notin profile'
      BY <1>2, <1>3, <1>6
    <3>2. run.pc \notin Between
      BY <1>2, UnderWay DEF Over
    <3>3. v <= l + run.attempt
      BY <1>3, <1>5, <2>1, <2>3, <3>2 DEF SellerInv
    <3>4. load'[s] # "running" => v < l + run.attempt
      BY <1>3, <1>5, <1>10, <2>1, <2>3, <3>2 DEF SellerInv
    <3>5. \E j \in Items : job'[j] = "loading" /\ SellerOf[j] = s
      BY <1>9
    <3> QED BY <1>2, <2>3, <3>1, <3>3, <3>4, <3>5 DEF SellerInv
  <2> QED BY <2>2, <2>3
<1> QED BY <1>11, <1>12, <1>13, <1>14 DEF IInv

LEMMA LoadKeeps == ASSUME IInv, NEW s \in Sellers, LoadStores(s) \/ LoadRaises(s) PROVE IInv'
<1>1. /\ TypeInv /\ WalkInv /\ past \in PastType /\ profile \in SUBSET Sellers
      /\ load \in [Sellers -> {"none", "running", "stored", "raised"}]
  BY DEF IInv, TypeInv
<1>2. /\ load[s] = "running" /\ UNCHANGED <<run, job, result, deletes>>
      /\ (Fault \/ UNCHANGED faults)
  BY DEF LoadStores, LoadRaises
<1>3. faults' \in 0..MaxFaults /\ faults' >= faults
  BY <1>1, <1>2, FaultCounts
<1>4. past.visits[s] \in Nat /\ past.lapses \in [Sellers -> Nat] /\ run.attempt \in Nat
  BY <1>1, Limits DEF PastType, TypeInv, RunType
<1> DEFINE l == past.lapses[s] + 1
           p == [past EXCEPT !.lapses[s] = l]
<1>5. l \in Nat /\ l > past.lapses[s] /\ past.lapses[s] \in Nat
  BY <1>4
<1> HIDE DEF l
<1>6. /\ p.known = past.known /\ p.analysed = past.analysed /\ p.told = past.told
      /\ p.visits = past.visits /\ p.lapses = [past.lapses EXCEPT ![s] = l]
  BY <1>1 DEF PastType
<1>7. p \in PastType
  BY <1>1, <1>5 DEF PastType
<1> HIDE DEF p
<1>8. past' \in {past, p} /\ profile' \in {profile, profile \cup {s}}
  BY DEF LoadStores, LoadRaises, l, p
<1>9. /\ past' \in PastType /\ past'.known = past.known /\ past'.visits = past.visits
      /\ past'.analysed = past.analysed /\ past'.told = past.told
      /\ \A t \in Sellers \ {s} : past'.lapses[t] = past.lapses[t]
  BY <1>1, <1>4, <1>6, <1>7, <1>8
<1>10. /\ load' \in [Sellers -> {"none", "running", "stored", "raised"}]
       /\ load'[s] \in {"stored", "raised"}
       /\ \A t \in Sellers \ {s} : load'[t] = load[t]
  BY <1>1 DEF LoadStores, LoadRaises
<1>11. \/ s \in profile' /\ past'.lapses[s] = past.lapses[s]
       \/ past'.lapses[s] = l
  <2>1. CASE LoadStores(s)
    BY <2>1 DEF LoadStores
  <2>2. CASE LoadRaises(s)
    <3>1. past' = p
      BY <2>2 DEF LoadRaises, l, p
    <3> QED BY <1>4, <1>6, <3>1
  <2> QED BY <2>1, <2>2
<1>12. TypeInv'
  BY <1>1, <1>2, <1>3, <1>8, <1>9, <1>10 DEF TypeInv
<1>13. WalkInv'
  BY <1>1, <1>2, <1>9 DEF WalkInv
<1>14. ASSUME NEW i \in Items PROVE ItemInv(i)'
  BY <1>2, <1>3, <1>9, ItemStays
<1>15. ASSUME NEW t \in Sellers PROVE SellerInv(t)'
  <2>1. SellerInv(t)
    BY DEF IInv
  <2>2. CASE t # s
    <3>1. load'[t] = load[t] /\ (t \in profile' <=> t \in profile)
      BY <1>8, <1>10, <2>2
    <3> QED BY <1>2, <1>9, <2>1, <2>2, <3>1 DEF SellerInv
  <2>3. CASE t = s
    <3>1. \E i \in Items : job'[i] = "loading" /\ SellerOf[i] = s
      BY <1>2, <2>1, <2>3 DEF SellerInv
    <3>2. past.visits[s] <= past.lapses[s] + run.attempt
      BY <2>1, <2>3 DEF SellerInv
    <3>3. /\ past'.visits[s] = past.visits[s]
          /\ past'.visits[s] <= past'.lapses[s] + run.attempt
          /\ s \in profile' \/ past'.visits[s] < past'.lapses[s] + run.attempt
      BY <1>4, <1>5, <1>9, <1>11, <3>2
    <3> QED BY <1>2, <2>3, <3>1, <3>3 DEF SellerInv
  <2> QED BY <2>2, <2>3
<1> QED BY <1>12, <1>13, <1>14, <1>15 DEF IInv

LEMMA LoadEndsKeeps == ASSUME IInv, NEW s \in Sellers, LoadEnds(s) PROVE IInv'
<1>1. /\ TypeInv /\ WalkInv /\ job \in [Items -> Over \cup Active \cup {"queued"}]
      /\ load \in [Sellers -> {"none", "running", "stored", "raised"}]
  BY DEF IInv, TypeInv
<1>2. /\ load[s] \in {"stored", "raised"} /\ UNCHANGED <<run, profile, result, past, faults, deletes>>
      /\ load' = [load EXCEPT ![s] = "none"]
      /\ job' = [i \in Items |->
           IF job[i] = "loading" /\ SellerOf[i] = s THEN "analyse" ELSE job[i]]
  BY DEF LoadEnds
<1>3. faults' \in 0..MaxFaults /\ faults' >= faults
  BY <1>1, <1>2, FaultCounts
<1>4. TypeInv'
  <2>1. job' \in [Items -> Over \cup Active \cup {"queued"}]
    BY <1>1, <1>2 DEF Active
  <2> QED BY <1>1, <1>2, <2>1 DEF TypeInv
<1>5. WalkInv'
  BY <1>1, <1>2 DEF WalkInv
<1>6. ASSUME NEW i \in Items PROVE ItemInv(i)'
  <2>1. CASE job[i] = "loading" /\ SellerOf[i] = s
    <3>1. ItemInv(i) /\ job[i] \notin Over /\ job'[i] = "analyse"
      BY <1>2, <2>1 DEF IInv, Over
    <3>2. run.pc \notin Quiet /\ i \in run.links \ past.known
      BY <3>1, UnderWay
    <3> QED BY <1>2, <2>1, <3>1, <3>2 DEF ItemInv
  <2>2. CASE ~(job[i] = "loading" /\ SellerOf[i] = s)
    <3>1. job'[i] = job[i]
      BY <1>2, <2>2
    <3> QED BY <1>2, <1>3, <3>1, ItemStays
  <2> QED BY <2>1, <2>2
<1>7. ASSUME NEW t \in Sellers PROVE SellerInv(t)'
  <2>1. SellerInv(t)
    BY DEF IInv
  <2>2. CASE t = s
    BY <1>1, <1>2, <2>1, <2>2 DEF SellerInv
  <2>3. CASE t # s
    <3>1. load'[t] = load[t]
      BY <1>1, <1>2, <2>3
    <3>2. \A i \in Items : job[i] = "loading" /\ SellerOf[i] = t => job'[i] = "loading"
      BY <1>2, <2>3
    <3> QED BY <1>2, <2>1, <3>1, <3>2 DEF SellerInv
  <2> QED BY <2>2, <2>3
<1> QED BY <1>4, <1>5, <1>6, <1>7 DEF IInv

\* Others write to the table: a user deletes, another process saves first.
LEMMA OthersKeep ==
  ASSUME IInv, DeleteResults \/ \E i \in Items : OtherSaves(i)
  PROVE  IInv'
<1>1. TypeInv /\ WalkInv /\ result \in [Items -> {None, "mine", "other"}]
  BY DEF IInv, TypeInv
<1>2. UNCHANGED <<run, job, load, profile, past, faults>>
  BY DEF DeleteResults, OtherSaves
<1>3. /\ result' \in [Items -> {None, "mine", "other"}] /\ deletes' \in 0..MaxDeletes
      /\ \/ deletes' # 0
         \/ deletes' = deletes /\ \A i \in Items : result[i] # None => result'[i] # None
  <2>1. CASE DeleteResults
    BY <1>1, <2>1, ItemConstants DEF DeleteResults, TypeInv
  <2>2. ASSUME NEW i \in Items, OtherSaves(i) PROVE <1>3!:
    BY <1>1, <2>2 DEF OtherSaves, TypeInv, None
  <2> QED BY <2>1, <2>2
<1>4. TypeInv'
  BY <1>1, <1>2, <1>3 DEF TypeInv
<1>5. WalkInv'
  BY <1>1, <1>2 DEF WalkInv
<1>6. ASSUME NEW i \in Items PROVE ItemInv(i)'
  <2>1. ItemInv(i)
    BY DEF IInv
  <2> QED BY <1>2, <1>3, <2>1 DEF ItemInv
<1>7. ASSUME NEW s \in Sellers PROVE SellerInv(s)'
  BY <1>2 DEF IInv, SellerInv
<1> QED BY <1>4, <1>5, <1>6, <1>7 DEF IInv

-----------------------------------------------------------------------------
(* The invariant                                                           *)

LEMMA InitIInv == ASSUME Init PROVE IInv
<1>1. /\ run.pc = "idle" /\ run.links = {} /\ run.attempt = 0 /\ run.outcome = "none"
      /\ past.known = {}
  BY DEF Init
<1>2. run \in RunType
  BY Limits DEF Init, RunType, Places
<1>3. past \in PastType
  BY DEF Init, PastType
<1>4. TypeInv
  BY <1>2, <1>3, ItemConstants DEF Init, TypeInv, Over
<1>5. WalkInv
  BY <1>1 DEF WalkInv, Between
<1>6. ASSUME NEW i \in Items PROVE ItemInv(i)
  <2>1. job[i] = "none" /\ past.analysed[i] = 0 /\ past.told[i] = 0
    BY DEF Init
  <2> QED BY <1>1, <2>1, JobStates DEF ItemInv
<1>7. ASSUME NEW s \in Sellers PROVE SellerInv(s)
  <2>1. load[s] = "none" /\ past.visits[s] = 0 /\ past.lapses[s] = 0
    BY DEF Init
  <2> QED BY <1>1, <2>1 DEF SellerInv, Between
<1> QED BY <1>4, <1>5, <1>6, <1>7 DEF IInv

LEMMA NextIInv == ASSUME IInv, Next PROVE IInv'
<1>1. CASE Start
  BY <1>1, StartKeeps
<1>2. CASE WalkStep
  BY <1>2, LeavingKeeps, WalkingKeeps, EndingKeeps, SelectKeeps, SubmitKeeps DEF WalkStep
<1>3. CASE Cancel \/ Kill
  BY <1>3, StopKeeps
<1>4. CASE DeleteResults \/ \E i \in Items : OtherSaves(i)
  BY <1>4, OthersKeep
<1>5. ASSUME NEW i \in Items, JobStep(i) PROVE IInv'
  BY <1>5, JobKeeps, SellerMissingKeeps DEF JobStep
<1>6. ASSUME NEW s \in Sellers, LoadStep(s) PROVE IInv'
  BY <1>6, LoadKeeps, LoadEndsKeeps DEF LoadStep
<1> QED BY <1>1, <1>2, <1>3, <1>4, <1>5, <1>6 DEF Next

LEMMA UnchangedIInv == ASSUME IInv, UNCHANGED vars PROVE IInv'
<1>1. UNCHANGED <<run, job, load, profile, result, past, faults, deletes>>
  BY DEF vars
<1>2. TypeInv' /\ WalkInv'
  BY <1>1 DEF IInv, TypeInv, WalkInv
<1>3. ASSUME NEW i \in Items PROVE ItemInv(i)'
  BY <1>1 DEF IInv, ItemInv
<1>4. ASSUME NEW s \in Sellers PROVE SellerInv(s)'
  BY <1>1 DEF IInv, SellerInv
<1> QED BY <1>2, <1>3, <1>4 DEF IInv

LEMMA Inductive == Spec => []IInv
<1>1. Init => IInv
  BY InitIInv
<1>2. IInv /\ [Next]_vars => IInv'
  BY NextIInv, UnchangedIInv
<1> QED BY <1>1, <1>2, PTL DEF Spec

-----------------------------------------------------------------------------
(* Theorems                                                                *)

\* No item is analysed twice in a run, however often the pages and attempts
\* list it; what was stored before is not analysed at all, and nobody is told
\* of an item that was not analysed.
THEOREM EachItemOnce == Spec => []WorkedOnOnce
<1>1. ASSUME IInv, NEW i \in Items
      PROVE  /\ past.analysed[i] <= (IF i \in past.known THEN 0 ELSE 1)
             /\ past.told[i] <= past.analysed[i]
  <2>1. ItemInv(i) /\ past.analysed[i] \in Nat
    BY <1>1 DEF IInv, TypeInv, PastType
  <2> QED BY <2>1 DEF ItemInv
<1>2. IInv => WorkedOnOnce
  BY <1>1 DEF WorkedOnOnce
<1> QED BY <1>2, Inductive, PTL

\* When a new attempt may open its browser, and when the run is over, no task
\* of the dispatcher and no load of a seller is left that would use the old one.
THEOREM BrowserOutlives == Spec => []BrowserOutlivesJobs
<1>1. ASSUME IInv, run.pc \in {"select", "opening", "ended"}
      PROVE  /\ \A i \in Items : job[i] \in Over
             /\ \A s \in Sellers : load[s] # "running"
  <2>1. ASSUME NEW i \in Items PROVE job[i] \in Over
    BY <1>1 DEF IInv, ItemInv, Quiet
  <2>2. ASSUME NEW s \in Sellers, load[s] = "running" PROVE FALSE
    <3>1. SellerInv(s)
      BY <1>1 DEF IInv
    <3>2. PICK i \in Items : job[i] = "loading"
      BY <2>2, <3>1 DEF SellerInv
    <3> QED BY <2>1, <3>2 DEF Over
  <2> QED BY <2>1, <2>2
<1>2. IInv => BrowserOutlivesJobs
  BY <1>1 DEF BrowserOutlivesJobs
<1> QED BY <1>2, Inductive, PTL

\* A successful run without errors stored every link it counts as processed.
THEOREM SuccessAlwaysStored == Spec => []SuccessIsStored
<1>1. ASSUME IInv, run.outcome = "success", faults = 0, deletes = 0, NEW i \in run.links
      PROVE  i \in Stored
  <2>1. i \in Items
    BY <1>1 DEF IInv, TypeInv, RunType
  <2>2. ItemInv(i) /\ run.pc = "ended"
    BY <1>1, <2>1 DEF IInv, WalkInv
  <2>3. job[i] \in Over
    BY <2>2 DEF ItemInv, Quiet
  <2>4. result[i] # None
    BY <1>1, <2>2, <2>3 DEF ItemInv, Over
  <2> QED BY <2>1, <2>4 DEF Stored
<1>2. IInv => SuccessIsStored
  BY <1>1 DEF SuccessIsStored
<1> QED BY <1>2, Inductive, PTL

\* The visits to a seller are at most one per attempt, and one more for each
\* load that failed and each entry that expired.
THEOREM VisitsAlwaysShared == Spec => []VisitsAreShared
<1>1. IInv => VisitsAreShared
  BY DEF IInv, SellerInv, VisitsAreShared
<1> QED BY <1>1, Inductive, PTL

\* With a positive blacklist TTL the attempt that follows a failed one uses
\* another login state as long as one is left that is not blacklisted.
THEOREM NextLoginDiffers == Spec => RotatesAway
<1> DEFINE Rotates ==
      /\ run.pc = "select" /\ run'.pc = "opening"
      /\ run.attempt > 0 /\ run.plan = "pool" /\ Mode = "on_failure" /\ run.ttl > 0
      /\ Accounts \ (run.bad \cup {run.sel}) # {}
<1>1. ASSUME IInv, [Next]_vars, Rotates PROVE run'.sel # run.sel
  <2>1. run \in RunType /\ run.pc = "select" /\ run'.pc = "opening"
    BY <1>1 DEF IInv, TypeInv
  <2>2. run' # run
    BY <2>1
  <2>3. ~ (Skip \/ Cancel \/ Kill)
    <3>1. run'.pc # "ended"
      BY <2>1
    <3>2. Skip \/ Cancel \/ Kill => \E o \in {"skipped", "cancelled", "killed"} :
            run' = [run EXCEPT !.pc = "ended", !.outcome = o]
      BY <2>1 DEF Skip, Cancel, Kill
    <3> QED BY <2>1, <3>1, <3>2 DEF RunType
  <2>4. ~ \E i \in Items : JobStep(i) \/ OtherSaves(i)
    BY <2>2 DEF JobStep, OtherSaves, Acquire, SellerKnown, SellerMissing, Analyse, Save,
                SaveFails, Notify
  <2>5. ~ \E s \in Sellers : LoadStep(s)
    BY <2>2 DEF LoadStep, LoadStores, LoadRaises, LoadEnds
  <2>6. Select
    <3>1. ~ (Start \/ DeleteResults)
      BY <2>1, <2>2 DEF Start, DeleteResults
    <3>2. Next
      BY <1>1, <2>2 DEF vars
    <3>3. WalkStep
      BY <2>3, <2>4, <2>5, <3>1, <3>2 DEF Next
    <3> QED BY <2>1, <2>3, <3>3 DEF WalkStep, Open, OpenFails, Filter, FilterFails, ListPage,
              SkipPage, PagesEnd, PageFails, TakeItem, PageDone, LimitReached, Submit, Miss, Join
  <2>7. PICK next \in Rotated :
          run' = [run EXCEPT !.pc = "opening", !.sel = next[1], !.bad = next[2], !.got = 0,
                             !.attempt = run.attempt + 1, !.why = "none"]
    <3>1. run.attempt # 0
      BY <1>1, <2>1, Limits DEF RunType
    <3>2. PICK next \in Rotated :
            IF next[1] = None
              THEN run' = [run EXCEPT !.pc = "ended", !.outcome = "failure"]
              ELSE run' = [run EXCEPT !.pc = "opening", !.sel = next[1], !.bad = next[2],
                                      !.got = 0, !.attempt = run.attempt + 1, !.why = "none"]
      BY <1>1, <2>6, <3>1 DEF Select
    <3>3. run' # [run EXCEPT !.pc = "ended", !.outcome = "failure"]
      BY <2>1 DEF RunType
    <3> QED BY <3>2, <3>3
  <2>8. PICK kept \in SUBSET run.bad :
          next \in {<<login, kept \cup Marked>> : login \in Picks(Accounts \ (kept \cup Marked))}
    BY DEF Rotated
  <2>9. PICK login \in Picks(Accounts \ (kept \cup Marked)) :
          next = <<login, kept \cup Marked>>
    BY <2>8
  <2>10. login # run.sel
    <3>1. Marked = {run.sel}
      BY <1>1 DEF Marked
    <3>2. Accounts \ (kept \cup Marked) # {}
      BY <1>1, <3>1
    <3>3. login \in Accounts \ (kept \cup Marked)
      BY <1>1, <3>2 DEF Picks
    <3> QED BY <3>1, <3>3
  <2>11. run'.sel = next[1]
    BY <2>1, <2>7 DEF RunType
  <2> QED BY <2>9, <2>10, <2>11
<1>2. IInv /\ [Next]_vars =>
        [/\ run.pc = "select" /\ run'.pc = "opening"
         /\ run.attempt > 0 /\ run.plan = "pool" /\ Mode = "on_failure" /\ run.ttl > 0
         /\ Accounts \ (run.bad \cup {run.sel}) # {}
         => run'.sel # run.sel]_vars
  BY <1>1
<1> QED BY <1>2, Inductive, PTL DEF Spec, RotatesAway

-----------------------------------------------------------------------------
(* Types: how many items a run of a finite market counts                   *)

\* What this attempt submitted is among the links the run counts as processed.
Counted == run.got <= Cardinality(run.links)

LEMMA CountMoves == ASSUME IsFiniteSet(Items), IInv, Counted, [Next]_vars PROVE Counted'
<1>1. TypeInv /\ WalkInv /\ run \in RunType /\ run.links \in SUBSET Items /\ run.got \in Nat
  BY DEF IInv, TypeInv, RunType
<1>2. CASE run'.got = run.got /\ run'.links = run.links
  BY <1>2 DEF Counted
<1>3. CASE Start
  <2>1. run.got = 0
    <3>1. run.links = {}
      BY <1>1, <1>3 DEF Start, WalkInv
    <3> QED BY <1>1, <3>1, FS_EmptySet DEF Counted
  <2>2. run'.got = run.got /\ run'.links = Stored
    BY <1>1, <1>3 DEF Start, RunType
  <2>3. Cardinality(Stored) \in Nat
    BY FS_Subset, FS_CardinalityType DEF Stored
  <2> QED BY <2>1, <2>2, <2>3 DEF Counted
<1>4. CASE Select
  <2>1. PICK next : IF next[1] = None
           THEN run' = [run EXCEPT !.pc = "ended", !.outcome = "failure"]
           ELSE run' = [run EXCEPT !.pc = "opening", !.sel = next[1],
                                   !.bad = next[2], !.got = 0,
                                   !.attempt = run.attempt + 1, !.why = "none"]
    BY <1>4 DEF Select
  <2>2. run'.links = run.links /\ run'.got \in {run.got, 0}
    BY <1>1, <2>1 DEF RunType
  <2>3. Cardinality(run.links) \in Nat
    BY <1>1, FS_Subset, FS_CardinalityType
  <2> QED BY <2>2, <2>3 DEF Counted
<1>5. CASE Submit
  <2>1. run.at \in Items \ run.links
    BY <1>1, <1>5 DEF Submit, WalkInv
  <2>2. run'.got = run.got + 1 /\ run'.links = run.links \cup {run.at}
    BY <1>1, <1>5 DEF Submit, RunType
  <2>3. /\ IsFiniteSet(run.links) /\ Cardinality(run.links) \in Nat
        /\ Cardinality(run.links \cup {run.at}) = Cardinality(run.links) + 1
    BY <1>1, <2>1, FS_Subset, FS_CardinalityType, FS_AddElement
  <2> QED BY <1>1, <2>2, <2>3 DEF Counted
<1>6. CASE run' = run
  BY <1>2, <1>6
<1>7. CASE \/ Skip \/ Open \/ OpenFails \/ Filter \/ FilterFails
           \/ ListPage \/ SkipPage \/ PagesEnd \/ PageFails
           \/ TakeItem \/ PageDone \/ LimitReached \/ Miss \/ Join \/ Cancel \/ Kill
  <2>1. CASE Skip \/ Join \/ Cancel \/ Kill
    BY <1>1, <1>2, <2>1 DEF Skip, Join, AttemptEnds, Cancel, Kill, Leave, RunType
  <2>2. CASE OpenFails \/ FilterFails \/ PagesEnd \/ PageFails \/ LimitReached
    BY <1>1, <1>2, <2>2 DEF OpenFails, FilterFails, PagesEnd, PageFails, LimitReached, Leave, RunType
  <2>3. CASE Open \/ Filter \/ ListPage \/ SkipPage
    BY <1>1, <1>2, <2>3 DEF Open, Filter, ListPage, SkipPage, RunType
  <2>4. CASE TakeItem \/ PageDone \/ Miss
    BY <1>1, <1>2, <2>4 DEF TakeItem, PageDone, Miss, RunType
  <2> QED BY <1>7, <2>1, <2>2, <2>3, <2>4
<1>8. ASSUME NEW i \in Items, JobStep(i) \/ OtherSaves(i) PROVE run' = run
  BY <1>8 DEF JobStep, OtherSaves, Acquire, SellerKnown, SellerMissing, Analyse, Save,
              SaveFails, Notify
<1>9. ASSUME NEW s \in Sellers, LoadStep(s) PROVE run' = run
  BY <1>9 DEF LoadStep, LoadStores, LoadRaises, LoadEnds
<1>10. DeleteResults \/ UNCHANGED vars => run' = run
  BY DEF DeleteResults, vars
<1> QED BY <1>3, <1>4, <1>5, <1>6, <1>7, <1>8, <1>9, <1>10 DEF Next, WalkStep

\* Every variable keeps its type when the market lists finitely many items.
THEOREM TypeCorrect == IsFiniteSet(Items) => (Spec => []TypeOK)
<1> SUFFICES ASSUME IsFiniteSet(Items) PROVE Spec => []TypeOK
  OBVIOUS
<1>1. Init => Counted
  <2>1. Init => run.got = 0 /\ run.links = {}
    BY DEF Init
  <2> QED BY <2>1, FS_EmptySet DEF Counted
<1>2. IInv /\ Counted /\ [Next]_vars => Counted'
  BY CountMoves
<1>3. AttemptLimit * MaxPages \in Nat /\ AttemptLimit * MaxPages >= 1
  <2>1. \A m, n \in Nat : m >= 1 /\ n >= 1 => m * n \in Nat /\ m * n >= 1
    OBVIOUS
  <2> QED BY <2>1, Limits
<1>4. IInv /\ Counted => TypeOK
  <2> SUFFICES ASSUME IInv, Counted PROVE TypeOK
    OBVIOUS
  <2>1. TypeInv /\ run \in RunType /\ past \in PastType
    BY DEF IInv, TypeInv
  <2>2. run.got \in 0..Cardinality(Items)
    <3>1. run.links \in SUBSET Items /\ run.got \in Nat
      BY <2>1 DEF RunType
    <3>2. /\ Cardinality(run.links) \in Nat /\ Cardinality(Items) \in Nat
          /\ Cardinality(run.links) <= Cardinality(Items)
      BY <3>1, FS_Subset, FS_CardinalityType
    <3> QED BY <3>1, <3>2 DEF Counted
  <2>3. past.analysed \in Counter /\ past.told \in Counter
    <3>1. past.analysed \in [Items -> Nat] /\ past.told \in [Items -> Nat]
      BY <2>1 DEF PastType
    <3>2. ASSUME NEW i \in Items PROVE past.analysed[i] <= 1 /\ past.told[i] <= 1
      <4>1. ItemInv(i) /\ past.analysed[i] \in Nat /\ past.told[i] \in Nat
        BY <3>1 DEF IInv
      <4> QED BY <4>1 DEF ItemInv
    <3>3. \A i \in Items : /\ past.analysed[i] \in 0..(AttemptLimit * MaxPages)
                           /\ past.told[i] \in 0..(AttemptLimit * MaxPages)
      <4> DEFINE bound == AttemptLimit * MaxPages
      <4>1. bound \in Nat /\ bound >= 1
        BY <1>3
      <4> HIDE DEF bound
      <4>2. \A i \in Items : past.analysed[i] \in 0..bound /\ past.told[i] \in 0..bound
        BY <3>1, <3>2, <4>1
      <4> QED BY <4>2 DEF bound
    <3> QED BY <3>1, <3>3 DEF Counter
  <2>4. past \in [known : SUBSET Items, analysed : Counter, told : Counter,
                  visits : [Sellers -> Nat], lapses : [Sellers -> Nat]]
    BY <2>1, <2>3 DEF PastType
  <2>5. run \in
         [pc : {"idle", "select", "opening", "filters", "page", "items",
                "detail", "joining", "ended"},
          plan : {"forced", "root", "pool", "none"}, ttl : Nat,
          sel : Logins \cup {None}, bad : SUBSET Logins,
          attempt : 0..AttemptLimit, page : 0..(MaxPages + 1),
          limit : DebugLimits \cup {0}, todo : SUBSET Items,
          at : Items \cup {None}, got : 0..Cardinality(Items),
          links : SUBSET Items,
          why : {"none", "return", "closed", "login", "risk", "raise", "cancel"},
          outcome : {"none", "skipped", "success", "failure", "cancelled", "killed"}]
    BY <2>1, <2>2 DEF RunType, Places
  <2> QED BY <2>1, <2>4, <2>5 DEF TypeOK, TypeInv
<1> QED BY <1>1, <1>2, <1>4, Inductive, PTL DEF Spec
=============================================================================
