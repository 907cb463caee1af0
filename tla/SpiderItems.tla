---------------------------- MODULE SpiderItems ----------------------------
(***************************************************************************)
(* The inside of a spider run.  scrape_xianyu makes attempts, each with a  *)
(* login state of the rotation pool; an attempt walks the result pages,    *)
(* opens what is new and hands it to the ItemAnalysisDispatcher, whose     *)
(* asyncio tasks load the seller through the SellerProfileCache, analyse,  *)
(* save and notify while the walk goes on.  Other processes may search the *)
(* same keyword for the same tenant; they meet in the table result_items.  *)
(*                                                                         *)
(* The tasks of one process switch only where the code awaits, so a step   *)
(* here is what runs between two awaits that matter.  Proxies rotate like  *)
(* login states and are left out.                                          *)
(***************************************************************************)
EXTENDS Integers, FiniteSets

CONSTANTS
    Items,         \* what the market lists, by link_unique_key
    Sellers,
    SellerOf,      \* the seller a detail page names, or None
    Accounts,      \* login state files of the pool
    Strategies,    \* the task's account_strategy
    Mode,          \* account_mode: "per_task" or "on_failure"
    AccountRetries, ProxyRetries,   \* the platform's retry limits, as stored
    BlacklistTtls, \* values of the accounts' blacklist_ttl_sec, as stored
    MaxPages,
    DebugLimits,   \* values of debug_limit, 0 for none
    Concurrency,   \* permits of the dispatcher's semaphore
    MaxFaults,     \* bound: errors, cancellations and kills in a behaviour
    MaxDeletes     \* bound: times a user deletes the result file

None == "none"

ASSUME ItemConstants ==
    /\ SellerOf \in [Items -> Sellers \cup {None}]
    /\ Strategies \subseteq {"auto", "fixed", "rotate"}
    /\ Mode \in {"per_task", "on_failure"}
    /\ AccountRetries \in Int /\ ProxyRetries \in Int
    /\ BlacklistTtls \subseteq Int
    /\ MaxPages \in Nat \ {0}
    /\ DebugLimits \subseteq Nat
    /\ Concurrency \in Nat \ {0}
    /\ MaxFaults \in Nat
    /\ MaxDeletes \in Nat

VARIABLES
    run,      \* where scrape_xianyu is, and its locals
    job,      \* per item: the dispatcher's task
    load,     \* per seller: SellerProfileCache._inflight
    profile,  \* sellers in SellerProfileCache._entries
    result,   \* result_items: whose record is stored, "mine" or "other"
    past,     \* history: what the run knew, analysed, told and visited
    faults, deletes

vars == <<run, job, load, profile, result, past, faults, deletes>>

Logins == Accounts \cup {"root", "bound"}
Active == {"seller", "loading", "analyse", "save", "notify"}
Over == {"none", "done", "dropped"}

\* _get_rotation_settings: a limit below one counts as one.
Retries(limit) == IF limit < 1 THEN 1 ELSE limit

\* and a blacklist_ttl below zero as zero: no account is ever blacklisted.
Ttl(stored) == IF stored < 0 THEN 0 ELSE stored

\* Either limit gives the attempts, whether or not its rotation is in use.
AttemptLimit ==
    LET accounts == Retries(AccountRetries)
        proxies == Retries(ProxyRetries)
    IN IF accounts < proxies THEN proxies ELSE accounts

Stored == {i \in Items : result[i] # None}
Counter == [Items -> 0..(AttemptLimit * MaxPages)]

TypeOK ==
    /\ run \in
         [pc : {"idle", "select", "opening", "filters", "page", "items",
                "detail", "joining", "ended"},
          plan : {"forced", "root", "pool", "none"}, ttl : Nat,
          sel : Logins \cup {None}, bad : SUBSET Logins,
          attempt : 0..AttemptLimit, page : 0..(MaxPages + 1),
          limit : DebugLimits \cup {0}, todo : SUBSET Items,
          at : Items \cup {None}, got : 0..Cardinality(Items),
          links : SUBSET Items,
          why : {"none", "return", "closed", "login", "risk", "raise", "cancel"},
          outcome : {"none", "skipped", "success", "failure", "cancelled", "killed"}]
    /\ job \in [Items -> Over \cup Active \cup {"queued"}]
    /\ load \in [Sellers -> {"none", "running", "stored", "raised"}]
    /\ profile \in SUBSET Sellers
    /\ result \in [Items -> {None, "mine", "other"}]
    /\ past \in [known : SUBSET Items, analysed : Counter, told : Counter,
                  visits : [Sellers -> Nat], lapses : [Sellers -> Nat]]
    /\ faults \in 0..MaxFaults
    /\ deletes \in 0..MaxDeletes

Init ==
    /\ run = [pc |-> "idle", plan |-> "none", ttl |-> 0, sel |-> None, bad |-> {}, attempt |-> 0,
              page |-> 0, limit |-> 0, todo |-> {}, at |-> None, got |-> 0, links |-> {},
              why |-> "none", outcome |-> "none"]
    /\ job = [i \in Items |-> "none"]
    /\ load = [s \in Sellers |-> "none"]
    /\ profile = {}
    /\ result = [i \in Items |-> None]
    /\ past = [known |-> {}, analysed |-> [i \in Items |-> 0],
               told |-> [i \in Items |-> 0],
               visits |-> [s \in Sellers |-> 0], lapses |-> [s \in Sellers |-> 0]]
    /\ faults = 0
    /\ deletes = 0

Fault == faults < MaxFaults /\ faults' = faults + 1

-----------------------------------------------------------------------------
(* The run: account plan, attempts, pages. *)

\* resolve_account_runtime_plan: where the attempts take their login state.
Plan(strategy, bound, root) ==
    CASE strategy = "fixed" -> IF bound THEN "forced" ELSE IF root THEN "root" ELSE "none"
      [] strategy = "auto" /\ root -> "root"
      [] OTHER -> IF Accounts # {} THEN "pool" ELSE IF root THEN "root" ELSE "none"

\* load_processed_link_keys, then the account plan and the pool.
Start ==
    /\ run.pc = "idle"
    /\ \E strategy \in Strategies, bound, root \in BOOLEAN,
          limit \in DebugLimits, ttl \in BlacklistTtls :
         run' = [run EXCEPT !.pc = "select", !.links = Stored, !.limit = limit,
                            !.plan = Plan(strategy, bound, root), !.ttl = Ttl(ttl)]
    /\ past' = [past EXCEPT !.known = Stored]
    /\ UNCHANGED <<job, load, profile, result, faults, deletes>>

\* FAILURE_GUARD.should_skip_start says so.
Skip ==
    /\ run.pc = "select" /\ run.attempt = 0
    /\ run' = [run EXCEPT !.pc = "ended", !.outcome = "skipped"]
    /\ UNCHANGED <<job, load, profile, result, past, faults, deletes>>

\* _select_account: what it may return when `usable' is not blacklisted.
Picks(usable) ==
    CASE run.plan = "forced" -> {"bound"}
      [] run.plan = "root"   -> {"root"}
      [] run.plan = "none"   -> {None}
      [] run.plan = "pool"   -> IF usable = {} THEN {run.sel} ELSE usable

\* mark_bad: the account of the failed attempt, unless the TTL is zero.
Marked == IF run.ttl > 0 THEN {run.sel} ELSE {}

\* Mutant: the new account is picked before the old one is marked.
PickThenMark ==
    UNION {{<<login, kept \cup Marked>> : login \in Picks(Accounts \ kept)} :
           kept \in SUBSET run.bad}

\* mark_bad and pick_random after a failed attempt: the pairs of the account
\* and the blacklist that may result.  Entries of earlier attempts may have
\* passed their TTL.
Rotated ==
    UNION {{<<login, kept \cup Marked>> : login \in Picks(Accounts \ (kept \cup Marked))} :
           kept \in SUBSET run.bad}

\* The head of the attempt loop, with a new dispatcher and a new cache.
Select ==
    /\ run.pc = "select"
    /\ \E next \in IF run.attempt = 0
                     THEN Picks(Accounts) \X {{}}
                     ELSE IF run.plan = "pool" /\ Mode = "on_failure"
                            THEN Rotated ELSE {<<run.sel, run.bad>>} :
         IF next[1] = None
           THEN run' = [run EXCEPT !.pc = "ended", !.outcome = "failure"]
           ELSE run' = [run EXCEPT !.pc = "opening", !.sel = next[1],
                                   !.bad = next[2], !.got = 0,
                                   !.attempt = @ + 1, !.why = "none"]
    /\ profile' = {}
    /\ UNCHANGED <<job, load, result, past, faults, deletes>>

\* The attempt leaves its try block; `finally' joins the dispatcher.
Leave(why) == run' = [run EXCEPT !.pc = "joining", !.why = why,
                                    !.todo = {}, !.at = None]

\* Browser, home page and search; no dialog stands in the way.
Open ==
    /\ run.pc = "opening"
    /\ run' = [run EXCEPT !.pc = "filters"]
    /\ UNCHANGED <<job, load, profile, result, past, faults, deletes>>

\* They did not work: redirected to the login page, blocked by a dialog, timed
\* out, or the browser was closed, which counts as an ordinary return.
OpenFails ==
    /\ run.pc = "opening"
    /\ \E why \in {"login", "risk", "raise", "closed"} : Leave(why)
    /\ Fault
    /\ UNCHANGED <<job, load, profile, result, past, deletes>>

\* The task's filters.  One of them that fails is left out of the search when
\* it is the newest, the free shipping or the region filter.
Filter ==
    /\ run.pc = "filters"
    /\ run' = [run EXCEPT !.pc = "page", !.page = 1]
    /\ UNCHANGED <<job, load, profile, result, past, faults, deletes>>

\* The filters on private sellers and on the price end the attempt instead.
FilterFails ==
    /\ run.pc = "filters"
    /\ \E why \in {"login", "raise", "closed"} : Leave(why)
    /\ Fault
    /\ UNCHANGED <<job, load, profile, result, past, deletes>>

\* A page of results, with items the process may know.
ListPage ==
    /\ run.pc = "page" /\ run.page <= MaxPages
    /\ \E listed \in SUBSET Items \ {{}} :
         run' = [run EXCEPT !.pc = "items", !.todo = listed]
    /\ UNCHANGED <<job, load, profile, result, past, faults, deletes>>

\* Mutant: range(1, max_pages + 2).
SkipPageMore ==
    /\ run.pc = "page" /\ run.page <= MaxPages + 1
    /\ run' = [run EXCEPT !.page = @ + 1]
    /\ UNCHANGED <<job, load, profile, result, past, faults, deletes>>

\* The response of the page is not ok: the loop continues.
SkipPage ==
    /\ run.pc = "page" /\ run.page <= MaxPages
    /\ run' = [run EXCEPT !.page = @ + 1]
    /\ UNCHANGED <<job, load, profile, result, past, faults, deletes>>

\* All pages seen, no next page, or nothing on this one.
PagesEnd ==
    /\ run.pc = "page"
    /\ Leave("return")
    /\ UNCHANGED <<job, load, profile, result, past, faults, deletes>>

\* Recording the snapshots of a page, or opening a page, raises.
PageFails ==
    /\ run.pc \in {"page", "items"}
    /\ \E why \in {"login", "raise", "closed"} : Leave(why)
    /\ Fault
    /\ UNCHANGED <<job, load, profile, result, past, deletes>>

Limited == run.limit > 0 /\ run.got >= run.limit

\* Known items are passed over, the detail page of a new one is opened.
TakeItem ==
    /\ run.pc = "items" /\ ~Limited
    /\ \E i \in run.todo \ run.links :
         run' = [run EXCEPT !.pc = "detail", !.at = i, !.todo = @ \ {i}]
    /\ UNCHANGED <<job, load, profile, result, past, faults, deletes>>

PageDone ==
    /\ run.pc = "items"
    /\ run.todo \subseteq run.links
    /\ run' = [run EXCEPT !.pc = "page", !.page = @ + 1, !.todo = {}]
    /\ UNCHANGED <<job, load, profile, result, past, faults, deletes>>

\* debug_limit is reached with items left: the walk stops.
LimitReached ==
    /\ run.pc = "items" /\ Limited /\ run.todo # {}
    /\ Leave("return")
    /\ UNCHANGED <<job, load, profile, result, past, faults, deletes>>

\* Mutant: the key is added when the item is saved, not when it is submitted.
SubmitUnlisted ==
    /\ run.pc = "detail"
    /\ job' = [job EXCEPT ![run.at] = "queued"]
    /\ run' = [run EXCEPT !.pc = "items", !.at = None, !.got = @ + 1]
    /\ UNCHANGED <<load, profile, result, past, faults, deletes>>

\* The detail answered: submit creates the task, the link is processed.
Submit ==
    /\ run.pc = "detail"
    /\ job' = [job EXCEPT ![run.at] = "queued"]
    /\ run' = [run EXCEPT !.pc = "items", !.at = None, !.got = @ + 1,
                          !.links = @ \cup {run.at}]
    /\ UNCHANGED <<load, profile, result, past, faults, deletes>>

\* Mutant: the link counts as processed although nothing was submitted.
MissListed ==
    /\ run.pc = "detail"
    /\ run' = [run EXCEPT !.pc = "items", !.at = None,
                          !.links = @ \cup {run.at}]
    /\ UNCHANGED <<job, load, profile, result, past, faults, deletes>>

\* An error status, a timeout, any exception, and RiskControlError too: the
\* handlers around one item swallow it and the walk goes on.
Miss ==
    /\ run.pc = "detail"
    /\ run' = [run EXCEPT !.pc = "items", !.at = None]
    /\ UNCHANGED <<job, load, profile, result, past, faults, deletes>>

\* What the attempt loop makes of the way an attempt ended.
AttemptEnds ==
    CASE run.why \in {"return", "closed"} ->
           run' = [run EXCEPT !.pc = "ended", !.outcome = "success"]
      [] run.why = "cancel" ->
           run' = [run EXCEPT !.pc = "ended", !.outcome = "cancelled"]
      [] run.why = "raise" /\ run.attempt < AttemptLimit ->
           run' = [run EXCEPT !.pc = "select"]
      [] OTHER ->
           run' = [run EXCEPT !.pc = "ended", !.outcome = "failure"]

\* Mutant: a closed browser returns without waiting for the dispatcher.
JoinUnlessClosed ==
    /\ run.pc = "joining"
    /\ run.why = "closed" \/ \A i \in Items : job[i] \in Over
    /\ AttemptEnds
    /\ UNCHANGED <<job, load, profile, result, past, faults, deletes>>

\* dispatcher.join returned; the browser is closed and the attempt is over.
Join ==
    /\ run.pc = "joining"
    /\ \A i \in Items : job[i] \in Over
    /\ AttemptEnds
    /\ UNCHANGED <<job, load, profile, result, past, faults, deletes>>

Dropped ==
    /\ job' = [i \in Items |-> IF job[i] \in Over THEN job[i] ELSE "dropped"]
    /\ load' = [s \in Sellers |-> "none"]

\* SIGTERM: the shutdown watcher cancels the task, once.  In an attempt the
\* dispatcher is joined first; in the join itself its tasks are cancelled.
Cancel ==
    /\ run.pc \notin {"idle", "ended"} /\ run.why # "cancel"
    /\ Fault
    /\ IF run.pc \in {"select", "joining"}
         THEN /\ run' = [run EXCEPT !.pc = "ended", !.outcome = "cancelled"]
              /\ Dropped
         ELSE Leave("cancel") /\ UNCHANGED <<job, load>>
    /\ UNCHANGED <<profile, result, past, deletes>>

\* The SIGKILL that follows, or the container dies.
Kill ==
    /\ run.pc \notin {"idle", "ended"}
    /\ Fault
    /\ run' = [run EXCEPT !.pc = "ended", !.outcome = "killed"]
    /\ Dropped
    /\ UNCHANGED <<profile, result, past, deletes>>

-----------------------------------------------------------------------------
(* The dispatcher's tasks and the seller cache. *)

Step(i, to) == job' = [job EXCEPT ![i] = to]

\* _process_with_limit takes a permit.
Acquire(i) ==
    /\ job[i] = "queued"
    /\ Cardinality({j \in Items : job[j] \in Active}) < Concurrency
    /\ Step(i, "seller")
    /\ UNCHANGED <<run, load, profile, result, past, faults, deletes>>

\* The detail named no seller, or get_or_load finds a fresh entry.
SellerKnown(i) ==
    /\ job[i] = "seller"
    /\ SellerOf[i] \in profile \cup {None}
    /\ Step(i, "analyse")
    /\ UNCHANGED <<run, load, profile, result, past, faults, deletes>>

\* get_or_load, without a fresh entry: join the load in flight or start one.
\* An entry that is there has passed its TTL and is removed.
SellerMissing(i) ==
    LET s == SellerOf[i] IN
    /\ job[i] = "seller" /\ s # None
    /\ s \in profile => Fault
    /\ s \notin profile => UNCHANGED faults
    /\ Step(i, "loading")
    /\ profile' = profile \ {s}
    /\ past' = [past EXCEPT
         !.visits[s] = IF load[s] = "none" THEN @ + 1 ELSE @,
         !.lapses[s] = IF s \in profile THEN @ + 1 ELSE @]
    /\ load' = [load EXCEPT ![s] = IF @ = "none" THEN "running" ELSE @]
    /\ UNCHANGED <<run, result, deletes>>

\* Mutant: the finally clause runs before the entry is stored.
LoadForgets(s) ==
    /\ load[s] = "running"
    /\ load' = [load EXCEPT ![s] = "none"]
    /\ profile' \in {profile, profile \cup {s}}
    /\ job' = [i \in Items |->
         IF job[i] = "loading" /\ SellerOf[i] = s THEN "analyse" ELSE job[i]]
    /\ UNCHANGED <<run, result, past, faults, deletes>>

\* scrape_user_profile returned, with whatever it could collect.
LoadStores(s) ==
    /\ load[s] = "running"
    /\ load' = [load EXCEPT ![s] = "stored"]
    /\ profile' = profile \cup {s}
    /\ UNCHANGED <<run, job, result, past, faults, deletes>>

\* It raised: no page could be opened.
LoadRaises(s) ==
    /\ load[s] = "running"
    /\ Fault
    /\ load' = [load EXCEPT ![s] = "raised"]
    /\ past' = [past EXCEPT !.lapses[s] = @ + 1]
    /\ UNCHANGED <<run, job, profile, result, deletes>>

\* Mutant: whoever awaits a load that raised is never woken.
LoadEndsIfStored(s) ==
    /\ load[s] = "stored"
    /\ load' = [load EXCEPT ![s] = "none"]
    /\ job' = [i \in Items |->
         IF job[i] = "loading" /\ SellerOf[i] = s THEN "analyse" ELSE job[i]]
    /\ UNCHANGED <<run, profile, result, past, faults, deletes>>

\* The finally clause forgets the load and everyone who awaited it goes on,
\* with the profile or, in _load_seller_info, without it.
LoadEnds(s) ==
    /\ load[s] \in {"stored", "raised"}
    /\ load' = [load EXCEPT ![s] = "none"]
    /\ job' = [i \in Items |->
         IF job[i] = "loading" /\ SellerOf[i] = s THEN "analyse" ELSE job[i]]
    /\ UNCHANGED <<run, profile, result, past, faults, deletes>>

\* _build_analysis_result: whatever happens there is a result.
Analyse(i) ==
    /\ job[i] = "analyse"
    /\ past' = [past EXCEPT !.analysed[i] = @ + 1]
    /\ Step(i, "save")
    /\ UNCHANGED <<run, load, profile, result, faults, deletes>>

\* INSERT OR IGNORE on (result_filename, link_unique_key).
Save(i) ==
    /\ job[i] = "save"
    /\ result' = [result EXCEPT ![i] = IF @ = None THEN "mine" ELSE @]
    /\ Step(i, "notify")
    /\ UNCHANGED <<run, load, profile, past, faults, deletes>>

\* save_to_jsonl swallows the error and returns False.
SaveFails(i) ==
    /\ job[i] = "save"
    /\ Fault
    /\ Step(i, "notify")
    /\ UNCHANGED <<run, load, profile, result, past, deletes>>

\* _notify_if_recommended, then the permit is released.
Notify(i) ==
    /\ job[i] = "notify"
    /\ \/ past' = [past EXCEPT !.told[i] = @ + 1]
       \/ UNCHANGED past
    /\ Step(i, "done")
    /\ UNCHANGED <<run, load, profile, result, faults, deletes>>

\* A user deletes the result file.
DeleteResults ==
    /\ deletes < MaxDeletes
    /\ deletes' = deletes + 1
    /\ Stored # {}
    /\ result' = [i \in Items |-> None]
    /\ UNCHANGED <<run, job, load, profile, past, faults>>

\* Another process of the same keyword saves the item first.
OtherSaves(i) ==
    /\ result[i] = None
    /\ result' = [result EXCEPT ![i] = "other"]
    /\ UNCHANGED <<run, job, load, profile, past, faults, deletes>>

-----------------------------------------------------------------------------

WalkStep ==
    \/ Skip \/ Select \/ Open \/ OpenFails \/ Filter \/ FilterFails
    \/ ListPage \/ SkipPage \/ PagesEnd \/ PageFails
    \/ TakeItem \/ PageDone \/ LimitReached \/ Submit \/ Miss \/ Join

JobStep(i) ==
    \/ Acquire(i) \/ SellerKnown(i) \/ SellerMissing(i)
    \/ Analyse(i) \/ Save(i) \/ SaveFails(i) \/ Notify(i)

LoadStep(s) == LoadStores(s) \/ LoadRaises(s) \/ LoadEnds(s)

Next ==
    \/ Start \/ WalkStep \/ Cancel \/ Kill \/ DeleteResults
    \/ \E i \in Items : JobStep(i) \/ OtherSaves(i)
    \/ \E s \in Sellers : LoadStep(s)

Spec == Init /\ [][Next]_vars

\* Pages, requests and statements have timeouts, and the event loop runs what
\* is ready; nobody has to start a run, cancel it or delete anything.
FairSpec ==
    /\ Spec
    /\ WF_vars(WalkStep)
    /\ \A i \in Items : WF_vars(JobStep(i))
    /\ \A s \in Sellers : WF_vars(LoadStep(s))

-----------------------------------------------------------------------------
(* Properties. *)

\* An item is analysed, and a user told of it, once per run, over all pages
\* and attempts, and not at all when it was stored before the run began.
WorkedOnOnce ==
    \A i \in Items :
      /\ past.analysed[i] <= (IF i \in past.known THEN 0 ELSE 1)
      /\ past.told[i] <= past.analysed[i]

\* The browser of an attempt is open as long as a task of its dispatcher may
\* load a seller with it: no task outlives the attempt that submitted it.
BrowserOutlivesJobs ==
    run.pc \in {"select", "opening", "ended"} =>
      /\ \A i \in Items : job[i] \in Over
      /\ \A s \in Sellers : load[s] # "running"

\* A run that ended well, and met no error, stored everything it counts as
\* processed: the next run that reads the links misses nothing.
SuccessIsStored ==
    run.outcome = "success" /\ faults = 0 /\ deletes = 0 => run.links \subseteq Stored

\* Jobs that need the same seller at the same time share one visit: within an
\* attempt there is one more only after a load failed or the entry expired.
VisitsAreShared ==
    \A s \in Sellers : past.visits[s] <= past.lapses[s] + run.attempt

\* With a positive blacklist TTL, and where the pool has a login state besides
\* the blacklisted ones and the one that just failed, the next attempt does not
\* use the one that just failed.
RotatesAway ==
    [][/\ run.pc = "select" /\ run'.pc = "opening"
       /\ run.attempt > 0 /\ run.plan = "pool" /\ Mode = "on_failure" /\ run.ttl > 0
       /\ Accounts \ (run.bad \cup {run.sel}) # {}
       => run'.sel # run.sel]_vars

\* Every run that starts comes to an end, and with it every task it submitted.
RunEnds == run.pc = "select" ~> run.pc = "ended"

=============================================================================
