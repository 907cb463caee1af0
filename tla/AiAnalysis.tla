----------------------------- MODULE AiAnalysis -----------------------------
(***************************************************************************)
(* One item is analysed: its pictures are downloaded to the directory of   *)
(* the task's name, the AI accounts that can do it are tried in the order  *)
(* of their priority, and each is asked with fewer and fewer parameters    *)
(* while its gateway complains about them.  Analyses of one item run in    *)
(* separate processes: the spider's and a reanalysis of stored results.    *)
(* Next to them administrators edit the accounts and the AI settings.      *)
(***************************************************************************)
EXTENDS Naturals, FiniteSets

CONSTANTS
    Analyses,     \* analyses in progress at the same time, in processes of their own
    Items,
    Accounts,
    Priority,     \* the order in which accounts are tried
    Gateways,     \* what the gateway behind an account may turn out to support
    Admins,
    MaxEvents     \* bound: edits, saves, kills and database errors

None == "none"
Apis == {"chat", "responses"}
Fields == {"response_format", "skip_ai"}
Seed == [there |-> TRUE, response_format |-> TRUE, skip_ai |-> FALSE]
NoSettings == [there |-> FALSE, response_format |-> FALSE, skip_ai |-> FALSE]

ASSUME AnalysisConstants ==
    /\ Priority \in [Accounts -> Nat]
    /\ \A a, b \in Accounts : Priority[a] = Priority[b] => a = b
    /\ Gateways \in [Accounts -> SUBSET [apis : SUBSET Apis, json : BOOLEAN, temp : BOOLEAN]]
    /\ MaxEvents \in Nat

VARIABLES
    file,       \* an item's picture: none, part or whole
    account,    \* the rows of ai_accounts
    gateway,    \* what is behind an account
    stored,     \* platform:ai_runtime_settings in app_metadata, or NoSettings
    job,        \* the analyses
    save,       \* the requests that save settings
    disturbed,  \* history: analyses whose picture another process touched
    held,       \* history: what a field was last saved as, empty if saves overlapped
    events      \* what MaxEvents bounds

vars == <<file, account, gateway, stored, job, save, disturbed, held, events>>

Asked == [acct |-> None, api |-> "chat", json |-> FALSE, temp |-> TRUE, tries |-> 0,
          sent |-> None, blamed |-> FALSE]
Idle == [pc |-> "idle", item |-> None, pictured |-> FALSE, path |-> FALSE, left |-> {},
         unset |-> {}, ask |-> Asked, verdict |-> None, wasted |-> {}, excused |-> FALSE]
Resting == [pc |-> "idle", field |-> None, value |-> FALSE, seen |-> Seed]

\* analyses that count on the picture of an item
Using(i) == {n \in Analyses : job[n].item = i /\ job[n].pictured /\ job[n].pc # "look"}

\* requests and analyses between reading the settings and writing them
Pending == {m \in Admins : save[m].pc # "idle"} \cup {n \in Analyses : job[n].pc = "seed"}

Happens == events < MaxEvents /\ events' = events + 1

-----------------------------------------------------------------------------
(* The picture                                                             *)

Begin(n, i, pictured) ==
    /\ job[n].pc = "idle"
    /\ job' = [job EXCEPT ![n] = [Idle EXCEPT !.item = i, !.pictured = pictured,
                                              !.pc = IF pictured THEN "look" ELSE "list"]]
    /\ disturbed' = disturbed \ {n}
    /\ UNCHANGED <<file, account, gateway, stored, save, held, events>>

\* A file that exists is taken as it is.
Look(n) ==
    LET i == job[n].item IN
    /\ job[n].pc = "look"
    /\ IF file[i] = "none"
       THEN /\ job' = [job EXCEPT ![n].pc = "get"]
            /\ UNCHANGED disturbed
       ELSE /\ job' = [job EXCEPT ![n].pc = "list", ![n].path = TRUE]
            /\ disturbed' = disturbed \cup {n}
    /\ UNCHANGED <<file, account, gateway, stored, save, held, events>>

\* The answer of the image server arrived: the file is opened for writing.
Get(n) ==
    LET i == job[n].item IN
    /\ job[n].pc = "get"
    /\ file' = [file EXCEPT ![i] = "part"]
    /\ job' = [job EXCEPT ![n].pc = "write"]
    /\ disturbed' = disturbed \cup (Using(i) \ {n})
    /\ UNCHANGED <<account, gateway, stored, save, held, events>>

WriteLate(n) ==
    /\ job[n].pc = "write"
    /\ job' = [job EXCEPT ![n].pc = "list", ![n].path = TRUE]
    /\ UNCHANGED <<file, account, gateway, stored, save, disturbed, held, events>>

Write(n) ==
    /\ job[n].pc = "write"
    /\ file' = [file EXCEPT ![job[n].item] = IF @ = "none" THEN "none" ELSE "whole"]
    /\ job' = [job EXCEPT ![n].pc = "list", ![n].path = TRUE]
    /\ UNCHANGED <<account, gateway, stored, save, disturbed, held, events>>

\* Both tries of the download failed; what was written stays.
GetFails(n) ==
    /\ job[n].pc \in {"get", "write"}
    /\ job' = [job EXCEPT ![n].pc = "list", ![n].pictured = FALSE]
    /\ UNCHANGED <<file, account, gateway, stored, save, disturbed, held, events>>

\* The finally clause: the path is removed, whoever downloaded it.
Cleanup(n) ==
    LET i == job[n].item IN
    /\ job[n].pc = "done"
    /\ job' = [job EXCEPT ![n] = Idle]
    /\ IF job[n].path /\ file[i] # "none"
       THEN /\ file' = [file EXCEPT ![i] = "none"]
            /\ disturbed' = disturbed \cup (Using(i) \ {n})
       ELSE UNCHANGED <<file, disturbed>>
    /\ UNCHANGED <<account, gateway, stored, save, held, events>>

\* Another process with a task of this name does the same, or ends its run
\* and removes the directory.
OtherTouches(i) ==
    /\ \/ file[i] = "none" /\ file' = [file EXCEPT ![i] = "part"]
       \/ file[i] = "part" /\ \E state \in {"none", "whole"} : file' = [file EXCEPT ![i] = state]
       \/ file[i] = "whole" /\ \E state \in {"none", "part"} : file' = [file EXCEPT ![i] = state]
    /\ disturbed' = disturbed \cup Using(i)
    /\ UNCHANGED <<account, gateway, stored, job, save, held, events>>

-----------------------------------------------------------------------------
(* The accounts                                                            *)

Fail(n, excused) ==
    job' = [job EXCEPT ![n].pc = "done", ![n].verdict = "error", ![n].ask = Asked,
                       ![n].excused = excused]

\* list_ai_route_candidates: with a picture, accounts that take pictures.
Able(picture) ==
    {a \in Accounts : account[a].enabled
        /\ IF picture THEN account[a].image ELSE account[a].text}

ListAccounts(n) ==
    LET able == Able(job[n].path) IN
    /\ job[n].pc = "list"
    /\ IF able = {} THEN Fail(n, FALSE)
       ELSE job' = [job EXCEPT ![n].pc = "next", ![n].left = able,
                               ![n].unset = {a \in able : ~account[a].set}]
    /\ UNCHANGED <<file, account, gateway, stored, save, disturbed, held, events>>

\* The task has no prompt, or a statement fails: list_ai_accounts turns that
\* into an empty list, the load of the settings ends the whole analysis.  So
\* does closing the client, whatever was answered, if that raises.
GivesUp(n) ==
    /\ job[n].pc \in {"list", "next", "seed", "ask"}
    /\ Happens
    /\ Fail(n, TRUE)
    /\ UNCHANGED <<file, account, gateway, stored, save, disturbed, held>>

First(accts) == CHOOSE a \in accts : \A b \in accts : Priority[a] <= Priority[b]

\* A client is made for the next account: it loads the settings, and writes
\* the defaults of the environment when there are none.
NextAccount(n) ==
    LET a == First(job[n].left) IN
    /\ job[n].pc = "next"
    /\ IF job[n].left = {} THEN Fail(n, FALSE)
       ELSE job' = [job EXCEPT
              ![n].pc = IF ~stored.there THEN "seed" ELSE "ready",
              ![n].left = @ \ {a},
              ![n].ask = [Asked EXCEPT !.acct = a,
                            !.json = stored.response_format]]
    /\ UNCHANGED <<file, account, gateway, stored, save, disturbed, held, events>>

SeedSettings(n) ==
    /\ job[n].pc = "seed"
    /\ stored' = Seed
    /\ job' = [job EXCEPT ![n].pc = "ready", ![n].ask.json = Seed.response_format]
    /\ UNCHANGED <<file, account, gateway, save, disturbed, held, events>>

\* An account without URL or model has no client; otherwise the message is
\* built from the file, and without a picture if it cannot be read.
Prepare(n) ==
    LET i == job[n].item IN
    /\ job[n].pc = "ready"
    /\ job' = [job EXCEPT
         ![n].pc = IF job[n].ask.acct \in job[n].unset THEN "next" ELSE "ask",
         ![n].ask = IF @.acct \in job[n].unset THEN Asked
                    ELSE [@ EXCEPT !.sent = IF job[n].path THEN file[i] ELSE None]]
    /\ UNCHANGED <<file, account, gateway, stored, save, disturbed, held, events>>

-----------------------------------------------------------------------------
(* One call: _call_ai                                                      *)

MaxTries == 4

\* parameters of the request that the gateway does not support
Wrong(ask) ==
    LET g == gateway[ask.acct] IN
    {x \in {"json", "temp"} : IF x = "json" THEN ask.json /\ ~g.json ELSE ask.temp /\ ~g.temp}

Supported(ask) == ask.api \in gateway[ask.acct].apis /\ Wrong(ask) = {}

\* A refusal says which of the API and the parameters it is about; it may
\* seem to name more parameters than it is about.
Honest(ask, named) ==
    IF ask.api \in gateway[ask.acct].apis
    THEN "api" \notin named /\ named \cap Wrong(ask) # {}
    ELSE "api" \in named

\* History: the account failed by itself.
Blame(n) == [job EXCEPT ![n].ask.blamed = TRUE]

\* The account is given up: analyze() turns every exception into None.
\* History: was there no reason for it?
ToNext(n, jobs) ==
    LET ask == jobs[n].ask IN
    [jobs EXCEPT ![n].pc = "next", ![n].ask = Asked,
                 ![n].wasted = IF ask.blamed \/ gateway[ask.acct].apis = {} THEN @
                               ELSE @ \cup {ask.acct}]

Retried(ask, named) ==
    [ask EXCEPT !.tries = @ + 1,
                !.api = IF "api" \notin named THEN @ ELSE IF @ = "chat" THEN "responses" ELSE "chat",
                !.json = @ /\ "json" \notin named,
                !.temp = @ /\ "temp" \notin named]

Changes(ask, named) ==
    "api" \in named \/ (ask.json /\ "json" \in named) \/ (ask.temp /\ "temp" \in named)

RefuseOneLess(n, named) ==
    LET ask == job[n].ask
        jobs == IF Honest(ask, named) THEN job ELSE Blame(n) IN
    /\ job[n].pc = "ask"
    /\ job' = IF Changes(ask, named) /\ ask.tries < MaxTries - 2
              THEN [jobs EXCEPT ![n].ask = Retried(jobs[n].ask, named)]
              ELSE ToNext(n, jobs)
    /\ UNCHANGED <<file, account, gateway, stored, save, disturbed, held, events>>

\* The request is refused or fails; what the error names decides what the
\* next one leaves out.
Refuse(n, named) ==
    LET ask == job[n].ask
        jobs == IF Honest(ask, named) THEN job ELSE Blame(n) IN
    /\ job[n].pc = "ask"
    /\ job' = IF Changes(ask, named) /\ ask.tries < MaxTries - 1
              THEN [jobs EXCEPT ![n].ask = Retried(jobs[n].ask, named)]
              ELSE ToNext(n, jobs)
    /\ UNCHANGED <<file, account, gateway, stored, save, disturbed, held, events>>

EmptyAgain(n) ==
    /\ job[n].pc = "ask" /\ Supported(job[n].ask)
    /\ job' = [Blame(n) EXCEPT ![n].ask.tries = @ + 1]
    /\ UNCHANGED <<file, account, gateway, stored, save, disturbed, held, events>>

\* An empty answer is asked for again with the same parameters.
Empty(n) ==
    /\ job[n].pc = "ask" /\ Supported(job[n].ask)
    /\ job' = IF job[n].ask.tries < MaxTries - 1
              THEN [Blame(n) EXCEPT ![n].ask.tries = @ + 1]
              ELSE ToNext(n, Blame(n))
    /\ UNCHANGED <<file, account, gateway, stored, save, disturbed, held, events>>

\* An answer that is not JSON, or not of the shape _validate_result wants.
Invalid(n) ==
    /\ job[n].pc = "ask" /\ Supported(job[n].ask)
    /\ job' = ToNext(n, Blame(n))
    /\ UNCHANGED <<file, account, gateway, stored, save, disturbed, held, events>>

Answer(n) ==
    /\ job[n].pc = "ask" /\ Supported(job[n].ask)
    /\ job' = [job EXCEPT ![n].pc = "done", ![n].verdict = "valid", ![n].ask = Asked]
    /\ UNCHANGED <<file, account, gateway, stored, save, disturbed, held, events>>

\* The process of an analysis is killed: no finally clause runs.
Kill(n) ==
    /\ job[n].pc # "idle" /\ Happens
    /\ job' = [job EXCEPT ![n] = Idle]
    /\ UNCHANGED <<file, account, gateway, stored, save, disturbed, held>>

-----------------------------------------------------------------------------
(* The administrators                                                      *)

\* update_ai_account: one field of a row; a deleted row is a disabled one.
EditAccount(a, field) ==
    /\ Happens
    /\ account' = [account EXCEPT ![a][field] = ~@]
    /\ UNCHANGED <<file, gateway, stored, job, save, disturbed, held>>

SaveFromDefaults(m, field, value) ==
    /\ save[m].pc = "idle" /\ Happens
    /\ save' = [save EXCEPT ![m] = [pc |-> IF ~stored.there THEN "seed" ELSE "write",
                  field |-> field, value |-> value, seen |-> Seed]]
    /\ UNCHANGED <<file, account, gateway, stored, job, disturbed, held>>

\* A patch of the AI settings is merged into what is stored, or into the
\* defaults of the environment, which are then written first.
SaveReads(m, field, value) ==
    /\ save[m].pc = "idle" /\ Happens
    /\ save' = [save EXCEPT ![m] = [pc |-> IF ~stored.there THEN "seed" ELSE "write",
                  field |-> field, value |-> value,
                  seen |-> IF stored.there THEN stored ELSE Seed]]
    /\ UNCHANGED <<file, account, gateway, stored, job, disturbed, held>>

SaveSeeds(m) ==
    /\ save[m].pc = "seed"
    /\ stored' = Seed
    /\ save' = [save EXCEPT ![m].pc = "write"]
    /\ UNCHANGED <<file, account, gateway, job, disturbed, held, events>>

SaveWrites(m) ==
    /\ save[m].pc = "write"
    /\ stored' = [save[m].seen EXCEPT ![save[m].field] = save[m].value]
    /\ save' = [save EXCEPT ![m] = Resting]
    /\ held' = [held EXCEPT ![save[m].field] =
                  IF Pending = {m} THEN {save[m].value} ELSE {}]
    /\ UNCHANGED <<file, account, gateway, job, disturbed, events>>

-----------------------------------------------------------------------------

Init ==
    /\ file = [i \in Items |-> "none"]
    /\ account = [a \in Accounts |-> [enabled |-> TRUE, image |-> TRUE, text |-> TRUE,
                                      set |-> TRUE]]
    /\ gateway \in {g \in [Accounts -> UNION {Gateways[a] : a \in Accounts}] :
                      \A a \in Accounts : g[a] \in Gateways[a]}
    /\ stored = NoSettings
    /\ job = [n \in Analyses |-> Idle]
    /\ save = [m \in Admins |-> Resting]
    /\ disturbed = {}
    /\ held = [field \in Fields |-> {}]
    /\ events = 0

Step(n) ==
    \/ \E i \in Items, pictured \in BOOLEAN : Begin(n, i, pictured)
    \/ Look(n) \/ Get(n) \/ Write(n) \/ GetFails(n) \/ Cleanup(n)
    \/ ListAccounts(n) \/ GivesUp(n) \/ NextAccount(n) \/ SeedSettings(n) \/ Prepare(n)
    \/ \E named \in SUBSET {"api", "json", "temp"} : Refuse(n, named)
    \/ Empty(n) \/ Invalid(n) \/ Answer(n)
    \/ Kill(n)

Next ==
    \/ \E n \in Analyses : Step(n)
    \/ \E i \in Items : OtherTouches(i)
    \/ \E a \in Accounts, field \in {"enabled", "image", "text", "set"} : EditAccount(a, field)
    \/ \E m \in Admins :
         \/ \E field \in Fields, value \in BOOLEAN : SaveReads(m, field, value)
         \/ SaveSeeds(m) \/ SaveWrites(m)

Spec == Init /\ [][Next]_vars

-----------------------------------------------------------------------------
(* Properties                                                              *)

\* The shape of the state; no call makes more than four requests, whatever
\* the gateway answers.
TypeOK ==
    /\ \A i \in Items : file[i] \in {"none", "part", "whole"}
    /\ stored.there => \A field \in Fields : stored[field] \in BOOLEAN
    /\ \A n \in Analyses :
         /\ job[n].pc \in {"idle", "look", "get", "write", "list", "next", "seed", "ready",
                           "ask", "done"}
         /\ job[n].left \subseteq Accounts
         /\ job[n].ask.tries < MaxTries
    /\ events \in 0..MaxEvents

\* An analysis ends without a verdict only when no account is left, and it gave
\* none up without a reason: its gateway has neither API, or it failed,
\* answered nothing useful, or complained of what was not wrong.  Leaving out
\* what a gateway complains of gets every other one to answer within the four
\* requests.
ErrorHasReason ==
    \A n \in Analyses :
        job[n].pc = "done" /\ job[n].verdict = "error" /\ ~job[n].excused =>
            job[n].left = {} /\ job[n].wasted = {}

\* What an analysis downloaded is there, and whole, in every request it makes,
\* unless another process touched the file of the same name meanwhile.
PicturesArrive ==
    \A n \in Analyses :
        job[n].pc = "ask" /\ job[n].path /\ n \notin disturbed => job[n].ask.sent = "whole"

\* A setting keeps the value it was last saved with, whatever is loaded or
\* seeded, unless saves or seeds overlapped.
SettingsHold ==
    \A field \in Fields : held[field] \subseteq {stored[field]}
=============================================================================
