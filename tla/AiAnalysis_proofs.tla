-------------------------- MODULE AiAnalysis_proofs --------------------------
(***************************************************************************)
(* Theorems about AiAnalysis: for any analyses, accounts, gateways and     *)
(* administrators, and any number of edits, kills and database errors.     *)
(***************************************************************************)
EXTENDS AiAnalysis, WellFoundedInduction, TLAPS

\* An administrator's request is told from an analysis by its name.
DistinctNames == Admins \cap Analyses = {}

-----------------------------------------------------------------------------
(* The inductive invariant                                                 *)

Files == {"none", "part", "whole"}
AskType == [acct : Accounts \cup {None}, api : Apis, json : BOOLEAN, temp : BOOLEAN,
            tries : 0..(MaxTries - 1), sent : Files, blamed : BOOLEAN]
JobType == [pc : {"idle", "look", "get", "write", "list", "next", "seed", "ready", "ask",
                  "done"},
            item : Items \cup {None}, pictured : BOOLEAN, path : BOOLEAN,
            left : SUBSET Accounts, unset : SUBSET Accounts, ask : AskType,
            verdict : {None, "error", "valid"}, wasted : SUBSET Accounts, excused : BOOLEAN]
SettingsType == [there : BOOLEAN, response_format : BOOLEAN, skip_ai : BOOLEAN]
SaveType == [pc : {"idle", "seed", "write"}, field : Fields \cup {None}, value : BOOLEAN,
             seen : SettingsType]
GatewayType == [apis : SUBSET Apis, json : BOOLEAN, temp : BOOLEAN]

TypeInv ==
    /\ file \in [Items -> Files]
    /\ gateway \in [Accounts -> GatewayType]
    /\ stored \in SettingsType
    /\ job \in [Analyses -> JobType]
    /\ save \in [Admins -> SaveType]
    /\ held \in [Fields -> SUBSET BOOLEAN]
    /\ events \in 0..MaxEvents

\* An analysis that nobody disturbed has the picture it downloaded, from when
\* the file is closed until its own finally clause.
PictureInv(n) ==
    /\ job[n].pc # "idle" => job[n].item \in Items
    /\ job[n].pc \in {"look", "get", "write"} => job[n].pictured /\ ~job[n].path
    /\ job[n].path => job[n].pictured /\ job[n].pc # "idle"
    /\ n \notin disturbed =>
         /\ job[n].pc = "write" => file[job[n].item] # "none"
         /\ job[n].path => file[job[n].item] = "whole"
         /\ job[n].path /\ job[n].pc = "ask" => job[n].ask.sent = "whole"

\* What a request still asks of its gateway that the gateway does not support:
\* the API, the format of the answer, the temperature.
Missing(ask) ==
    LET g == gateway[ask.acct] IN
      (IF ask.api \in g.apis THEN 0 ELSE 1)
    + (IF ask.json /\ ~g.json THEN 1 ELSE 0)
    + (IF ask.temp /\ ~g.temp THEN 1 ELSE 0)

\* While an account is not to blame, the requests it has left are more than
\* what has still to be left out; so none is given up without a reason.
AskInv(n) ==
    LET ask == job[n].ask IN
    /\ job[n].pc \in {"look", "get", "write", "list"} => job[n].left = {}
    /\ job[n].pc \in {"seed", "ready", "ask"} => ask.acct \in Accounts
    /\ job[n].pc \in {"seed", "ready"} => ask.tries = 0 /\ ~ask.blamed
    /\ job[n].pc = "ask" /\ ~ask.blamed /\ gateway[ask.acct].apis # {} =>
         ask.tries + Missing(ask) < MaxTries
    /\ job[n].wasted = {}
    /\ job[n].pc = "done" /\ job[n].verdict = "error" /\ ~job[n].excused => job[n].left = {}

\* A save that is about to write has read every field that is still as it was
\* last saved.
SaveInv(m) ==
    save[m].pc # "idle" =>
      /\ save[m].field \in Fields /\ save[m].seen.there
      /\ \A field \in Fields :
           save[m].pc = "write" /\ held[field] # {} => save[m].seen[field] = stored[field]

\* A field that was saved is stored, and nobody is about to write defaults.
HeldInv(field) ==
    held[field] # {} =>
      /\ held[field] = {stored[field]} /\ stored.there
      /\ \A m \in Admins : save[m].pc # "seed"
      /\ \A n \in Analyses : job[n].pc # "seed"

IInv ==
    /\ TypeInv
    /\ \A n \in Analyses : PictureInv(n) /\ AskInv(n)
    /\ \A m \in Admins : SaveInv(m)
    /\ \A field \in Fields : HeldInv(field)

-----------------------------------------------------------------------------
(* The order of the accounts                                               *)

\* Sets of natural numbers have a least member.
LEMMA LeastNumber ==
  ASSUME NEW T, T \subseteq Nat, T # {}
  PROVE  \E x \in T : \A y \in T : x <= y
<1> DEFINE R == OpToRel(<, Nat)
<1>1. IsWellFoundedOn(R, Nat)
  BY NatLessThanWellFounded
<1>2. \A x, y \in Nat : x < y => <<x, y>> \in R
  BY DEF OpToRel
<1> HIDE DEF R
<1>3. PICK x \in T : \A y \in T : ~ (<<y, x>> \in R)
  BY <1>1, WFMin
<1>4. ASSUME NEW y \in T PROVE x <= y
  <2>1. x \in Nat /\ y \in Nat /\ ~ (<<y, x>> \in R)
    BY <1>3
  <2>2. ~ (y < x)
    BY <1>2, <2>1
  <2> QED BY <2>1, <2>2
<1> QED BY <1>4

\* The account that is tried next is one of those left, and none of them comes
\* before it.
LEMMA FirstOfAccounts ==
  ASSUME NEW accts, accts \subseteq Accounts, accts # {}
  PROVE  First(accts) \in accts /\ \A b \in accts : Priority[First(accts)] <= Priority[b]
<1> DEFINE T == {Priority[a] : a \in accts}
<1>1. T \subseteq Nat /\ T # {}
  BY AnalysisConstants
<1>2. PICK x \in T : \A y \in T : x <= y
  <2> HIDE DEF T
  <2> QED BY <1>1, LeastNumber
<1>3. \E a \in accts : \A b \in accts : Priority[a] <= Priority[b]
  BY <1>2
<1> QED BY <1>3 DEF First

-----------------------------------------------------------------------------
(* An analysis moves on                                                    *)

LEMMA RecordTypes ==
  /\ Asked \in AskType /\ Asked.tries = 0 /\ ~Asked.blamed /\ Asked.sent = "none"
  /\ Idle \in JobType /\ Idle.pc = "idle" /\ Idle.item = None /\ Idle.left = {}
  /\ Idle.wasted = {} /\ ~Idle.path /\ ~Idle.pictured
  /\ Seed \in SettingsType /\ Seed.there
  /\ NoSettings \in SettingsType /\ ~NoSettings.there
  /\ Resting \in SaveType /\ Resting.pc = "idle"
<1>1. Asked \in AskType /\ Asked.tries = 0 /\ ~Asked.blamed /\ Asked.sent = "none"
  BY DEF Asked, AskType, Apis, Files, MaxTries, None
<1>2. /\ Idle \in JobType /\ Idle.pc = "idle" /\ Idle.item = None /\ Idle.left = {}
      /\ Idle.wasted = {} /\ ~Idle.path /\ ~Idle.pictured
  BY <1>1 DEF Idle, JobType
<1>3. Seed \in SettingsType /\ Seed.there /\ NoSettings \in SettingsType /\ ~NoSettings.there
  BY DEF Seed, NoSettings, SettingsType
<1>4. Resting \in SaveType /\ Resting.pc = "idle"
  BY <1>3 DEF Resting, SaveType
<1> QED BY <1>1, <1>2, <1>3, <1>4

\* n moves on; the others keep their pictures or know that they lost them.
LEMMA JobKeeps ==
  ASSUME IInv, NEW n \in Analyses, NEW new \in JobType, job' = [job EXCEPT ![n] = new],
         UNCHANGED <<gateway, save, held>>, events' \in 0..MaxEvents,
         file' \in [Items -> Files], stored' \in SettingsType,
         \A m \in Analyses \ {n} : m \notin disturbed' =>
            /\ m \notin disturbed
            /\ job[m].path => file'[job[m].item] = file[job[m].item]
            /\ job[m].pc = "write" =>
                  file'[job[m].item] = file[job[m].item] \/ file'[job[m].item] = "whole",
         PictureInv(n)', AskInv(n)',
         \A m \in Admins : SaveInv(m)', \A field \in Fields : HeldInv(field)'
  PROVE  IInv'
<1>1. TypeInv /\ job \in [Analyses -> JobType]
  BY DEF IInv, TypeInv
<1>2. job'[n] = new /\ \A m \in Analyses \ {n} : job'[m] = job[m]
  BY <1>1
<1>3. TypeInv'
  <2>1. job' \in [Analyses -> JobType]
    BY <1>1
  <2> QED BY <1>1, <2>1 DEF TypeInv
<1>4. ASSUME NEW m \in Analyses \ {n} PROVE PictureInv(m)' /\ AskInv(m)'
  <2>1. PictureInv(m) /\ AskInv(m) /\ job'[m] = job[m]
    BY <1>2 DEF IInv
  <2>2. PictureInv(m)'
    BY <2>1 DEF PictureInv
  <2>3. AskInv(m)'
    BY <2>1 DEF AskInv, Missing
  <2> QED BY <2>2, <2>3
<1> QED BY <1>3, <1>4 DEF IInv

\* The same where the settings stay.
LEMMA JobMoves ==
  ASSUME IInv, NEW n \in Analyses, NEW new \in JobType, job' = [job EXCEPT ![n] = new],
         UNCHANGED <<gateway, stored, save, held>>, events' \in 0..MaxEvents,
         file' \in [Items -> Files],
         \A m \in Analyses \ {n} : m \notin disturbed' =>
            /\ m \notin disturbed
            /\ job[m].path => file'[job[m].item] = file[job[m].item]
            /\ job[m].pc = "write" =>
                  file'[job[m].item] = file[job[m].item] \/ file'[job[m].item] = "whole",
         new.pc = "seed" => ~stored.there,
         PictureInv(n)', AskInv(n)'
  PROVE  IInv'
<1>1. TypeInv /\ job \in [Analyses -> JobType]
  BY DEF IInv, TypeInv
<1>2. job'[n] = new /\ \A m \in Analyses \ {n} : job'[m] = job[m]
  BY <1>1
<1>3. \A m \in Admins : SaveInv(m)'
  BY DEF IInv, SaveInv
<1>4. ASSUME NEW field \in Fields PROVE HeldInv(field)'
  BY <1>2 DEF IInv, HeldInv
<1>5. stored' \in SettingsType
  BY <1>1 DEF TypeInv
<1> QED BY <1>3, <1>4, <1>5, JobKeeps

-----------------------------------------------------------------------------
(* The picture                                                             *)

LEMMA BeginKeeps ==
  ASSUME IInv, NEW n \in Analyses, NEW i \in Items, NEW pictured \in BOOLEAN,
         Begin(n, i, pictured)
  PROVE  IInv'
<1> DEFINE new == [Idle EXCEPT !.item = i, !.pictured = pictured,
                               !.pc = IF pictured THEN "look" ELSE "list"]
<1>1. /\ TypeInv /\ job \in [Analyses -> JobType] /\ events' \in 0..MaxEvents
      /\ job' = [job EXCEPT ![n] = new] /\ disturbed' = disturbed \ {n}
      /\ UNCHANGED <<file, gateway, stored, save, held>>
  BY DEF IInv, TypeInv, Begin
<1>2. /\ new.item = i /\ new.pictured = pictured /\ new.left = {} /\ new.wasted = {} /\ ~new.path
      /\ new.pc \in {"look", "list"} /\ (new.pc = "look" => pictured)
  BY RecordTypes DEF JobType
<1>3. new \in JobType
  BY RecordTypes DEF JobType
<1> HIDE DEF new
<1>4. job'[n] = new /\ file' \in [Items -> Files]
  BY <1>1 DEF TypeInv
<1>5. PictureInv(n)' /\ AskInv(n)'
  BY <1>2, <1>4 DEF PictureInv, AskInv
<1> QED BY <1>1, <1>2, <1>3, <1>4, <1>5, JobMoves

LEMMA LookKeeps == ASSUME IInv, NEW n \in Analyses, Look(n) PROVE IInv'
<1> DEFINE i == job[n].item
           get == [job[n] EXCEPT !.pc = "get"]
           list == [job[n] EXCEPT !.pc = "list", !.path = TRUE]
<1>1. /\ TypeInv /\ job \in [Analyses -> JobType] /\ job[n] \in JobType
      /\ events' \in 0..MaxEvents /\ file' \in [Items -> Files]
      /\ PictureInv(n) /\ AskInv(n) /\ job[n].pc = "look"
      /\ UNCHANGED <<file, gateway, stored, save, held>>
  BY DEF IInv, TypeInv, Look
<1>2. CASE file[i] = "none"
  <2>1. job' = [job EXCEPT ![n] = get] /\ disturbed' = disturbed
    BY <1>1, <1>2 DEF Look
  <2>2. /\ get.pc = "get" /\ get.item = i /\ get.pictured = job[n].pictured
        /\ get.path = job[n].path /\ get.left = job[n].left /\ get.wasted = job[n].wasted
    BY <1>1 DEF JobType
  <2>3. get \in JobType
    BY <1>1 DEF JobType
  <2> HIDE DEF get
  <2>4. job'[n] = get
    BY <1>1, <2>1
  <2>5. PictureInv(n)' /\ AskInv(n)'
    BY <1>1, <2>2, <2>4 DEF PictureInv, AskInv
  <2> QED BY <1>1, <2>1, <2>2, <2>3, <2>5, JobMoves
<1>3. CASE file[i] # "none"
  <2>1. job' = [job EXCEPT ![n] = list] /\ disturbed' = disturbed \cup {n}
    BY <1>1, <1>3 DEF Look
  <2>2. /\ list.pc = "list" /\ list.item = i /\ list.pictured = job[n].pictured
        /\ list.path /\ list.left = job[n].left /\ list.wasted = job[n].wasted
    BY <1>1 DEF JobType
  <2>3. list \in JobType
    BY <1>1 DEF JobType
  <2> HIDE DEF list
  <2>4. job'[n] = list
    BY <1>1, <2>1
  <2>5. PictureInv(n)' /\ AskInv(n)'
    BY <1>1, <2>1, <2>2, <2>4 DEF PictureInv, AskInv
  <2> QED BY <1>1, <2>1, <2>2, <2>3, <2>5, JobMoves
<1> QED BY <1>2, <1>3

LEMMA GetKeeps == ASSUME IInv, NEW n \in Analyses, Get(n) PROVE IInv'
<1> DEFINE i == job[n].item
           new == [job[n] EXCEPT !.pc = "write"]
<1>1. /\ TypeInv /\ job \in [Analyses -> JobType] /\ job[n] \in JobType
      /\ file \in [Items -> Files] /\ events' \in 0..MaxEvents
      /\ PictureInv(n) /\ AskInv(n) /\ job[n].pc = "get" /\ i \in Items
      /\ file' = [file EXCEPT ![i] = "part"]
      /\ disturbed' = disturbed \cup (Using(i) \ {n})
      /\ UNCHANGED <<gateway, stored, save, held>>
  BY DEF IInv, TypeInv, Get, PictureInv
<1>2. /\ new.pc = "write" /\ new.item = i /\ new.pictured = job[n].pictured
      /\ new.path = job[n].path /\ new.left = job[n].left /\ new.wasted = job[n].wasted
  BY <1>1 DEF JobType
<1>3. new \in JobType /\ job' = [job EXCEPT ![n] = new]
  BY <1>1 DEF JobType, Get
<1> HIDE DEF new
<1>4. job'[n] = new /\ file' \in [Items -> Files] /\ file'[i] = "part"
  BY <1>1, <1>3 DEF Files
<1>5. PictureInv(n)' /\ AskInv(n)'
  BY <1>1, <1>2, <1>4 DEF PictureInv, AskInv
<1>6. ASSUME NEW m \in Analyses \ {n}, m \notin disturbed'
      PROVE  /\ m \notin disturbed
             /\ job[m].path \/ job[m].pc = "write" => file'[job[m].item] = file[job[m].item]
  <2>1. m \notin disturbed /\ m \notin Using(i) /\ PictureInv(m)
    BY <1>1, <1>6 DEF IInv
  <2>2. job[m].path \/ job[m].pc = "write" => job[m].item # i
    BY <2>1 DEF Using, PictureInv
  <2>3. job[m].path \/ job[m].pc = "write" => job[m].item \in Items
    BY <2>1 DEF PictureInv
  <2> QED BY <1>1, <2>1, <2>2, <2>3
<1> QED BY <1>1, <1>2, <1>3, <1>4, <1>5, <1>6, JobMoves

LEMMA WriteKeeps == ASSUME IInv, NEW n \in Analyses, Write(n) PROVE IInv'
<1> DEFINE i == job[n].item
           new == [job[n] EXCEPT !.pc = "list", !.path = TRUE]
           state == IF file[i] = "none" THEN "none" ELSE "whole"
<1>1. /\ TypeInv /\ job \in [Analyses -> JobType] /\ job[n] \in JobType
      /\ file \in [Items -> Files] /\ events' \in 0..MaxEvents
      /\ PictureInv(n) /\ AskInv(n) /\ job[n].pc = "write" /\ i \in Items
      /\ file' = [file EXCEPT ![i] = state] /\ disturbed' = disturbed
      /\ UNCHANGED <<gateway, stored, save, held>>
  BY DEF IInv, TypeInv, Write, PictureInv
<1>2. /\ new.pc = "list" /\ new.item = i /\ new.pictured = job[n].pictured
      /\ new.path /\ new.left = job[n].left /\ new.wasted = job[n].wasted
  BY <1>1 DEF JobType
<1>3. new \in JobType /\ job' = [job EXCEPT ![n] = new]
  BY <1>1 DEF JobType, Write
<1> HIDE DEF new
<1>4. job'[n] = new /\ file' \in [Items -> Files] /\ file'[i] = state
  BY <1>1, <1>3 DEF Files
<1>5. PictureInv(n)' /\ AskInv(n)'
  BY <1>1, <1>2, <1>4 DEF PictureInv, AskInv
<1>6. ASSUME NEW m \in Analyses \ {n}, m \notin disturbed'
      PROVE  /\ m \notin disturbed
             /\ job[m].path => file'[job[m].item] = file[job[m].item]
             /\ job[m].pc = "write" =>
                   file'[job[m].item] = file[job[m].item] \/ file'[job[m].item] = "whole"
  <2>1. m \notin disturbed /\ PictureInv(m)
    BY <1>1, <1>6 DEF IInv
  <2>2. job[m].path \/ job[m].pc = "write" => job[m].item \in Items
    BY <2>1 DEF PictureInv
  <2>3. job[m].path => file[job[m].item] = "whole"
    BY <2>1 DEF PictureInv
  <2>4. \A j \in Items : file'[j] = IF j = i THEN state ELSE file[j]
    BY <1>1
  <2> QED BY <2>1, <2>2, <2>3, <2>4
<1> QED BY <1>1, <1>2, <1>3, <1>4, <1>5, <1>6, JobMoves

LEMMA GetFailsKeeps == ASSUME IInv, NEW n \in Analyses, GetFails(n) PROVE IInv'
<1> DEFINE new == [job[n] EXCEPT !.pc = "list", !.pictured = FALSE]
<1>1. /\ TypeInv /\ job \in [Analyses -> JobType] /\ job[n] \in JobType
      /\ file' \in [Items -> Files] /\ events' \in 0..MaxEvents
      /\ PictureInv(n) /\ AskInv(n) /\ job[n].pc \in {"get", "write"}
      /\ UNCHANGED <<file, gateway, stored, save, held, disturbed>>
  BY DEF IInv, TypeInv, GetFails
<1>2. /\ new.pc = "list" /\ new.item = job[n].item
      /\ new.path = job[n].path /\ new.left = job[n].left /\ new.wasted = job[n].wasted
  BY <1>1 DEF JobType
<1>3. new \in JobType /\ job' = [job EXCEPT ![n] = new]
  BY <1>1 DEF JobType, GetFails
<1> HIDE DEF new
<1>4. job'[n] = new
  BY <1>1, <1>3
<1>5. PictureInv(n)' /\ AskInv(n)'
  BY <1>1, <1>2, <1>4 DEF PictureInv, AskInv
<1> QED BY <1>1, <1>2, <1>3, <1>5, JobMoves

\* An analysis is over: another may begin in its place.
LEMMA IdleKeeps ==
  ASSUME IInv, NEW n \in Analyses, Cleanup(n) \/ Kill(n)
  PROVE  IInv'
<1> DEFINE i == job[n].item
<1>1. /\ TypeInv /\ job \in [Analyses -> JobType] /\ job[n] \in JobType
      /\ file \in [Items -> Files] /\ events' \in 0..MaxEvents
      /\ PictureInv(n) /\ i \in Items /\ job' = [job EXCEPT ![n] = Idle]
      /\ UNCHANGED <<gateway, stored, save, held>>
  BY AnalysisConstants DEF IInv, TypeInv, Cleanup, Kill, PictureInv, Happens
<1>2. \/ UNCHANGED <<file, disturbed>>
      \/ /\ file' = [file EXCEPT ![i] = "none"]
         /\ disturbed' = disturbed \cup (Using(i) \ {n})
  BY DEF Cleanup, Kill
<1>3. job'[n] = Idle /\ file' \in [Items -> Files]
  BY <1>1, <1>2 DEF Files
<1>4. PictureInv(n)' /\ AskInv(n)'
  BY <1>3, RecordTypes DEF PictureInv, AskInv
<1>5. ASSUME NEW m \in Analyses \ {n}, m \notin disturbed'
      PROVE  /\ m \notin disturbed
             /\ job[m].path \/ job[m].pc = "write" => file'[job[m].item] = file[job[m].item]
  <2>1. CASE UNCHANGED <<file, disturbed>>
    BY <1>5, <2>1
  <2>2. CASE /\ file' = [file EXCEPT ![i] = "none"]
             /\ disturbed' = disturbed \cup (Using(i) \ {n})
    <3>1. m \notin disturbed /\ m \notin Using(i) /\ PictureInv(m)
      BY <1>5, <2>2 DEF IInv
    <3>2. job[m].path \/ job[m].pc = "write" => job[m].item # i /\ job[m].item \in Items
      BY <3>1 DEF Using, PictureInv
    <3> QED BY <1>1, <2>2, <3>1, <3>2
  <2> QED BY <1>2, <2>1, <2>2
<1> QED BY <1>1, <1>3, <1>4, <1>5, RecordTypes, JobMoves

LEMMA OtherTouchesKeeps == ASSUME IInv, NEW i \in Items, OtherTouches(i) PROVE IInv'
<1>1. /\ TypeInv /\ file \in [Items -> Files] /\ disturbed' = disturbed \cup Using(i)
      /\ UNCHANGED <<gateway, stored, job, save, held, events>>
  BY DEF IInv, TypeInv, OtherTouches
<1>2. PICK state \in Files : file' = [file EXCEPT ![i] = state]
  BY DEF OtherTouches, Files
<1>3. TypeInv'
  BY <1>1, <1>2 DEF TypeInv
<1>4. ASSUME NEW n \in Analyses PROVE PictureInv(n)' /\ AskInv(n)'
  <2>1. PictureInv(n) /\ AskInv(n)
    BY DEF IInv
  <2>2. AskInv(n)'
    BY <1>1, <2>1 DEF AskInv, Missing
  <2>3. CASE n \in disturbed'
    BY <1>1, <2>1, <2>2, <2>3 DEF PictureInv
  <2>4. CASE n \notin disturbed'
    <3>1. n \notin disturbed /\ n \notin Using(i)
      BY <1>1, <2>4
    <3>2. job[n].path \/ job[n].pc = "write" => job[n].item # i /\ job[n].item \in Items
      BY <2>1, <3>1 DEF Using, PictureInv
    <3>3. job[n].path \/ job[n].pc = "write" => file'[job[n].item] = file[job[n].item]
      BY <1>1, <1>2, <3>2
    <3> QED BY <1>1, <2>1, <2>2, <3>1, <3>3 DEF PictureInv
  <2> QED BY <2>2, <2>3, <2>4
<1>5. \A m \in Admins : SaveInv(m)'
  BY <1>1 DEF IInv, SaveInv
<1>6. \A field \in Fields : HeldInv(field)'
  BY <1>1 DEF IInv, HeldInv
<1> QED BY <1>3, <1>4, <1>5, <1>6 DEF IInv

-----------------------------------------------------------------------------
(* The accounts                                                            *)

LEMMA FailKeeps ==
  ASSUME IInv, NEW n \in Analyses, NEW excused \in BOOLEAN, Fail(n, excused),
         job[n].pc \in {"list", "next", "seed", "ask"}, excused \/ job[n].left = {},
         UNCHANGED <<file, gateway, stored, save, disturbed, held>>, events' \in 0..MaxEvents
  PROVE  IInv'
<1> DEFINE new == [job[n] EXCEPT !.pc = "done", !.verdict = "error", !.ask = Asked,
                                 !.excused = excused]
<1>1. /\ TypeInv /\ job \in [Analyses -> JobType] /\ job[n] \in JobType
      /\ file' \in [Items -> Files] /\ PictureInv(n) /\ AskInv(n)
  BY DEF IInv, TypeInv
<1>2. /\ new.pc = "done" /\ new.item = job[n].item /\ new.pictured = job[n].pictured
      /\ new.path = job[n].path /\ new.left = job[n].left /\ new.wasted = job[n].wasted
      /\ new.excused = excused
  BY <1>1 DEF JobType
<1>3. new \in JobType /\ job' = [job EXCEPT ![n] = new]
  BY <1>1, RecordTypes DEF JobType, Fail
<1> HIDE DEF new
<1>4. job'[n] = new
  BY <1>1, <1>3
<1>5. PictureInv(n)' /\ AskInv(n)'
  BY <1>1, <1>2, <1>4 DEF PictureInv, AskInv
<1> QED BY <1>1, <1>2, <1>3, <1>5, JobMoves

LEMMA ListAccountsKeeps == ASSUME IInv, NEW n \in Analyses, ListAccounts(n) PROVE IInv'
<1> DEFINE able == Able(job[n].path)
           new == [job[n] EXCEPT !.pc = "next", !.left = able,
                                 !.unset = {a \in able : ~account[a].set}]
<1>1. /\ TypeInv /\ job \in [Analyses -> JobType] /\ job[n] \in JobType
      /\ file' \in [Items -> Files] /\ events' \in 0..MaxEvents
      /\ PictureInv(n) /\ AskInv(n) /\ job[n].pc = "list" /\ job[n].left = {}
      /\ able \subseteq Accounts
      /\ UNCHANGED <<file, gateway, stored, save, disturbed, held>>
  BY DEF IInv, TypeInv, ListAccounts, AskInv, Able
<1>2. CASE able = {}
  BY <1>1, <1>2, FailKeeps DEF ListAccounts
<1>3. CASE able # {}
  <2>1. job' = [job EXCEPT ![n] = new]
    BY <1>1, <1>3 DEF ListAccounts
  <2>2. /\ new.pc = "next" /\ new.item = job[n].item /\ new.pictured = job[n].pictured
        /\ new.path = job[n].path /\ new.wasted = job[n].wasted
    BY <1>1 DEF JobType
  <2>3. new \in JobType
    BY <1>1 DEF JobType
  <2> HIDE DEF new, able
  <2>4. job'[n] = new
    BY <1>1, <2>1
  <2>5. PictureInv(n)' /\ AskInv(n)'
    BY <1>1, <2>2, <2>4 DEF PictureInv, AskInv
  <2> QED BY <1>1, <2>1, <2>2, <2>3, <2>5, JobMoves
<1> QED BY <1>2, <1>3

LEMMA NextAccountKeeps == ASSUME IInv, NEW n \in Analyses, NextAccount(n) PROVE IInv'
<1> DEFINE a == First(job[n].left)
           pc == IF ~stored.there THEN "seed" ELSE "ready"
           left == job[n].left \ {a}
           ask == [Asked EXCEPT !.acct = a, !.json = stored.response_format]
           new == [job[n] EXCEPT !.pc = pc, !.left = left, !.ask = ask]
<1>1. /\ TypeInv /\ job \in [Analyses -> JobType] /\ job[n] \in JobType
      /\ file' \in [Items -> Files] /\ events' \in 0..MaxEvents
      /\ PictureInv(n) /\ AskInv(n) /\ job[n].pc = "next"
      /\ UNCHANGED <<file, gateway, stored, save, disturbed, held>>
  BY DEF IInv, TypeInv, NextAccount
<1>2. CASE job[n].left = {}
  BY <1>1, <1>2, FailKeeps DEF NextAccount
<1>3. CASE job[n].left # {}
  <2>1. job' = [job EXCEPT ![n] = new]
    BY <1>1, <1>3 DEF NextAccount
  <2>2. a \in Accounts /\ left \in SUBSET Accounts
    <3>1. job[n].left \subseteq Accounts
      BY <1>1 DEF JobType
    <3> QED BY <1>3, <3>1, FirstOfAccounts
  <2>3. stored.response_format \in BOOLEAN
    BY <1>1 DEF TypeInv, SettingsType
  <2> HIDE DEF a, left
  <2>4. ask \in AskType /\ ask.acct = a /\ ask.tries = 0 /\ ~ask.blamed
    <3>1. ask.acct = a /\ ask.tries = 0 /\ ~ask.blamed
      BY RecordTypes DEF AskType
    <3>2. ask \in AskType
      BY <2>2, <2>3, RecordTypes DEF AskType
    <3> QED BY <3>1, <3>2
  <2> HIDE DEF ask
  <2>5. /\ new.pc = pc /\ new.item = job[n].item /\ new.pictured = job[n].pictured
        /\ new.path = job[n].path /\ new.wasted = job[n].wasted /\ new.ask = ask
    BY <1>1 DEF JobType
  <2>6. new \in JobType
    BY <1>1, <2>2, <2>4 DEF JobType
  <2> HIDE DEF new
  <2>7. job'[n] = new
    BY <1>1, <2>1
  <2>8. PictureInv(n)' /\ AskInv(n)'
    BY <1>1, <2>2, <2>4, <2>5, <2>7 DEF PictureInv, AskInv
  <2> QED BY <1>1, <2>1, <2>5, <2>6, <2>8, JobMoves
<1> QED BY <1>2, <1>3

LEMMA SeedSettingsKeeps == ASSUME IInv, NEW n \in Analyses, SeedSettings(n) PROVE IInv'
<1> DEFINE ask == [job[n].ask EXCEPT !.json = Seed.response_format]
           new == [job[n] EXCEPT !.pc = "ready", !.ask = ask]
<1>1. /\ TypeInv /\ job \in [Analyses -> JobType] /\ job[n] \in JobType /\ job[n].ask \in AskType
      /\ file' \in [Items -> Files] /\ events' \in 0..MaxEvents
      /\ PictureInv(n) /\ AskInv(n) /\ job[n].pc = "seed" /\ stored' = Seed
      /\ UNCHANGED <<file, gateway, save, disturbed, held>>
  BY DEF IInv, TypeInv, SeedSettings, JobType
<1>2. job' = [job EXCEPT ![n] = new]
  BY <1>1 DEF SeedSettings
<1>3. /\ ask \in AskType /\ ask.acct = job[n].ask.acct /\ ask.tries = job[n].ask.tries
      /\ ask.blamed = job[n].ask.blamed
  BY <1>1, RecordTypes DEF AskType, SettingsType
<1> HIDE DEF ask
<1>4. /\ new.pc = "ready" /\ new.item = job[n].item /\ new.pictured = job[n].pictured
      /\ new.path = job[n].path /\ new.wasted = job[n].wasted /\ new.ask = ask
  BY <1>1 DEF JobType
<1>5. new \in JobType
  BY <1>1, <1>3 DEF JobType
<1> HIDE DEF new
<1>6. job'[n] = new
  BY <1>1, <1>2
<1>7. PictureInv(n)' /\ AskInv(n)'
  BY <1>1, <1>3, <1>4, <1>6 DEF PictureInv, AskInv
<1>8. \A field \in Fields : held[field] = {}
  BY <1>1 DEF IInv, HeldInv
<1>9. \A field \in Fields : HeldInv(field)'
  BY <1>1, <1>8 DEF HeldInv
<1>10. \A m \in Admins : SaveInv(m)'
  BY <1>1, <1>8 DEF IInv, SaveInv
<1>11. stored' \in SettingsType
  BY <1>1, RecordTypes
<1> QED BY <1>1, <1>2, <1>5, <1>7, <1>9, <1>10, <1>11, JobKeeps

LEMMA PrepareKeeps == ASSUME IInv, NEW n \in Analyses, Prepare(n) PROVE IInv'
<1> DEFINE sent == IF job[n].path THEN file[job[n].item] ELSE None
           ready == [job[n].ask EXCEPT !.sent = sent]
           pc == IF job[n].ask.acct \in job[n].unset THEN "next" ELSE "ask"
           ask == IF job[n].ask.acct \in job[n].unset THEN Asked ELSE ready
           new == [job[n] EXCEPT !.pc = pc, !.ask = ask]
<1>1. /\ TypeInv /\ job \in [Analyses -> JobType] /\ job[n] \in JobType /\ job[n].ask \in AskType
      /\ file \in [Items -> Files] /\ events' \in 0..MaxEvents
      /\ PictureInv(n) /\ AskInv(n) /\ job[n].pc = "ready"
      /\ UNCHANGED <<file, gateway, stored, save, disturbed, held>>
  BY DEF IInv, TypeInv, Prepare, JobType
<1>2. job' = [job EXCEPT ![n] = new]
  BY <1>1 DEF Prepare
<1>3. sent \in Files
  BY <1>1 DEF PictureInv, Files, None
<1>4. n \notin disturbed /\ job[n].path => sent = "whole"
  BY <1>1 DEF PictureInv
<1> HIDE DEF sent
<1>5. /\ ready \in AskType /\ ready.acct = job[n].ask.acct /\ ready.tries = job[n].ask.tries
      /\ ready.blamed = job[n].ask.blamed /\ ready.sent = sent
  BY <1>1, <1>3 DEF AskType
<1> HIDE DEF ready
<1>6. ask \in AskType /\ (pc = "ask" => ask = ready)
  BY <1>5, RecordTypes
<1>7. pc \in {"next", "ask"}
  OBVIOUS
<1> HIDE DEF ask, pc
<1>8. /\ new.pc = pc /\ new.item = job[n].item /\ new.pictured = job[n].pictured
      /\ new.path = job[n].path /\ new.wasted = job[n].wasted /\ new.ask = ask
  BY <1>1 DEF JobType
<1>9. new \in JobType
  BY <1>1, <1>6, <1>7 DEF JobType
<1> HIDE DEF new
<1>10. job'[n] = new
  BY <1>1, <1>2
<1>11. PictureInv(n)'
  BY <1>1, <1>4, <1>5, <1>6, <1>7, <1>8, <1>10 DEF PictureInv
<1>12. AskInv(n)'
  <2>1. pc = "ask" => ask.tries = 0 /\ ask.acct \in Accounts
    BY <1>1, <1>5, <1>6 DEF AskInv
  <2>2. (Missing(ask) < MaxTries)'
    BY DEF Missing, MaxTries
  <2> QED BY <1>1, <1>7, <1>8, <1>10, <2>1, <2>2 DEF AskInv, MaxTries, Missing
<1> QED BY <1>1, <1>2, <1>7, <1>8, <1>9, <1>11, <1>12, JobMoves

-----------------------------------------------------------------------------
(* One call                                                                *)

\* The analysis as the call leaves it, with the account to blame or not.
LEMMA Blamed ==
  ASSUME IInv, NEW n \in Analyses, job[n].pc = "ask"
  PROVE  LET base == [job[n] EXCEPT !.ask.blamed = TRUE] IN
         /\ Blame(n) = [job EXCEPT ![n] = base] /\ Blame(n)[n] = base
         /\ base \in JobType /\ base.ask \in AskType
         /\ base.pc = "ask" /\ base.item = job[n].item /\ base.pictured = job[n].pictured
         /\ base.path = job[n].path /\ base.left = job[n].left /\ base.wasted = job[n].wasted
         /\ base.ask.acct = job[n].ask.acct /\ base.ask.tries = job[n].ask.tries
         /\ base.ask.sent = job[n].ask.sent /\ base.ask.blamed
<1> DEFINE base == [job[n] EXCEPT !.ask.blamed = TRUE]
           ask == [job[n].ask EXCEPT !.blamed = TRUE]
<1>1. job \in [Analyses -> JobType] /\ job[n] \in JobType /\ job[n].ask \in AskType
  BY DEF IInv, TypeInv, JobType
<1>2. /\ ask \in AskType /\ ask.acct = job[n].ask.acct /\ ask.tries = job[n].ask.tries
      /\ ask.sent = job[n].ask.sent /\ ask.blamed
  BY <1>1 DEF AskType
<1>3. base = [job[n] EXCEPT !.ask = ask]
  OBVIOUS
<1>4. Blame(n) = [job EXCEPT ![n] = base] /\ Blame(n)[n] = base
  BY <1>1 DEF Blame
<1> HIDE DEF ask
<1>5. /\ base \in JobType /\ base.ask = ask
      /\ base.pc = "ask" /\ base.item = job[n].item /\ base.pictured = job[n].pictured
      /\ base.path = job[n].path /\ base.left = job[n].left /\ base.wasted = job[n].wasted
  BY <1>1, <1>2, <1>3 DEF JobType
<1> QED BY <1>2, <1>4, <1>5

\* An account is given up that failed by itself, or whose gateway has no API.
LEMMA ToNextKeeps ==
  ASSUME IInv, NEW n \in Analyses, NEW jobs, NEW base \in JobType,
         job[n].pc = "ask", jobs = [job EXCEPT ![n] = base], job' = ToNext(n, jobs),
         base.item = job[n].item, base.pictured = job[n].pictured, base.path = job[n].path,
         base.wasted = job[n].wasted,
         base.ask.blamed \/ gateway[base.ask.acct].apis = {},
         UNCHANGED <<file, gateway, stored, save, disturbed, held, events>>
  PROVE  IInv'
<1> DEFINE new == [base EXCEPT !.pc = "next", !.ask = Asked]
<1>1. /\ TypeInv /\ job \in [Analyses -> JobType] /\ jobs[n] = base
      /\ file' \in [Items -> Files] /\ events' \in 0..MaxEvents
      /\ PictureInv(n) /\ AskInv(n)
  BY DEF IInv, TypeInv
<1>2. job' = [job EXCEPT ![n] = new]
  <2>1. job' = [jobs EXCEPT ![n].pc = "next", ![n].ask = Asked, ![n].wasted = @]
    BY <1>1 DEF ToNext
  <2>2. job' = [jobs EXCEPT ![n] = [base EXCEPT !.pc = "next", !.ask = Asked, !.wasted = @]]
    BY <1>1, <2>1
  <2>3. [base EXCEPT !.pc = "next", !.ask = Asked, !.wasted = @] = new
    BY DEF JobType
  <2> QED BY <2>2, <2>3
<1>3. /\ new.pc = "next" /\ new.item = job[n].item /\ new.pictured = job[n].pictured
      /\ new.path = job[n].path /\ new.wasted = job[n].wasted
  BY DEF JobType
<1>4. new \in JobType
  BY RecordTypes DEF JobType
<1> HIDE DEF new
<1>5. job'[n] = new
  BY <1>1, <1>2
<1>6. PictureInv(n)' /\ AskInv(n)'
  BY <1>1, <1>3, <1>5 DEF PictureInv, AskInv
<1> QED BY <1>1, <1>2, <1>3, <1>4, <1>6, JobMoves

\* The account is asked again, with a request that has no more to leave out
\* than there are tries, or the account is to blame.
LEMMA AskAgainKeeps ==
  ASSUME IInv, NEW n \in Analyses, NEW base \in JobType, NEW ask \in AskType,
         job[n].pc = "ask", job' = [job EXCEPT ![n] = [base EXCEPT !.ask = ask]],
         base.pc = "ask", base.item = job[n].item, base.pictured = job[n].pictured,
         base.path = job[n].path, base.wasted = job[n].wasted,
         ask.acct = job[n].ask.acct, ask.sent = job[n].ask.sent,
         ~ask.blamed /\ gateway[ask.acct].apis # {} => ask.tries + Missing(ask) < MaxTries,
         UNCHANGED <<file, gateway, stored, save, disturbed, held, events>>
  PROVE  IInv'
<1> DEFINE new == [base EXCEPT !.ask = ask]
<1>1. /\ TypeInv /\ job \in [Analyses -> JobType]
      /\ file' \in [Items -> Files] /\ events' \in 0..MaxEvents
      /\ PictureInv(n) /\ AskInv(n)
  BY DEF IInv, TypeInv
<1>2. /\ new.pc = "ask" /\ new.item = job[n].item /\ new.pictured = job[n].pictured
      /\ new.path = job[n].path /\ new.wasted = job[n].wasted /\ new.ask = ask
  BY DEF JobType
<1>3. new \in JobType
  BY DEF JobType
<1> HIDE DEF new
<1>4. job'[n] = new
  BY <1>1 DEF new
<1>5. PictureInv(n)'
  BY <1>1, <1>2, <1>4 DEF PictureInv
<1>6. AskInv(n)'
  BY <1>1, <1>2, <1>4 DEF AskInv, Missing
<1> QED BY <1>1, <1>2, <1>3, <1>5, <1>6, JobMoves DEF new

\* What is left out is one less after every complaint that is to the point,
\* for a gateway that has one of the two APIs.
LEMMA RetriedHasLess ==
  ASSUME TypeInv, NEW ask \in AskType, ask.acct \in Accounts, ask.tries < MaxTries - 1,
         NEW named \in SUBSET {"api", "json", "temp"}
  PROVE  LET again == Retried(ask, named) IN
         /\ again \in AskType /\ again.acct = ask.acct /\ again.sent = ask.sent
         /\ again.tries = ask.tries + 1 /\ again.blamed = ask.blamed
         /\ Honest(ask, named) /\ gateway[ask.acct].apis # {} => Missing(again) < Missing(ask)
<1> DEFINE again == Retried(ask, named)
           api == IF "api" \notin named THEN ask.api
                  ELSE IF ask.api = "chat" THEN "responses" ELSE "chat"
           json == ask.json /\ "json" \notin named
           temp == ask.temp /\ "temp" \notin named
           g == gateway[ask.acct]
<1>1. /\ ask.api \in Apis /\ ask.tries \in 0..3 /\ ask.tries < 3
      /\ ask.json \in BOOLEAN /\ ask.temp \in BOOLEAN
  BY DEF AskType, MaxTries
<1>2. again = [ask EXCEPT !.tries = ask.tries + 1, !.api = api, !.json = json, !.temp = temp]
  BY DEF Retried, AskType
<1>3. ask.tries + 1 \in 0..(MaxTries - 1) /\ api \in Apis /\ json \in BOOLEAN /\ temp \in BOOLEAN
  BY <1>1 DEF Apis, MaxTries
<1>4. /\ g.apis \subseteq Apis /\ g.json \in BOOLEAN /\ g.temp \in BOOLEAN
  BY DEF TypeInv, GatewayType
<1>5. ask.api \notin g.apis /\ "api" \in named /\ g.apis # {} => api \in g.apis
  BY <1>1, <1>4 DEF Apis
<1>6. /\ "json" \in Wrong(ask) <=> ask.json /\ ~g.json
      /\ "temp" \in Wrong(ask) <=> ask.temp /\ ~g.temp
      /\ Wrong(ask) \subseteq {"json", "temp"}
  BY DEF Wrong
<1>7. ASSUME Honest(ask, named), g.apis # {}
      PROVE  \/ ask.api \notin g.apis /\ "api" \in named
             \/ ask.api \in g.apis /\ "api" \notin named /\ ask.json /\ ~g.json /\ "json" \in named
             \/ ask.api \in g.apis /\ "api" \notin named /\ ask.temp /\ ~g.temp /\ "temp" \in named
  BY <1>6, <1>7 DEF Honest
<1> HIDE DEF g, again
<1>8. /\ again.acct = ask.acct /\ again.sent = ask.sent /\ again.blamed = ask.blamed
      /\ again.tries = ask.tries + 1 /\ again.api = api /\ again.json = json /\ again.temp = temp
  <2> HIDE DEF api, json, temp
  <2> QED BY <1>2 DEF AskType
<1>9. again \in AskType
  <2> HIDE DEF api, json, temp
  <2> QED BY <1>2, <1>3 DEF AskType
<1>10. ASSUME Honest(ask, named), g.apis # {} PROVE Missing(again) < Missing(ask)
  <2>1. /\ again.json <=> ask.json /\ "json" \notin named
        /\ again.temp <=> ask.temp /\ "temp" \notin named
        /\ "api" \notin named => again.api = ask.api
        /\ ask.api \notin g.apis /\ "api" \in named => again.api \in g.apis
    <3>1. again.json <=> json
      BY <1>8
    <3>2. again.temp <=> temp
      BY <1>8
    <3>3. /\ "api" \notin named => again.api = ask.api
          /\ ask.api \notin g.apis /\ "api" \in named => again.api \in g.apis
      BY <1>5, <1>8, <1>10
    <3> QED BY <3>1, <3>2, <3>3
  <2>2. \/ ask.api \notin g.apis /\ again.api \in g.apis
        \/ again.api = ask.api /\ (ask.json /\ ~g.json) /\ ~again.json
        \/ again.api = ask.api /\ (ask.temp /\ ~g.temp) /\ ~again.temp
    BY <1>7, <1>10, <2>1
  <2>3. (again.json => ask.json) /\ (again.temp => ask.temp)
    BY <2>1
  <2>4. gateway[again.acct] = g
    BY <1>8 DEF g
  <2> QED BY <2>2, <2>3, <2>4 DEF Missing, g
<1> QED BY <1>8, <1>9, <1>10 DEF again, g

LEMMA RefuseKeeps ==
  ASSUME IInv, NEW n \in Analyses, NEW named \in SUBSET {"api", "json", "temp"},
         Refuse(n, named)
  PROVE  IInv'
<1> DEFINE ask == job[n].ask
           jobs == IF Honest(ask, named) THEN job ELSE Blame(n)
           base == IF Honest(ask, named) THEN job[n] ELSE [job[n] EXCEPT !.ask.blamed = TRUE]
<1>1. /\ TypeInv /\ job \in [Analyses -> JobType] /\ job[n] \in JobType /\ ask \in AskType
      /\ AskInv(n) /\ job[n].pc = "ask" /\ ask.acct \in Accounts
      /\ ask.tries \in 0..3 /\ ask.blamed \in BOOLEAN
      /\ UNCHANGED <<file, gateway, stored, save, disturbed, held, events>>
  BY DEF IInv, TypeInv, Refuse, JobType, AskInv, AskType, MaxTries
<1>2. job' = IF Changes(ask, named) /\ ask.tries < MaxTries - 1
             THEN [jobs EXCEPT ![n].ask = Retried(jobs[n].ask, named)]
             ELSE ToNext(n, jobs)
  BY DEF Refuse
<1>3. /\ jobs = [job EXCEPT ![n] = base] /\ jobs[n] = base
      /\ base \in JobType /\ base.ask \in AskType
      /\ base.pc = "ask" /\ base.item = job[n].item /\ base.pictured = job[n].pictured
      /\ base.path = job[n].path /\ base.wasted = job[n].wasted
      /\ base.ask.acct = ask.acct /\ base.ask.tries = ask.tries /\ base.ask.sent = ask.sent
      /\ ~ base.ask.blamed => Honest(ask, named) /\ base.ask = ask
  <2>1. CASE Honest(ask, named)
    BY <1>1, <2>1
  <2>2. CASE ~ Honest(ask, named)
    BY <1>1, <2>2, Blamed
  <2> QED BY <2>1, <2>2
<1> HIDE DEF jobs, base
<1>4. gateway[ask.acct].apis \subseteq Apis
  BY <1>1 DEF TypeInv, GatewayType
<1>5. Missing(ask) \in 0..3
  BY DEF Missing
<1>6. CASE Changes(ask, named) /\ ask.tries < MaxTries - 1
  <2> DEFINE again == Retried(base.ask, named)
  <2>1. /\ again \in AskType /\ again.acct = ask.acct /\ again.sent = ask.sent
        /\ again.tries = ask.tries + 1 /\ again.blamed = base.ask.blamed
        /\ Honest(base.ask, named) /\ gateway[ask.acct].apis # {} =>
             Missing(again) < Missing(base.ask)
    BY <1>1, <1>3, <1>6, RetriedHasLess
  <2>2. Missing(again) \in 0..3
    BY DEF Missing
  <2> HIDE DEF again
  <2>3. ~again.blamed /\ gateway[again.acct].apis # {} => again.tries + Missing(again) < MaxTries
    BY <1>1, <1>3, <1>5, <2>1, <2>2 DEF AskInv, MaxTries
  <2>4. job' = [job EXCEPT ![n] = [base EXCEPT !.ask = again]]
    BY <1>1, <1>2, <1>3, <1>6 DEF again
  <2> QED BY <1>1, <1>3, <2>1, <2>3, <2>4, AskAgainKeeps
<1>7. CASE ~ (Changes(ask, named) /\ ask.tries < MaxTries - 1)
  <2>1. base.ask.blamed \/ gateway[ask.acct].apis = {}
    <3> SUFFICES ASSUME ~ base.ask.blamed, gateway[ask.acct].apis # {} PROVE FALSE
      OBVIOUS
    <3>1. Honest(ask, named) /\ ~ ask.blamed /\ ask.tries + Missing(ask) < MaxTries
      BY <1>1, <1>3 DEF AskInv
    <3>2. Changes(ask, named)
      BY <3>1 DEF Honest, Changes, Wrong
    <3>3. Missing(ask) = 0
      BY <1>1, <1>5, <1>7, <3>1, <3>2 DEF MaxTries
    <3>4. ask.api \in gateway[ask.acct].apis /\ Wrong(ask) = {}
      BY <3>3 DEF Missing, Wrong
    <3> QED BY <3>1, <3>4 DEF Honest
  <2>2. job' = ToNext(n, jobs)
    BY <1>2, <1>7
  <2> QED BY <1>1, <1>3, <2>1, <2>2, ToNextKeeps
<1> QED BY <1>6, <1>7

LEMMA AnswersKeep ==
  ASSUME IInv, NEW n \in Analyses, Empty(n) \/ Invalid(n) \/ Answer(n)
  PROVE  IInv'
<1> DEFINE ask == job[n].ask
           base == [job[n] EXCEPT !.ask.blamed = TRUE]
<1>1. /\ TypeInv /\ job \in [Analyses -> JobType] /\ job[n] \in JobType /\ ask \in AskType
      /\ PictureInv(n) /\ AskInv(n) /\ job[n].pc = "ask" /\ ask.tries \in 0..3
      /\ file' \in [Items -> Files] /\ events' \in 0..MaxEvents
      /\ UNCHANGED <<file, gateway, stored, save, disturbed, held, events>>
  BY DEF IInv, TypeInv, Empty, Invalid, Answer, JobType, AskType, MaxTries
<1>2. /\ Blame(n) = [job EXCEPT ![n] = base] /\ Blame(n)[n] = base
      /\ base \in JobType /\ base.ask \in AskType
      /\ base.pc = "ask" /\ base.item = job[n].item /\ base.pictured = job[n].pictured
      /\ base.path = job[n].path /\ base.wasted = job[n].wasted
      /\ base.ask.acct = ask.acct /\ base.ask.tries = ask.tries /\ base.ask.sent = ask.sent
      /\ base.ask.blamed
  BY <1>1, Blamed
<1>3. CASE job' = ToNext(n, Blame(n))
  <2> HIDE DEF base
  <2> QED BY <1>1, <1>2, <1>3, ToNextKeeps
<1>4. CASE job' = [Blame(n) EXCEPT ![n].ask.tries = @ + 1] /\ ask.tries < MaxTries - 1
  <2> DEFINE again == [base.ask EXCEPT !.tries = ask.tries + 1]
  <2> HIDE DEF base
  <2>1. /\ again \in AskType /\ again.acct = ask.acct /\ again.sent = ask.sent
        /\ again.blamed = base.ask.blamed
    <3>1. ask.tries + 1 \in 0..(MaxTries - 1)
      BY <1>1, <1>4 DEF MaxTries
    <3>2. again \in AskType
      BY <1>2, <3>1 DEF AskType
    <3>3. /\ again.acct = base.ask.acct /\ again.sent = base.ask.sent
          /\ again.blamed = base.ask.blamed
      BY <1>2 DEF AskType
    <3> QED BY <1>2, <3>2, <3>3
  <2>2. job' = [job EXCEPT ![n] = [base EXCEPT !.ask = again]]
    <3>1. job' = [Blame(n) EXCEPT ![n] = [base EXCEPT !.ask.tries = ask.tries + 1]]
      BY <1>2, <1>4
    <3>2. [base EXCEPT !.ask.tries = ask.tries + 1] = [base EXCEPT !.ask = again]
      OBVIOUS
    <3> QED BY <1>1, <1>2, <3>1, <3>2
  <2> HIDE DEF again
  <2> QED BY <1>1, <1>2, <2>1, <2>2, AskAgainKeeps
<1>5. CASE Answer(n)
  <2> DEFINE new == [job[n] EXCEPT !.pc = "done", !.verdict = "valid", !.ask = Asked]
  <2>1. /\ new.pc = "done" /\ new.item = job[n].item /\ new.pictured = job[n].pictured
        /\ new.path = job[n].path /\ new.wasted = job[n].wasted /\ new.verdict = "valid"
    BY <1>1 DEF JobType
  <2>2. new \in JobType /\ job' = [job EXCEPT ![n] = new]
    BY <1>1, <1>5, RecordTypes DEF JobType, Answer
  <2> HIDE DEF new
  <2>3. job'[n] = new
    BY <1>1, <2>2
  <2>4. PictureInv(n)' /\ AskInv(n)'
    BY <1>1, <2>1, <2>3 DEF PictureInv, AskInv
  <2> QED BY <1>1, <2>1, <2>2, <2>4, JobMoves
<1> QED BY <1>3, <1>4, <1>5 DEF Empty, Invalid

-----------------------------------------------------------------------------
(* The administrators                                                      *)

LEMMA SaveReadsKeeps ==
  ASSUME IInv, NEW m \in Admins, NEW field \in Fields, NEW value \in BOOLEAN,
         SaveReads(m, field, value)
  PROVE  IInv'
<1> DEFINE new == [pc |-> IF ~stored.there THEN "seed" ELSE "write", field |-> field,
                   value |-> value, seen |-> IF stored.there THEN stored ELSE Seed]
<1>1. /\ TypeInv /\ save \in [Admins -> SaveType] /\ events' \in 0..MaxEvents
      /\ save' = [save EXCEPT ![m] = new]
      /\ UNCHANGED <<file, gateway, stored, job, disturbed, held>>
  BY AnalysisConstants DEF IInv, TypeInv, SaveReads, Happens
<1>2. /\ new \in SaveType /\ new.field = field /\ new.seen.there
      /\ new.pc = "write" => stored.there /\ new.seen = stored
      /\ new.pc = "seed" => ~stored.there
  BY <1>1, RecordTypes DEF TypeInv, SaveType
<1> HIDE DEF new
<1>3. save'[m] = new /\ \A k \in Admins \ {m} : save'[k] = save[k]
  BY <1>1
<1>4. TypeInv'
  <2>1. save' \in [Admins -> SaveType]
    BY <1>1, <1>2
  <2> QED BY <1>1, <2>1 DEF TypeInv
<1>5. ASSUME NEW n \in Analyses PROVE PictureInv(n)' /\ AskInv(n)'
  BY <1>1 DEF IInv, PictureInv, AskInv, Missing
<1>6. ASSUME NEW k \in Admins PROVE SaveInv(k)'
  <2>1. CASE k = m
    BY <1>1, <1>2, <1>3, <2>1 DEF SaveInv
  <2>2. CASE k # m
    BY <1>1, <1>3, <2>2 DEF IInv, SaveInv
  <2> QED BY <2>1, <2>2
<1>7. ASSUME NEW f \in Fields PROVE HeldInv(f)'
  <2>1. HeldInv(f)
    BY DEF IInv
  <2> QED BY <1>1, <1>2, <1>3, <2>1 DEF HeldInv
<1> QED BY <1>4, <1>5, <1>6, <1>7 DEF IInv

LEMMA SaveSeedsKeeps == ASSUME IInv, NEW m \in Admins, SaveSeeds(m) PROVE IInv'
<1> DEFINE new == [save[m] EXCEPT !.pc = "write"]
<1>1. /\ TypeInv /\ save \in [Admins -> SaveType] /\ save[m] \in SaveType /\ save[m].pc = "seed"
      /\ save' = [save EXCEPT ![m] = new] /\ stored' = Seed
      /\ UNCHANGED <<file, gateway, job, disturbed, held, events>>
  BY DEF IInv, TypeInv, SaveSeeds
<1>2. /\ new \in SaveType /\ new.field = save[m].field /\ new.seen = save[m].seen
      /\ new.pc = "write"
  BY <1>1 DEF SaveType
<1> HIDE DEF new
<1>3. save'[m] = new /\ \A k \in Admins \ {m} : save'[k] = save[k]
  BY <1>1
<1>4. \A f \in Fields : held[f] = {}
  BY <1>1 DEF IInv, HeldInv
<1>5. TypeInv'
  <2>1. save' \in [Admins -> SaveType]
    BY <1>1, <1>2
  <2> QED BY <1>1, <2>1, RecordTypes DEF TypeInv
<1>6. ASSUME NEW n \in Analyses PROVE PictureInv(n)' /\ AskInv(n)'
  BY <1>1 DEF IInv, PictureInv, AskInv, Missing
<1>7. ASSUME NEW k \in Admins PROVE SaveInv(k)'
  <2>1. SaveInv(k) /\ SaveInv(m)
    BY DEF IInv
  <2>2. CASE k = m
    BY <1>1, <1>2, <1>3, <1>4, <2>1, <2>2 DEF SaveInv
  <2>3. CASE k # m
    BY <1>1, <1>3, <1>4, <2>1, <2>3 DEF SaveInv
  <2> QED BY <2>2, <2>3
<1>8. \A f \in Fields : HeldInv(f)'
  BY <1>1, <1>4 DEF HeldInv
<1> QED BY <1>5, <1>6, <1>7, <1>8 DEF IInv

LEMMA SaveWritesKeeps == ASSUME DistinctNames, IInv, NEW m \in Admins, SaveWrites(m) PROVE IInv'
<1> DEFINE field == save[m].field
           value == save[m].value
           seen == save[m].seen
           kept == IF Pending = {m} THEN {value} ELSE {}
<1>1. /\ TypeInv /\ save \in [Admins -> SaveType] /\ save[m] \in SaveType /\ save[m].pc = "write"
      /\ SaveInv(m) /\ field \in Fields /\ value \in BOOLEAN /\ seen \in SettingsType /\ seen.there
      /\ stored' = [seen EXCEPT ![field] = value]
      /\ save' = [save EXCEPT ![m] = Resting]
      /\ held \in [Fields -> SUBSET BOOLEAN] /\ held' = [held EXCEPT ![field] = kept]
      /\ UNCHANGED <<file, gateway, job, disturbed, events>>
  BY DEF IInv, TypeInv, SaveWrites, SaveInv, SaveType
<1>2. \A f \in Fields : f # field /\ held[f] # {} => seen[f] = stored[f]
  BY <1>1 DEF SaveInv
<1> HIDE DEF field, value, seen
<1>3. /\ stored' \in SettingsType /\ stored'.there /\ stored'[field] = value
      /\ \A f \in Fields \ {field} : stored'[f] = seen[f]
  <2>1. field = "response_format" \/ field = "skip_ai"
    BY <1>1 DEF Fields
  <2> QED BY <1>1, <2>1 DEF SettingsType, Fields
<1>4. /\ held' \in [Fields -> SUBSET BOOLEAN] /\ held'[field] = kept
      /\ \A f \in Fields \ {field} : held'[f] = held[f]
  BY <1>1
<1>5. save'[m] = Resting /\ \A k \in Admins \ {m} : save'[k] = save[k]
  BY <1>1
<1>6. \A f \in Fields \ {field} : held[f] # {} => stored'[f] = stored[f]
  BY <1>2, <1>3
<1>7. TypeInv'
  <2>1. save' \in [Admins -> SaveType]
    BY <1>1, RecordTypes
  <2> QED BY <1>1, <1>3, <1>4, <2>1 DEF TypeInv
<1>8. ASSUME NEW n \in Analyses PROVE PictureInv(n)' /\ AskInv(n)'
  BY <1>1 DEF IInv, PictureInv, AskInv, Missing
<1>9. ASSUME NEW k \in Admins PROVE SaveInv(k)'
  <2>1. CASE k = m
    BY <1>5, <2>1, RecordTypes DEF SaveInv
  <2>2. CASE k # m
    <3>1. SaveInv(k) /\ save'[k] = save[k]
      BY <1>5, <2>2 DEF IInv
    <3>2. save[k].pc # "idle" => Pending # {m}
      BY <2>2 DEF Pending
    <3>3. save[k].pc # "idle" => held'[field] = {}
      BY <1>4, <3>2
    <3>4. ASSUME NEW f \in Fields, save[k].pc = "write", held'[f] # {}
          PROVE  save[k].seen[f] = stored'[f]
      BY <1>4, <1>6, <3>1, <3>3, <3>4 DEF SaveInv
    <3> QED BY <3>1, <3>4 DEF SaveInv
  <2> QED BY <2>1, <2>2
<1>10. ASSUME NEW f \in Fields PROVE HeldInv(f)'
  <2>1. CASE f = field
    <3> SUFFICES ASSUME Pending = {m} PROVE HeldInv(f)'
      BY <1>4, <2>1 DEF HeldInv
    <3>1. held'[f] = {stored'[f]}
      BY <1>3, <1>4, <2>1
    <3>2. \A n \in Analyses : job[n].pc # "seed"
      BY DEF Pending, DistinctNames
    <3>3. \A k \in Admins : save'[k].pc # "seed"
      BY <1>5, RecordTypes DEF Pending
    <3> QED BY <1>1, <1>3, <3>1, <3>2, <3>3 DEF HeldInv
  <2>2. CASE f # field
    <3>1. HeldInv(f)
      BY DEF IInv
    <3>2. \A k \in Admins : save'[k].pc = "seed" => save[k].pc = "seed"
      BY <1>5, RecordTypes
    <3> QED BY <1>1, <1>3, <1>4, <1>6, <2>2, <3>1, <3>2 DEF HeldInv
  <2> QED BY <2>1, <2>2
<1> QED BY <1>7, <1>8, <1>9, <1>10 DEF IInv

-----------------------------------------------------------------------------
(* The invariant holds                                                     *)

LEMMA InitKeeps == ASSUME Init PROVE IInv
<1>1. \A n \in Analyses : job[n] = Idle
  BY DEF Init
<1>2. \A m \in Admins : save[m] = Resting
  BY DEF Init
<1>3. \A f \in Fields : held[f] = {}
  BY DEF Init
<1>4. TypeInv
  <2>1. gateway \in [Accounts -> GatewayType]
    <3>1. /\ gateway \in [Accounts -> UNION {Gateways[a] : a \in Accounts}]
          /\ \A a \in Accounts : gateway[a] \in Gateways[a]
      BY DEF Init
    <3>2. \A a \in Accounts : Gateways[a] \subseteq GatewayType
      BY AnalysisConstants DEF GatewayType
    <3>3. \A a \in Accounts : gateway[a] \in GatewayType
      BY <3>1, <3>2
    <3> QED BY <3>1, <3>3
  <2>2. /\ file \in [Items -> Files] /\ stored \in SettingsType
        /\ job \in [Analyses -> JobType] /\ save \in [Admins -> SaveType]
    BY RecordTypes DEF Init, Files
  <2>3. held \in [Fields -> SUBSET BOOLEAN] /\ events \in 0..MaxEvents
    BY AnalysisConstants DEF Init
  <2> QED BY <2>1, <2>2, <2>3 DEF TypeInv
<1>5. ASSUME NEW n \in Analyses PROVE PictureInv(n) /\ AskInv(n)
  BY <1>1, RecordTypes DEF PictureInv, AskInv
<1>6. ASSUME NEW m \in Admins PROVE SaveInv(m)
  BY <1>2, RecordTypes DEF SaveInv
<1>7. ASSUME NEW f \in Fields PROVE HeldInv(f)
  BY <1>3 DEF HeldInv
<1> QED BY <1>4, <1>5, <1>6, <1>7 DEF IInv

\* The accounts are nothing to the invariant.
LEMMA AccountsChange ==
  ASSUME IInv, UNCHANGED <<file, gateway, stored, job, save, disturbed, held>>,
         events' \in 0..MaxEvents
  PROVE  IInv'
<1>1. TypeInv'
  BY DEF IInv, TypeInv
<1>2. ASSUME NEW n \in Analyses PROVE PictureInv(n)' /\ AskInv(n)'
  BY DEF IInv, PictureInv, AskInv, Missing
<1>3. ASSUME NEW m \in Admins PROVE SaveInv(m)'
  BY DEF IInv, SaveInv
<1>4. ASSUME NEW f \in Fields PROVE HeldInv(f)'
  BY DEF IInv, HeldInv
<1> QED BY <1>1, <1>2, <1>3, <1>4 DEF IInv

LEMMA StepKeeps == ASSUME IInv, NEW n \in Analyses, Step(n) PROVE IInv'
<1>1. CASE GivesUp(n)
  <2>1. events' \in 0..MaxEvents
    BY <1>1, AnalysisConstants DEF GivesUp, Happens, IInv, TypeInv
  <2> QED BY <1>1, <2>1, FailKeeps DEF GivesUp
<1>2. CASE ~ GivesUp(n)
  BY <1>2, BeginKeeps, LookKeeps, GetKeeps, WriteKeeps, GetFailsKeeps, IdleKeeps,
     ListAccountsKeeps, NextAccountKeeps, SeedSettingsKeeps, PrepareKeeps, RefuseKeeps,
     AnswersKeep DEF Step
<1> QED BY <1>1, <1>2

LEMMA NextKeeps == ASSUME DistinctNames, IInv, [Next]_vars PROVE IInv'
<1>1. CASE UNCHANGED vars
  BY <1>1, AccountsChange DEF vars, IInv, TypeInv
<1>2. CASE \E n \in Analyses : Step(n)
  BY <1>2, StepKeeps
<1>3. CASE \E i \in Items : OtherTouches(i)
  BY <1>3, OtherTouchesKeeps
<1>4. CASE \E a \in Accounts, field \in {"enabled", "image", "text", "set"} : EditAccount(a, field)
  <2>1. events' \in 0..MaxEvents
    BY <1>4, AnalysisConstants DEF EditAccount, Happens, IInv, TypeInv
  <2> QED BY <1>4, <2>1, AccountsChange DEF EditAccount
<1>5. CASE \E m \in Admins :
             \/ \E field \in Fields, value \in BOOLEAN : SaveReads(m, field, value)
             \/ SaveSeeds(m) \/ SaveWrites(m)
  BY <1>5, SaveReadsKeeps, SaveSeedsKeeps, SaveWritesKeeps
<1> QED BY <1>1, <1>2, <1>3, <1>4, <1>5 DEF Next

LEMMA Inductive == DistinctNames => (Spec => []IInv)
<1> SUFFICES ASSUME DistinctNames PROVE Spec => []IInv
  OBVIOUS
<1>1. Init => IInv
  BY InitKeeps
<1>2. IInv /\ [Next]_vars => IInv'
  BY NextKeeps
<1> QED BY <1>1, <1>2, PTL DEF Spec

-----------------------------------------------------------------------------
(* What follows                                                            *)

\* No call of _call_ai makes more than its four requests, and the settings and
\* the pictures keep their shape.
THEOREM TypeCorrect == DistinctNames => (Spec => []TypeOK)
<1> SUFFICES ASSUME DistinctNames PROVE Spec => []TypeOK
  OBVIOUS
<1>1. ASSUME IInv PROVE TypeOK
  <2>1. /\ file \in [Items -> Files] /\ stored \in SettingsType
        /\ job \in [Analyses -> JobType] /\ events \in 0..MaxEvents
    BY <1>1 DEF IInv, TypeInv
  <2>2. \A i \in Items : file[i] \in {"none", "part", "whole"}
    BY <2>1 DEF Files
  <2>3. \A field \in Fields : stored[field] \in BOOLEAN
    BY <2>1 DEF Fields, SettingsType
  <2>4. ASSUME NEW n \in Analyses
        PROVE  /\ job[n].pc \in {"idle", "look", "get", "write", "list", "next", "seed",
                                 "ready", "ask", "done"}
               /\ job[n].left \subseteq Accounts
               /\ job[n].ask.tries < MaxTries
    <3>1. job[n] \in JobType /\ job[n].ask \in AskType
      BY <2>1 DEF JobType
    <3>2. job[n].ask.tries \in 0..(MaxTries - 1)
      BY <3>1 DEF AskType
    <3> QED BY <3>1, <3>2 DEF JobType, MaxTries
  <2> QED BY <2>1, <2>2, <2>3, <2>4 DEF TypeOK
<1>2. IInv => TypeOK
  BY <1>1
<1> QED BY <1>2, Inductive, PTL

\* The fallback of AIClient is complete: an analysis that ends in an error has
\* tried every account, and gave none up whose gateway supports one of the two
\* APIs, complained only of what was wrong and answered when nothing was.
THEOREM ErrorAlwaysHasReason == DistinctNames => (Spec => []ErrorHasReason)
<1> SUFFICES ASSUME DistinctNames PROVE Spec => []ErrorHasReason
  OBVIOUS
<1>1. IInv => ErrorHasReason
  BY DEF IInv, AskInv, ErrorHasReason
<1> QED BY <1>1, Inductive, PTL

\* Every request of an analysis whose picture no other process touched carries
\* the whole picture, whatever accounts and gateways were tried before.
THEOREM PicturesAlwaysArrive == DistinctNames => (Spec => []PicturesArrive)
<1> SUFFICES ASSUME DistinctNames PROVE Spec => []PicturesArrive
  OBVIOUS
<1>1. IInv => PicturesArrive
  BY DEF IInv, PictureInv, PicturesArrive
<1> QED BY <1>1, Inductive, PTL

\* A field of the AI settings keeps what it was last saved as, through the
\* seeding of defaults and the saves of other fields, unless saves overlapped.
THEOREM SettingsAlwaysHold == DistinctNames => (Spec => []SettingsHold)
<1> SUFFICES ASSUME DistinctNames PROVE Spec => []SettingsHold
  OBVIOUS
<1>1. IInv => SettingsHold
  BY DEF IInv, HeldInv, SettingsHold
<1> QED BY <1>1, Inductive, PTL
=============================================================================
