------------------------- MODULE SpiderRuns_proofs -------------------------
(***************************************************************************)
(* Theorems about SpiderRuns: for any number of runs and attempts, however *)
(* the runs of one task name interleave.                                   *)
(***************************************************************************)
EXTENDS SpiderRuns, TLAPS

Places == {"idle", "clear", "write", "ask", "missing", "attempt", "succeeded", "failed"}

RunType == [pc : Places, pass : Nat, attempt : Nat, recorded : Nat, found : BOOLEAN]

\* A run has told the guard nothing before it ends.
IInv ==
    /\ run \in [Runs -> RunType]
    /\ stored \in BOOLEAN /\ ownAccount \in BOOLEAN /\ faults \in Nat
    /\ \A r \in Runs : run[r].pc # "idle" => run[r].recorded = 0

\* OneOutcome for one run.
Outcome(r) ==
    run[r].pc \notin {"idle", "ask"} /\ faults' = faults =>
        /\ run'[r].recorded <= 1
        /\ run'[r].pc = "idle" => run'[r].recorded = 1

\* The step of one run, told by what it makes of that run's row.
LEMMA OneRunMoves ==
  ASSUME IInv, NEW r \in Runs, NEW n \in RunType, run' = [run EXCEPT ![r] = n],
         stored' \in BOOLEAN, ownAccount' \in BOOLEAN, faults' \in Nat,
         n.pc # "idle" => n.recorded = 0,
         Outcome(r)
  PROVE  IInv' /\ \A q \in Runs : Outcome(q)
<1>1. ASSUME NEW q \in Runs, q # r PROVE run'[q] = run[q]
  BY <1>1 DEF IInv
<1>2. run'[r] = n /\ run' \in [Runs -> RunType]
  BY DEF IInv
<1>3. \A q \in Runs : run'[q].pc # "idle" => run'[q].recorded = 0
  BY <1>1, <1>2 DEF IInv
<1>4. ASSUME NEW q \in Runs, q # r PROVE Outcome(q)
  BY <1>1, <1>4 DEF IInv, Outcome
<1> QED BY <1>2, <1>3, <1>4 DEF IInv

LEMMA RunMoves ==
  ASSUME IInv, NEW r \in Runs, Launch(r) \/ RunStep(r) \/ SucceedRaises(r) \/ Killed(r)
  PROVE  IInv' /\ \A q \in Runs : Outcome(q)
<1> DEFINE here == run[r]
<1>1. /\ here \in RunType /\ AttemptLimit \in Nat
      /\ here.pass \in Nat /\ here.attempt \in Nat /\ here.found \in BOOLEAN /\ here.pc \in Places
      /\ here.recorded \in Nat /\ (here.pc # "idle" => here.recorded = 0)
  BY RunConstants DEF IInv, RunType
<1>2. stored' \in BOOLEAN /\ ownAccount' \in BOOLEAN /\ faults' \in Nat
  BY DEF IInv, Launch, RunStep, SucceedRaises, Killed, ClearFiles, WriteFiles, NoLoginState, NotRun,
         Ask, Attempt, Succeed, Failed, fixed
<1>3. PICK n \in RunType :
        /\ run' = [run EXCEPT ![r] = n] /\ (n.pc # "idle" => n.recorded = 0)
        /\ \/ n.pc # "idle" \/ here.pc \in {"idle", "ask"} \/ faults' = faults + 1
           \/ n.recorded = 1
  <2>1. CASE Launch(r)
    <3> DEFINE n == [NoRun EXCEPT !.pc = "clear", !.pass = 1]
    <3>1. run' = [run EXCEPT ![r] = n]
      BY <2>1 DEF Launch
    <3>2. n \in RunType /\ n.pc = "clear" /\ n.recorded = 0
      BY DEF NoRun, RunType, Places
    <3> HIDE DEF n
    <3> QED BY <3>1, <3>2
  <2>2. CASE ClearFiles(r)
    <3> DEFINE n == [here EXCEPT !.pc = "write", !.found = stored /\ ownAccount]
    <3>1. run' = [run EXCEPT ![r] = n] /\ here.pc = "clear"
      BY <2>2 DEF ClearFiles, At, IInv
    <3>2. n \in RunType /\ n.pc = "write" /\ n.recorded = here.recorded
      BY <1>1 DEF RunType, Places, IInv
    <3> HIDE DEF n
    <3> QED BY <1>1, <3>1, <3>2
  <2>3. CASE WriteFiles(r)
    <3> DEFINE pc == IF here.pass = 1 THEN "clear" ELSE "ask"
               n == [here EXCEPT !.pc = pc, !.pass = 2, !.found = FALSE]
    <3>1. run' = [run EXCEPT ![r] = n] /\ here.pc = "write"
      BY <2>3 DEF WriteFiles, At, IInv
    <3>2. n \in RunType /\ n.pc # "idle" /\ n.recorded = here.recorded
      BY <1>1 DEF RunType, Places
    <3> HIDE DEF n
    <3> QED BY <1>1, <3>1, <3>2
  <2>4. CASE NoLoginState(r) \/ NotRun(r)
    <3> DEFINE n == [here EXCEPT !.pc = "idle"]
    <3>1. run' = [run EXCEPT ![r] = n] /\ here.pc = "ask"
      BY <2>4 DEF NoLoginState, NotRun, At, Goto, IInv
    <3>2. n \in RunType /\ n.pc = "idle"
      BY <1>1 DEF RunType, Places
    <3> HIDE DEF n
    <3> QED BY <1>1, <3>1, <3>2
  <2>5. CASE Ask(r)
    <3>1. PICK skip \in BOOLEAN :
            run' = [run EXCEPT ![r] =
              [here EXCEPT !.pc = IF skip THEN "idle"
                                  ELSE IF ~ownAccount /\ mtime = 0 THEN "missing" ELSE "attempt",
                           !.attempt = IF skip THEN 0 ELSE 1]]
      BY <2>5 DEF Ask, IInv
    <3> DEFINE pc == IF skip THEN "idle"
                     ELSE IF ~ownAccount /\ mtime = 0 THEN "missing" ELSE "attempt"
               k == IF skip THEN 0 ELSE 1
               n == [here EXCEPT !.pc = pc, !.attempt = k]
    <3>2. here.pc = "ask" /\ pc \in Places /\ k \in Nat
      BY <2>5 DEF Ask, At, Places
    <3>3. run' = [run EXCEPT ![r] = n]
      BY <3>1
    <3> HIDE DEF pc, k
    <3>4. n \in RunType /\ n.recorded = here.recorded
      BY <1>1, <3>2 DEF RunType
    <3> HIDE DEF n
    <3> QED BY <1>1, <3>2, <3>3, <3>4
  <2>6. CASE NextAttempt(r) /\ here.pc # "idle"
    <3> DEFINE pc == IF here.attempt < AttemptLimit THEN "attempt" ELSE "failed"
               k == IF here.attempt < AttemptLimit THEN here.attempt + 1 ELSE here.attempt
               n == [here EXCEPT !.pc = pc, !.attempt = k]
    <3>1. run' = [run EXCEPT ![r] = n]
      BY <2>6 DEF NextAttempt, IInv
    <3>2. pc \in Places /\ pc # "idle" /\ k \in Nat
      BY <1>1 DEF Places
    <3> HIDE DEF pc, k
    <3>3. n \in RunType /\ n.pc = pc /\ n.recorded = here.recorded
      BY <1>1, <3>2 DEF RunType
    <3> HIDE DEF n
    <3> QED BY <1>1, <2>6, <3>1, <3>2, <3>3
  <2>7. CASE Attempt(r)
    <3>1. CASE NextAttempt(r)
      BY <2>6, <2>7, <3>1 DEF Attempt, At
    <3>2. CASE \E pc \in {"succeeded", "failed"} : Goto(r, pc)
      <4>1. PICK pc \in {"succeeded", "failed"} : Goto(r, pc)
        BY <3>2
      <4> DEFINE n == [here EXCEPT !.pc = pc]
      <4>2. run' = [run EXCEPT ![r] = n] /\ here.pc = "attempt"
        BY <2>7, <4>1 DEF Attempt, At, Goto, IInv
      <4>3. n \in RunType /\ n.pc # "idle" /\ n.recorded = here.recorded
        BY <1>1 DEF RunType, Places
      <4> HIDE DEF n
      <4> QED BY <1>1, <4>2, <4>3
    <3> QED BY <2>7, <3>1, <3>2 DEF Attempt
  <2>8. CASE Succeed(r) \/ Failed(r)
    <3> DEFINE k == here.recorded + 1
               n == [here EXCEPT !.recorded = k, !.pc = "idle"]
    <3>0. here.pc # "idle" /\ run' = [run EXCEPT ![r].recorded = @ + 1, ![r].pc = "idle"]
      BY <2>8 DEF Succeed, Failed, At
    <3>1. run' = [run EXCEPT ![r] = n]
      BY <3>0 DEF IInv
    <3>2. k = 1
      BY <1>1, <3>0
    <3> HIDE DEF k
    <3>3. n \in RunType /\ n.pc = "idle" /\ n.recorded = k
      BY <1>1, <3>2 DEF RunType, Places
    <3> HIDE DEF n
    <3> QED BY <3>1, <3>2, <3>3
  <2>9. CASE SucceedRaises(r)
    BY <2>6, <2>9 DEF SucceedRaises, At
  <2>10. CASE Killed(r)
    <3>1. NoRun \in RunType /\ NoRun.pc = "idle"
      BY DEF NoRun, RunType, Places
    <3> QED BY <2>10, <3>1 DEF Killed
  <2> QED BY <2>1, <2>2, <2>3, <2>4, <2>5, <2>7, <2>8, <2>9, <2>10 DEF RunStep
<1>4. Outcome(r)
  <2>1. run'[r] = n /\ faults # faults + 1
    BY <1>3 DEF IInv
  <2> QED BY <1>3, <2>1 DEF Outcome
<1> QED BY <1>2, <1>3, <1>4, OneRunMoves

LEMMA NextMoves ==
  ASSUME IInv, [Next]_vars
  PROVE  IInv' /\ (UNCHANGED run \/ \A r \in Runs : Outcome(r))
<1>1. CASE Upload \/ DeleteState \/ (Tick /\ UNCHANGED runVars) \/ UNCHANGED vars
  <2>1. UNCHANGED <<run, ownAccount, faults>>
    BY <1>1 DEF Upload, DeleteState, runVars, fixed, vars
  <2>2. stored' \in {TRUE, FALSE, stored}
    BY <1>1 DEF Upload, DeleteState, runVars, vars
  <2> QED BY <2>1, <2>2 DEF IInv
<1>2. ASSUME NEW r \in Runs, Launch(r) \/ RunStep(r) \/ SucceedRaises(r) \/ Killed(r)
      PROVE  IInv' /\ \A q \in Runs : Outcome(q)
  BY <1>2, RunMoves
<1> QED BY <1>1, <1>2 DEF Next

LEMMA InitIInv == Init => IInv
<1>1. NoRun \in RunType /\ NoRun.pc = "idle"
  BY DEF NoRun, RunType, Places
<1>2. ASSUME Init PROVE run \in [Runs -> RunType] /\ \A r \in Runs : run[r].pc = "idle"
  BY <1>1, <1>2 DEF Init
<1>3. ASSUME Init PROVE stored \in BOOLEAN /\ ownAccount \in BOOLEAN /\ faults = 0
  BY <1>3 DEF Init
<1> QED BY <1>2, <1>3 DEF IInv

LEMMA Inductive == Spec => []IInv
<1>1. IInv /\ [Next]_vars => IInv'
  BY NextMoves
<1> QED BY <1>1, InitIInv, PTL DEF Spec

\* A run that is neither skipped nor killed tells the guard one outcome: the
\* attempts before the last one tell it nothing, and none is kept from it.
THEOREM OneOutcomeEach == Spec => OneOutcome
<1>1. ASSUME IInv, [Next]_vars, NEW r \in Runs,
             run[r].pc \notin {"idle", "ask"}, faults' = faults
      PROVE  /\ run'[r].recorded <= 1
             /\ run'[r].pc = "idle" => run'[r].recorded = 1
  <2>1. CASE UNCHANGED run
    BY <1>1, <2>1 DEF IInv
  <2>2. CASE Outcome(r)
    BY <1>1, <2>2 DEF Outcome
  <2> QED BY <1>1, <2>1, <2>2, NextMoves
<1>2. IInv /\ [Next]_vars =>
        [\A r \in Runs : run[r].pc \notin {"idle", "ask"} /\ faults' = faults =>
            /\ run'[r].recorded <= 1
            /\ run'[r].pc = "idle" => run'[r].recorded = 1]_vars
  BY <1>1
<1> QED BY <1>2, Inductive, PTL DEF Spec, OneOutcome
=============================================================================
