---------------------------- MODULE FailureGuard ----------------------------
(***************************************************************************)
(* The circuit breaker of one task name (src/failure_guard.py): its row of *)
(* task_failure_guards, the file of the login state it watches and the     *)
(* clock.  Each operation is one transaction that locks the row, except    *)
(* record_success, which overwrites it.  GuardSpec lets anyone call the    *)
(* operations in any order; SpiderRuns has the calls of the program.       *)
(***************************************************************************)
EXTENDS Naturals

CONSTANTS
    Threshold,      \* TASK_FAILURE_THRESHOLD
    PauseTime,      \* TASK_FAILURE_PAUSE_SECONDS, in ticks
    DayLength,      \* ticks of a day
    MaxTime,        \* bound: the clock
    MaxWrites,      \* bound: modifications of the login state file
    MaxFailures     \* bound: failures counted

ASSUME GuardConstants ==
    /\ Threshold \in Nat \ {0} /\ PauseTime \in Nat \ {0} /\ DayLength \in Nat \ {0}
    /\ MaxTime \in Nat /\ MaxWrites \in Nat /\ MaxFailures \in Nat

VARIABLES
    now,        \* the clock
    mtime,      \* modification time of the file, 0 if there is none
    writes,     \* the last modification time given
    entry,      \* the row: failures, pause, day of the last notice, mtime
    streak,     \* history: failures since a success or a new login state
    notices     \* history: notices since then, of this day

guardVars == <<now, mtime, writes, entry, streak, notices>>

Day(t) == 1 + t \div DayLength
NoDay == 0
NoTime == 0
DefaultEntry == [failures |-> 0, until |-> NoTime, notified |-> NoDay, mtime |-> 0]

GuardInit ==
    /\ now = 0
    /\ mtime = 0
    /\ writes = 0
    /\ entry = DefaultEntry
    /\ streak = 0
    /\ notices = 0

Paused == now < entry.until

\* _cookie_changed: unknown times, of the file or of the row, never count.
CookieChanged == mtime # 0 /\ entry.mtime # 0 /\ mtime > entry.mtime

Tell(today) == notices' = IF entry.notified = today THEN notices ELSE notices + 1

\* Mutant: the day of the notice is not saved.
SkipForgetsDay(skip) ==
    /\ \/ /\ Paused /\ CookieChanged
          /\ skip = FALSE
          /\ entry' = DefaultEntry
          /\ UNCHANGED notices
       \/ /\ Paused /\ ~CookieChanged
          /\ skip = TRUE
          /\ UNCHANGED entry
          /\ Tell(Day(now))
       \/ /\ ~Paused
          /\ skip = FALSE
          /\ UNCHANGED <<entry, notices>>
    /\ UNCHANGED <<now, mtime, writes, streak>>

\* should_skip_start, which says whether to skip.
ShouldSkipStart(skip) ==
    /\ \/ /\ Paused /\ CookieChanged
          /\ skip = FALSE
          /\ entry' = DefaultEntry
          /\ UNCHANGED notices
       \/ /\ Paused /\ ~CookieChanged
          /\ skip = TRUE
          /\ entry' = [entry EXCEPT !.notified = Day(now)]
          /\ Tell(Day(now))
       \/ /\ ~Paused
          /\ skip = FALSE
          /\ UNCHANGED <<entry, notices>>
    /\ UNCHANGED <<now, mtime, writes, streak>>

\* The row record_failure counts from: a new login state begins anew, if the
\* caller names the file.
CountedFrom(path) ==
    IF path /\ CookieChanged
    THEN [entry EXCEPT !.failures = 0, !.until = NoTime, !.notified = NoDay]
    ELSE entry

\* Mutant: one failure more than the threshold.
EnoughPlusOne(immediate) == IF immediate THEN 1 ELSE Threshold + 1

\* Failures that open the circuit: a missing login state or proxy does at once.
Enough(immediate) == IF immediate THEN 1 ELSE Threshold

\* A failure reported without a file tells nothing of a login state the row
\* does not know yet: history leaves it out.
Counts(path) == path \/ ~CookieChanged

\* Mutant: a failure during a pause adds to it.
PauseAddsUp(immediate, path) ==
    LET e == CountedFrom(path)
        n == e.failures + 1
        opens == n >= Enough(immediate)
        from == IF Paused THEN entry.until ELSE now
    IN  /\ entry.failures < MaxFailures
        /\ entry' = [failures |-> n,
                     until    |-> IF opens THEN from + PauseTime ELSE NoTime,
                     notified |-> IF opens THEN Day(now) ELSE e.notified,
                     mtime    |-> IF path /\ mtime # 0 THEN mtime ELSE e.mtime]
        /\ UNCHANGED notices
        /\ streak' = streak + 1
        /\ UNCHANGED <<now, mtime, writes>>

\* record_failure; path: a cookie_path is given.  Its time is kept if it has one.
RecordFailure(immediate, path) ==
    LET e == CountedFrom(path)
        n == e.failures + 1
        opens == n >= Enough(immediate)
    IN  /\ entry.failures < MaxFailures
        /\ entry' = [failures |-> n,
                     until    |-> IF opens THEN now + PauseTime ELSE NoTime,
                     notified |-> IF opens THEN Day(now) ELSE e.notified,
                     mtime    |-> IF path /\ mtime # 0 THEN mtime ELSE e.mtime]
        /\ notices' = IF opens /\ e.notified # Day(now) /\ Counts(path)
                      THEN notices + 1 ELSE notices
        /\ streak' = IF Counts(path) THEN streak + 1 ELSE 0
        /\ UNCHANGED <<now, mtime, writes>>

\* record_success: a fresh row, whatever another process wrote meanwhile.
RecordSuccess ==
    /\ entry' = DefaultEntry
    /\ streak' = 0
    /\ notices' = 0
    /\ UNCHANGED <<now, mtime, writes>>

Tick ==
    /\ now < MaxTime
    /\ now' = now + 1
    /\ notices' = IF Day(now + 1) = Day(now) THEN notices ELSE 0
    /\ UNCHANGED <<mtime, writes, entry, streak>>

\* The user gives the task a new login state.
UpdateFile ==
    /\ writes < MaxWrites
    /\ writes' = writes + 1
    /\ mtime' = writes + 1
    /\ streak' = 0
    /\ notices' = 0
    /\ UNCHANGED <<now, entry>>

RemoveFile ==
    /\ mtime # 0
    /\ mtime' = 0
    /\ UNCHANGED <<now, writes, entry, streak, notices>>

GuardNext ==
    \/ \E skip \in BOOLEAN : ShouldSkipStart(skip)
    \/ \E immediate, path \in BOOLEAN : RecordFailure(immediate, path)
    \/ RecordSuccess \/ Tick \/ UpdateFile \/ RemoveFile

GuardSpec == GuardInit /\ [][GuardNext]_guardVars

-----------------------------------------------------------------------------
(* Properties                                                              *)

Entries == [failures : 0..MaxFailures, until : 0..(MaxTime + PauseTime),
            notified : 0..Day(MaxTime), mtime : 0..MaxWrites]

\* The shape of the row, the file and the clock; a time the row knows was a
\* time of the file, a pause or a notice lies on a day that was.
GuardTypeOK ==
    /\ now \in 0..MaxTime
    /\ writes \in 0..MaxWrites
    /\ mtime \in {0, writes}
    /\ entry \in Entries
    /\ entry.mtime <= writes
    /\ entry.notified <= Day(now)
    /\ entry.until <= now + PauseTime

\* The circuit opens: from the Threshold-th failure in a row, with no success
\* and no new login state in between, every failure pauses the task for the
\* whole pause time, whoever else resets, pauses or reports without a file.
OpensAtThreshold ==
    [][streak' > streak /\ streak' >= Threshold =>
          entry'.until = now + PauseTime]_guardVars

\* The owner is told once a day: a second notice on the same day needs a
\* success or a new login state in between, whichever of should_skip_start
\* and record_failure sends it.  (A notice for a failure without a file, while
\* the row does not know the present login state, belongs to the old one.)
ToldOnceADay == notices <= 1
=============================================================================
