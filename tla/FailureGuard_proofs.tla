------------------------ MODULE FailureGuard_proofs ------------------------
(***************************************************************************)
(* Theorems about FailureGuard: for every threshold, pause, length of the  *)
(* day and bound, in whatever order its operations are called.             *)
(***************************************************************************)
EXTENDS FailureGuard, TLAPS

\* Types without the bounds: all that the arithmetic of the proofs needs.
GuardNats ==
    /\ now \in Nat /\ mtime \in Nat /\ writes \in Nat
    /\ entry \in [failures : Nat, until : Nat, notified : Nat, mtime : Nat]
    /\ streak \in Nat /\ notices \in Nat

\* The row is at least as far as the failures the owner has had since the
\* last success or login state: if that state is not known to the row yet,
\* there is none.
CountIInv == entry.failures >= streak /\ (streak > 0 => ~CookieChanged)

\* A notice that counts is the one the row remembers, and no file the row
\* does not know makes it forget.
NoticeIInv == notices <= 1 /\ (notices = 1 => entry.notified = Day(now) /\ ~CookieChanged)

IInv == GuardNats /\ CountIInv /\ NoticeIInv

\* Day is a natural number: \div of naturals by a positive one.
LEMMA DayNat == ASSUME NEW t \in Nat PROVE Day(t) \in Nat /\ Day(t) >= 1
  BY GuardConstants DEF Day

\* Each part of the invariant, through each operation of the guard.
LEMMA SkipKeeps == ASSUME IInv, NEW skip \in BOOLEAN, ShouldSkipStart(skip) PROVE IInv'
<1> USE DayNat, GuardConstants DEF IInv, ShouldSkipStart
<1>1. GuardNats'
  BY DEF GuardNats, DefaultEntry, NoTime, NoDay, Tell
<1>2. CountIInv'
  BY DEF GuardNats, CountIInv, CookieChanged, DefaultEntry, NoTime, NoDay
<1>3. NoticeIInv'
  <2>1. CASE Paused /\ ~CookieChanged /\ entry' = [entry EXCEPT !.notified = Day(now)] /\ Tell(Day(now))
    BY <2>1 DEF GuardNats, NoticeIInv, CookieChanged, Tell
  <2>2. CASE entry' = DefaultEntry /\ CookieChanged /\ UNCHANGED notices
    BY <2>2 DEF GuardNats, NoticeIInv, CookieChanged, DefaultEntry, NoTime, NoDay
  <2>3. CASE UNCHANGED <<entry, notices>>
    BY <2>3 DEF GuardNats, NoticeIInv, CookieChanged
  <2> QED BY <2>1, <2>2, <2>3
<1> QED BY <1>1, <1>2, <1>3

LEMMA FailureKeeps ==
  ASSUME IInv, NEW immediate \in BOOLEAN, NEW path \in BOOLEAN, RecordFailure(immediate, path)
  PROVE  IInv'
<1> USE DayNat, GuardConstants DEF IInv, RecordFailure
<1>1. /\ CountedFrom(path).failures \in Nat /\ CountedFrom(path).notified \in Nat
      /\ CountedFrom(path).mtime = entry.mtime
  BY DEF GuardNats, CountedFrom, NoTime, NoDay
<1>2. GuardNats'
  BY <1>1 DEF GuardNats, NoTime
<1>3. Counts(path) => CountedFrom(path).failures >= streak
  BY DEF GuardNats, CountIInv, CountedFrom, Counts, NoTime, NoDay
<1>4. Counts(path) => ~CookieChanged'
  BY <1>1 DEF GuardNats, CookieChanged, Counts
<1>5. CountIInv'
  BY <1>1, <1>3, <1>4 DEF GuardNats, CountIInv
<1>6. notices = 1 => CountedFrom(path).notified = Day(now)
  BY DEF NoticeIInv, CountedFrom
<1>7. NoticeIInv'
  <2>1. CASE Counts(path)
    BY <1>1, <1>4, <1>6, <2>1 DEF GuardNats, NoticeIInv
  <2>2. CASE ~Counts(path)
    BY <1>1, <2>2 DEF GuardNats, NoticeIInv, Counts
  <2> QED BY <2>1, <2>2
<1> QED BY <1>2, <1>5, <1>7

LEMMA SuccessKeeps == ASSUME IInv, RecordSuccess PROVE IInv'
  BY DEF IInv, GuardNats, CountIInv, NoticeIInv, RecordSuccess, DefaultEntry, CookieChanged, NoTime, NoDay

LEMMA TickKeeps == ASSUME IInv, Tick PROVE IInv'
  BY DEF IInv, GuardNats, CountIInv, NoticeIInv, Tick, CookieChanged

LEMMA FileKeeps == ASSUME IInv, UpdateFile \/ RemoveFile PROVE IInv'
  BY DEF IInv, GuardNats, CountIInv, NoticeIInv, UpdateFile, RemoveFile, CookieChanged

LEMMA StutterKeeps == ASSUME IInv, UNCHANGED guardVars PROVE IInv'
  BY DEF IInv, GuardNats, CountIInv, NoticeIInv, CookieChanged, Day, guardVars

LEMMA InitIInv == GuardInit => IInv
  BY DEF GuardInit, IInv, GuardNats, CountIInv, NoticeIInv, CookieChanged, DefaultEntry, NoTime, NoDay

\* The invariant is inductive.
THEOREM Inductive == GuardSpec => []IInv
<1>1. IInv /\ [GuardNext]_guardVars => IInv'
  BY SkipKeeps, FailureKeeps, SuccessKeeps, TickKeeps, FileKeeps, StutterKeeps DEF GuardNext
<1> QED BY InitIInv, <1>1, PTL DEF GuardSpec

\* The owner of a task is told once a day.
THEOREM ToldOnce == GuardSpec => []ToldOnceADay
  BY Inductive, PTL DEF IInv, NoticeIInv, ToldOnceADay

\* The circuit opens at the threshold, whatever was called before: the row
\* is never behind the failures the owner has had, so the check of the row's
\* count is a check of theirs.
THEOREM CircuitOpens == GuardSpec => OpensAtThreshold
<1>1. ASSUME IInv, [GuardNext]_guardVars, streak' > streak, streak' >= Threshold
      PROVE  entry'.until = now + PauseTime
  <2>1. PICK immediate \in BOOLEAN, path \in BOOLEAN : RecordFailure(immediate, path)
    BY <1>1 DEF GuardNext, ShouldSkipStart, RecordSuccess, Tick, UpdateFile, RemoveFile,
                guardVars, IInv, GuardNats
  <2>2. Counts(path)
    BY <1>1, <2>1 DEF RecordFailure, IInv, GuardNats
  <2>3. CountedFrom(path).failures \in Nat /\ CountedFrom(path).failures >= streak
    BY <1>1, <2>2 DEF IInv, GuardNats, CountIInv, CountedFrom, Counts, NoTime, NoDay
  <2>4. CountedFrom(path).failures + 1 >= Enough(immediate)
    BY <1>1, <2>1, <2>2, <2>3, GuardConstants DEF RecordFailure, Enough, IInv, GuardNats
  <2> QED BY <2>1, <2>4 DEF RecordFailure
<1> QED BY <1>1, Inductive, PTL DEF GuardSpec, OpensAtThreshold

-----------------------------------------------------------------------------
(* Types with their bounds                                                 *)

\* A later tick lies on the same or a later day.
LEMMA DayMonotone == ASSUME NEW t \in Nat, NEW u \in Nat, t <= u PROVE Day(t) <= Day(u)
  BY GuardConstants DEF Day

\* The row, the file and the clock keep their shape and their bounds: the row
\* knows no time of the file that was not, and no pause is longer than one.
THEOREM TypeCorrect == GuardSpec => []GuardTypeOK
<1> USE DayNat, DayMonotone, GuardConstants
<1>1. GuardInit => GuardTypeOK
  BY DEF GuardInit, GuardTypeOK, Entries, DefaultEntry, NoTime, NoDay
<1>2. GuardTypeOK /\ [GuardNext]_guardVars => GuardTypeOK'
  <2> SUFFICES ASSUME GuardTypeOK, [GuardNext]_guardVars PROVE GuardTypeOK'
    OBVIOUS
  <2>1. ASSUME NEW skip \in BOOLEAN, ShouldSkipStart(skip) PROVE GuardTypeOK'
    <3> Day(now) \in 0..Day(MaxTime)
      BY DEF GuardTypeOK
    <3>1. CASE entry' = [entry EXCEPT !.notified = Day(now)]
      BY <2>1, <3>1 DEF GuardTypeOK, Entries, ShouldSkipStart
    <3>2. CASE entry' = DefaultEntry
      BY <2>1, <3>2 DEF GuardTypeOK, Entries, ShouldSkipStart, DefaultEntry, NoTime, NoDay
    <3>3. CASE UNCHANGED entry
      BY <2>1, <3>3 DEF GuardTypeOK, Entries, ShouldSkipStart
    <3> QED BY <2>1, <3>1, <3>2, <3>3 DEF ShouldSkipStart
  <2>2. ASSUME NEW immediate \in BOOLEAN, NEW path \in BOOLEAN, RecordFailure(immediate, path)
        PROVE  GuardTypeOK'
    BY <2>2 DEF GuardTypeOK, Entries, RecordFailure, CountedFrom, NoTime, NoDay
  <2>3. CASE RecordSuccess
    BY <2>3 DEF GuardTypeOK, Entries, RecordSuccess, DefaultEntry, NoTime, NoDay
  <2>4. CASE Tick
    BY <2>4 DEF GuardTypeOK, Entries, Tick
  <2>5. CASE UpdateFile
    BY <2>5 DEF GuardTypeOK, Entries, UpdateFile
  <2>6. CASE RemoveFile
    BY <2>6 DEF GuardTypeOK, Entries, RemoveFile
  <2>7. CASE UNCHANGED guardVars
    BY <2>7 DEF GuardTypeOK, Entries, guardVars
  <2> QED BY <2>1, <2>2, <2>3, <2>4, <2>5, <2>6, <2>7 DEF GuardNext
<1> QED BY <1>1, <1>2, PTL DEF GuardSpec
=============================================================================
