-------------------------- MODULE AttendanceCompute --------------------------
(***************************************************************************)
(* attendance.compute.ts: what a day of scans is worth.  The functions are *)
(* pure; the state is one DailyAttendance row and what they read besides   *)
(* it, as a day goes by: the first scan, later scans that overwrite the    *)
(* checkout, an OT request that is approved, and explanations, which       *)
(* write the checkout that the employee stated, whatever the row has.      *)
(*                                                                         *)
(* An instant is a time on the timeline of the business day, which runs    *)
(* from 04:00 to 04:00 and so past Day; the row stores the time of day.    *)
(* Times are whole ticks, Minute of them a minute (60 in the code); credit *)
(* is its number of worked ticks, FullDay of them being 1.0.               *)
(***************************************************************************)
EXTENDS Integers, FiniteSets

CONSTANTS
    Minute,    \* ticks of a minute
    Instants,  \* bound: the instants at which scans are made
    Ends       \* bound: the checkouts that explanations state

Hour == 60 * Minute
Day == 24 * Hour
FullDay == 8 * Hour                 \* STANDARD_WORK_SECONDS
LunchSpan == 90 * Minute            \* LUNCH_SPAN_SECONDS
T_0400 == 4 * Hour
T_0800 == 8 * Hour
T_0900 == 9 * Hour
T_1200 == 12 * Hour
T_1330 == 13 * Hour + 30 * Minute
T_1730 == 17 * Hour + 30 * Minute
T_1830 == 18 * Hour + 30 * Minute
T_2000 == 20 * Hour

ASSUME MinuteAssumption == Minute \in Nat \ {0}
ASSUME InstantsAssumption ==
    /\ Instants \subseteq T_0400..(Day + T_0400 - 1)
    /\ Ends \subseteq {t \in Instants : t % Minute = 0}   \* HH:mm

VARIABLES
    scanIn,      \* the instant of the first scan
    scanOut,     \* the checkout: that of the last scan, or as explained
    lastScan,    \* the instant of the last scan
    otApproved,  \* an OT request for the day is APPROVED
    isWeekend

vars == <<scanIn, scanOut, lastScan, otApproved, isWeekend>>

NoScan == -1

TypeOK ==
    /\ scanIn \in Instants \cup {NoScan}
    /\ scanOut \in Instants \cup {NoScan}
    /\ lastScan \in Instants \cup {NoScan}
    /\ scanIn <= lastScan
    /\ scanIn = NoScan => scanOut = NoScan /\ lastScan = NoScan
    /\ otApproved \in BOOLEAN
    /\ isWeekend \in BOOLEAN

Init ==
    /\ scanIn = NoScan /\ scanOut = NoScan /\ lastScan = NoScan
    /\ otApproved = FALSE
    /\ isWeekend \in BOOLEAN

ScanIn(t) ==
    /\ scanIn = NoScan
    /\ scanIn' = t /\ lastScan' = t
    /\ UNCHANGED <<scanOut, otApproved, isWeekend>>

ScanOut(t) ==
    /\ scanIn # NoScan /\ lastScan <= t
    /\ scanOut' = t /\ lastScan' = t
    /\ UNCHANGED <<scanIn, otApproved, isWeekend>>

\* The end_time of an approved explanation.  It was asked for when the
\* day had no checkout, but it is written without looking: over a scan or an
\* explanation made since, and before the check-in if that is what it says.
Explain(t) ==
    /\ scanIn # NoScan /\ scanOut' = t
    /\ UNCHANGED <<scanIn, lastScan, otApproved, isWeekend>>

ApproveOt ==
    /\ ~otApproved /\ otApproved' = TRUE
    /\ UNCHANGED <<scanIn, scanOut, lastScan, isWeekend>>

Next ==
    \/ \E t \in Instants : ScanIn(t) \/ ScanOut(t)
    \/ \E t \in Ends : Explain(t)
    \/ ApproveOt

Spec == Init /\ [][Next]_vars

-----------------------------------------------------------------------------
(* The functions, on the times of day that the row stores. *)

TimeOfDay(t) == t % Day

MinOf(a, b) == IF a <= b THEN a ELSE b
MaxOf(a, b) == IF a >= b THEN a ELSE b

Overlap(aStart, aEnd, bStart, bEnd) ==
    MaxOf(0, MinOf(aEnd, bEnd) - MaxOf(aStart, bStart))

SameDayOnly(in, out) == out
EffectiveCheckout(in, out) == IF out <= in /\ out < T_0400 THEN out + Day ELSE out

FromTheScan(in, ot, weekend) == in
EarliestCounted(in, ot, weekend) == IF ~ot /\ ~weekend THEN MaxOf(in, T_0800) ELSE in

Dinner(from, to) == Overlap(from, to, T_1830, T_2000)

\* computeStandardCredit
StandardCredit(in, out, ot, weekend) ==
    LET from == EarliestCounted(in, ot, weekend)
        until == EffectiveCheckout(in, out)
        to == IF ot THEN until ELSE MinOf(until, T_1830)
        work == to - from - Overlap(from, to, T_1200, T_1330)
                  - (IF ot THEN Dinner(from, to) ELSE 0)
    IN
    IF to <= from \/ work <= 0 \/ (weekend /\ ~ot) THEN 0
    ELSE IF ot THEN work ELSE MinOf(FullDay, work)

\* computeAttendance
Credit ==
    IF scanIn = NoScan \/ scanOut = NoScan THEN 0
    ELSE StandardCredit(TimeOfDay(scanIn), TimeOfDay(scanOut), otApproved, isWeekend)

WholeMinutes(ticks) == ticks \div Minute
\* Math.round
RoundedMinutes(ticks) == (2 * ticks + Minute) \div (2 * Minute)

MissingMinutes ==
    IF scanIn = NoScan \/ (isWeekend /\ ~otApproved) THEN 0
    ELSE IF scanOut = NoScan THEN FullDay \div Minute
    ELSE MaxOf(0, RoundedMinutes(FullDay - Credit))

Status ==
    IF isWeekend /\ (scanIn = NoScan \/ ~otApproved) THEN "WEEKEND"
    ELSE IF scanIn = NoScan THEN "DAYOFF"
    ELSE IF Credit >= FullDay THEN "COMPLETED" ELSE "SHORTHOURS"

\* deriveWorkingWindow: when the employee is told their day ends.
WorkEnd(in) ==
    IF in < T_0800 THEN T_1730
    ELSE IF in < T_0900 THEN in - (in % Minute) + FullDay + LunchSpan
    ELSE T_1830

-----------------------------------------------------------------------------
(* Properties. *)

\* Reference: the ticks of the timeline that the employee was present and
\* that count, one by one.  What counts is what the code takes for it; where
\* Plan/Timekeeping.md says otherwise (no start at 08:00 in 3.1, at most the
\* registered overtime in 3.2) the reference does not follow the plan.
Present == IF scanOut = NoScan THEN {} ELSE scanIn..(scanOut - 1)
Meal == T_1200..(T_1330 - 1) \cup (IF otApproved THEN T_1830..(T_2000 - 1) ELSE {})
Counted ==
    IF otApproved THEN Present \ Meal
    ELSE IF isWeekend THEN {}
    ELSE (Present \cap T_0800..(T_1830 - 1)) \ Meal

\* The row has no dates: a checkout at or before a check-in that was made
\* after midnight is taken for one of the day after, and credited.
Displaced == scanOut # NoScan /\ scanIn >= Day /\ scanOut <= scanIn

\* After every step of the day, scans and explanations in any order, the
\* closed formula on wall-clock times, past midnight too, is worth exactly the
\* ticks that count, with at most a full day unless OT is approved; displaced
\* checkouts apart.
CreditIsTimePresent ==
    [][ vars' # vars /\ ~Displaced' =>
          Credit' = IF otApproved' THEN Cardinality(Counted')
                    ELSE MinOf(FullDay, Cardinality(Counted')) ]_vars

\* A later scan never lowers the credit and never adds missing minutes,
\* midnight included, if the checkout it replaces was scanned, too.  (One that
\* was explained may have been later than the scan.)
StayingNeverCosts ==
    [][ /\ scanIn' = scanIn /\ lastScan' # lastScan
        /\ scanOut \in {NoScan, lastScan} /\ ~Displaced
        => Credit <= Credit' /\ MissingMinutes' <= MissingMinutes ]_vars

\* An approved OT request never lowers the credit of a day, although it also
\* deducts the dinner break, and never adds missing minutes on a weekday.  (A
\* weekend has no missing minutes until it is approved.)
OtNeverCosts ==
    [][ otApproved' # otApproved /\ scanOut' = scanOut /\ scanIn' = scanIn =>
          /\ Credit <= Credit'
          /\ ~isWeekend => MissingMinutes' <= MissingMinutes ]_vars

\* Staying longer costs nothing, nor does an approved OT request on a weekday.
EarnedNeverShrinks == StayingNeverCosts /\ OtNeverCosts

\* Nobody with a full day misses minutes, and less than half a minute is all
\* that rounding forgives.
MissingMinutesMatchStatus ==
    /\ Status = "COMPLETED" => MissingMinutes = 0
    /\ Status = "SHORTHOURS" /\ MissingMinutes = 0 => 2 * (FullDay - Credit) < Minute

\* attendance.compute.ts: the window of 9h30 from the check-in is 8h of
\* standard work and 1h30 of lunch.  Its start is rounded down to the minute
\* and the credit is not, so whoever stays until it ends misses at most one
\* minute, and after another minute none.
StayingToTheWindowsEnd ==
    scanIn # NoScan /\ scanIn < T_0900 /\ ~otApproved /\ ~isWeekend =>
      /\ scanOut >= WorkEnd(scanIn) => MissingMinutes <= 1
      /\ scanOut >= WorkEnd(scanIn) + Minute => Status = "COMPLETED"
=============================================================================
