---------------------------- MODULE PayrollProofs ----------------------------
(***************************************************************************)
(* Theorems about one day of AttendanceCompute, for every length of a      *)
(* minute and every set of instants, and about the month of Payroll built  *)
(* on it: any staff, rates, number of publications, failures and changes   *)
(* of the month while they run.                                            *)
(***************************************************************************)
EXTENDS Payroll, FiniteSetTheorems, WellFoundedInduction, TLAPS

(* One day: AttendanceCompute. *)

\* The limits of the code, in ticks.
LEMMA Limits ==
    /\ Minute \in Nat /\ Minute >= 1
    /\ Day = 1440 * Minute /\ FullDay = 480 * Minute
    /\ T_0400 = 240 * Minute /\ T_0800 = 480 * Minute
    /\ T_1200 = 720 * Minute /\ T_1330 = 810 * Minute
    /\ T_1830 = 1110 * Minute /\ T_2000 = 1200 * Minute
BY MinuteAssumption DEF Day, FullDay, T_0400, T_0800, T_1200, T_1330, T_1830, T_2000, Hour

LEMMA InstantBounds ==
    ASSUME NEW t \in Instants
    PROVE  t \in Int /\ T_0400 <= t /\ t < Day + T_0400
BY InstantsAssumption, Limits

\* What TimeOfDay does on one business day: past midnight it drops a day.
LEMMA ModuloTwoDays ==
    ASSUME NEW d \in Nat \ {0}, NEW t \in Nat, t < 2 * d
    PROVE  t % d = IF t < d THEN t ELSE t - d
OBVIOUS

LEMMA TimeOfDayValue ==
    ASSUME NEW t \in Instants
    PROVE  TimeOfDay(t) = IF t < Day THEN t ELSE t - Day
<1>1. Day \in Nat \ {0} /\ t \in Nat /\ t < 2 * Day
  BY Limits, InstantBounds
<1> QED
  BY <1>1, ModuloTwoDays DEF TimeOfDay

\* Where the wall-clock code puts the end of the stay: on the day of the
\* check-in's time of day, or after the midnight that follows it.
LEMMA EffectiveCheckoutValue ==
    ASSUME NEW i \in Instants, NEW o \in Instants, i < o
    PROVE  EffectiveCheckout(TimeOfDay(i), TimeOfDay(o)) = IF i < Day THEN o ELSE o - Day
<1>1. TimeOfDay(i) = (IF i < Day THEN i ELSE i - Day)
      /\ TimeOfDay(o) = (IF o < Day THEN o ELSE o - Day)
  BY TimeOfDayValue
<1>2. i \in Int /\ T_0400 <= i /\ o \in Int /\ o < Day + T_0400
  BY InstantBounds
<1>3. Day \in Nat /\ T_0400 \in Nat /\ T_0400 < Day
  BY Limits
<1> QED
  BY <1>1, <1>2, <1>3 DEF EffectiveCheckout

\* A later end of the stay never lowers the credit.
LEMMA LaterEndCreditsMore ==
    ASSUME NEW in \in Nat, NEW out \in Int, NEW later \in Int,
           NEW ot \in BOOLEAN, NEW weekend \in BOOLEAN,
           EffectiveCheckout(in, out) \in Nat, EffectiveCheckout(in, later) \in Nat,
           EffectiveCheckout(in, out) <= EffectiveCheckout(in, later)
    PROVE  StandardCredit(in, out, ot, weekend) <= StandardCredit(in, later, ot, weekend)
<1> DEFINE u == EffectiveCheckout(in, out)
<1> DEFINE v == EffectiveCheckout(in, later)
<1>1. u \in Nat /\ v \in Nat /\ u <= v
  OBVIOUS
<1> HIDE DEF u, v
<1>2. CASE ot
  <2> DEFINE Worked(x) == x - in - Overlap(in, x, T_1200, T_1330) - Overlap(in, x, T_1830, T_2000)
  <2>1. Worked(u) \in Int /\ Worked(v) \in Int
    BY <1>1, Limits DEF Overlap, MinOf, MaxOf
  <2>2. in < u => Worked(u) <= Worked(v)
    BY <1>1, Limits DEF Overlap, MinOf, MaxOf
  <2>3. /\ StandardCredit(in, out, ot, weekend)
             = IF u <= in \/ Worked(u) <= 0 THEN 0 ELSE Worked(u)
        /\ StandardCredit(in, later, ot, weekend)
             = IF v <= in \/ Worked(v) <= 0 THEN 0 ELSE Worked(v)
    BY <1>2 DEF StandardCredit, EarliestCounted, Dinner, u, v
  <2> HIDE DEF Worked
  <2> QED
    BY <1>1, <2>1, <2>2, <2>3
<1>3. CASE ~ot
  <2> DEFINE from == EarliestCounted(in, ot, weekend)
  <2> DEFINE To(x) == MinOf(x, T_1830)
  <2> DEFINE Worked(x) == To(x) - from - Overlap(from, To(x), T_1200, T_1330)
  <2>1. from \in Nat
    BY Limits DEF EarliestCounted, MaxOf
  <2> HIDE DEF from
  <2>2. Worked(u) \in Int /\ Worked(v) \in Int
    BY <1>1, <2>1, Limits DEF Overlap, MinOf, MaxOf
  <2>3. To(u) \in Int /\ To(v) \in Int /\ To(u) <= To(v)
    BY <1>1, Limits DEF MinOf
  <2>4. from < To(u) => Worked(u) <= Worked(v)
    BY <1>1, <2>1, Limits DEF Overlap, MinOf, MaxOf
  <2>6. FullDay \in Nat
    BY Limits
  <2>7. CASE weekend
    <3>1. /\ StandardCredit(in, out, ot, weekend) = 0
          /\ StandardCredit(in, later, ot, weekend) = 0
      BY <1>3, <2>7 DEF StandardCredit
    <3> QED
      BY <3>1
  <2>8. CASE ~weekend
    <3>1. /\ StandardCredit(in, out, ot, weekend)
               = IF To(u) <= from \/ Worked(u) <= 0 THEN 0 ELSE MinOf(FullDay, Worked(u))
          /\ StandardCredit(in, later, ot, weekend)
               = IF To(v) <= from \/ Worked(v) <= 0 THEN 0 ELSE MinOf(FullDay, Worked(v))
      BY <1>3, <2>2, <2>8 DEF StandardCredit, u, v, from
    <3> HIDE DEF To, Worked
    <3> QED
      BY <2>1, <2>2, <2>3, <2>4, <2>6, <3>1 DEF MinOf
  <2> QED
    BY <2>7, <2>8
<1> QED
  BY <1>2, <1>3

LEMMA StandardCreditType ==
    ASSUME NEW in \in Nat, NEW out \in Nat, NEW ot \in BOOLEAN, NEW weekend \in BOOLEAN
    PROVE  StandardCredit(in, out, ot, weekend) \in Nat
<1> DEFINE from == EarliestCounted(in, ot, weekend)
<1> DEFINE until == EffectiveCheckout(in, out)
<1> DEFINE to == IF ot THEN until ELSE MinOf(until, T_1830)
<1> DEFINE work == to - from - Overlap(from, to, T_1200, T_1330)
                     - (IF ot THEN Dinner(from, to) ELSE 0)
<1>1. from \in Int
  BY Limits DEF EarliestCounted, MaxOf
<1>2. until \in Int
  BY Limits DEF EffectiveCheckout
<1>3. to \in Int
  BY <1>2, Limits DEF MinOf
<1> HIDE DEF from, until, to
<1>4. work \in Int
  BY <1>1, <1>3, Limits DEF Overlap, Dinner, MinOf, MaxOf
<1>5. StandardCredit(in, out, ot, weekend) =
        IF to <= from \/ work <= 0 \/ (weekend /\ ~ot) THEN 0
        ELSE IF ot THEN work ELSE MinOf(FullDay, work)
  BY DEF StandardCredit, from, until, to
<1> HIDE DEF work
<1> QED
  BY <1>1, <1>3, <1>4, <1>5, Limits DEF MinOf

\* On one row an approved OT request never lowers the credit: the dinner
\* break that it deducts lies after the hours that count without it.
LEMMA OtCreditsMore ==
    ASSUME NEW in \in Nat, NEW out \in Nat, NEW weekend \in BOOLEAN
    PROVE  StandardCredit(in, out, FALSE, weekend) <= StandardCredit(in, out, TRUE, weekend)
<1> DEFINE standard == StandardCredit(in, out, FALSE, weekend)
<1> DEFINE extended == StandardCredit(in, out, TRUE, weekend)
<1> DEFINE u == EffectiveCheckout(in, out)
<1> DEFINE from == MaxOf(in, T_0800)
<1> DEFINE to == MinOf(u, T_1830)
<1> DEFINE Normal == to - from - Overlap(from, to, T_1200, T_1330)
<1> DEFINE Long == u - in - Overlap(in, u, T_1200, T_1330) - Overlap(in, u, T_1830, T_2000)
<1> SUFFICES standard <= extended
  OBVIOUS
<1>1. CASE weekend
  <2>1. standard = 0
    BY <1>1 DEF StandardCredit
  <2>2. extended \in Nat
    BY StandardCreditType
  <2> HIDE DEF standard, extended
  <2> QED
    BY <2>1, <2>2
<1>2. CASE ~weekend
  <2>1. u \in Int
    BY Limits DEF EffectiveCheckout
  <2>2. Normal \in Int /\ Long \in Int
    <3> HIDE DEF u
    <3> QED
      BY <2>1, Limits DEF Overlap, MinOf, MaxOf
  <2>3. standard = IF to <= from \/ Normal <= 0 THEN 0 ELSE MinOf(FullDay, Normal)
    BY <1>2, <2>2 DEF StandardCredit, EarliestCounted
  <2>4. extended = IF u <= in \/ Long <= 0 THEN 0 ELSE Long
    BY DEF StandardCredit, EarliestCounted, Dinner
  <2> HIDE DEF u
  <2>5. from < to => in < u /\ Normal <= Long
    BY <2>1, Limits DEF Overlap, MinOf, MaxOf
  <2>6. from \in Int /\ to \in Int /\ FullDay \in Nat
    BY <2>1, Limits DEF MinOf, MaxOf
  <2> HIDE DEF from, to, Normal, Long, standard, extended
  <2> QED
    BY <2>1, <2>2, <2>3, <2>4, <2>5, <2>6 DEF MinOf
<1> QED
  BY <1>1, <1>2

LEMMA DivisionIsMonotone ==
    ASSUME NEW d \in Nat \ {0}, NEW x \in Int, NEW y \in Int, x <= y
    PROVE  x \div d \in Int /\ x \div d <= y \div d
<1> DEFINE q == x \div d
<1> DEFINE r == y \div d
<1>1. q \in Int /\ r \in Int /\ d * q <= x /\ y < d * r + d
  OBVIOUS
<1> HIDE DEF q, r
<1>2. d * q < d * (r + 1)
  BY <1>1
<1>3. q < r + 1
  BY <1>1, <1>2
<1>4. q <= r
  BY <1>1, <1>3
<1> QED
  BY <1>1, <1>4 DEF q, r

\* More credit never means more missing minutes.
LEMMA MoreCreditMissesLess ==
    ASSUME NEW c \in Int, NEW b \in Int, c <= b
    PROVE  MaxOf(0, RoundedMinutes(FullDay - b)) <= MaxOf(0, RoundedMinutes(FullDay - c))
<1>1. 2 * Minute \in Nat \ {0} /\ Minute \in Nat /\ FullDay \in Nat
  BY Limits
<1>2. 2 * (FullDay - b) + Minute \in Int /\ 2 * (FullDay - c) + Minute \in Int
  BY <1>1
<1>3. 2 * (FullDay - b) + Minute <= 2 * (FullDay - c) + Minute
  BY <1>1
<1>4. /\ RoundedMinutes(FullDay - b) \in Int
      /\ RoundedMinutes(FullDay - b) <= RoundedMinutes(FullDay - c)
  BY <1>1, <1>2, <1>3, DivisionIsMonotone DEF RoundedMinutes
<1>5. RoundedMinutes(FullDay - c) \in Int
  BY <1>1, <1>2, DivisionIsMonotone DEF RoundedMinutes
<1> QED
  BY <1>4, <1>5 DEF MaxOf

-----------------------------------------------------------------------------
LEMMA NoScanBefore ==
    /\ NoScan = -1 /\ NoScan \notin Instants
    /\ \A t \in Instants : NoScan < t
BY InstantBounds, Limits DEF NoScan

LEMMA EndsAreInstants == Ends \subseteq Instants
BY InstantsAssumption

LEMMA DayKeepsType ==
    ASSUME TypeOK, [Next]_vars
    PROVE  TypeOK'
<1> USE DEF TypeOK
<1>1. ASSUME NEW t \in Instants, ScanIn(t) PROVE TypeOK'
  BY <1>1, InstantBounds, NoScanBefore DEF ScanIn
<1>2. ASSUME NEW t \in Instants, ScanOut(t) PROVE TypeOK'
  <2>1. scanIn \in Instants /\ lastScan \in Instants \cup {NoScan} /\ scanIn <= lastScan /\ lastScan <= t
    BY <1>2 DEF ScanOut
  <2>2. scanIn <= t
    BY <2>1, InstantBounds, NoScanBefore
  <2> QED
    BY <1>2, <2>2 DEF ScanOut
<1>3. ASSUME NEW t \in Ends, Explain(t) PROVE TypeOK'
  BY <1>3, EndsAreInstants DEF Explain
<1>4. CASE ApproveOt
  BY <1>4 DEF ApproveOt
<1>5. CASE UNCHANGED vars
  BY <1>5 DEF vars
<1> QED
  BY <1>1, <1>2, <1>3, <1>4, <1>5 DEF Next

\* Type correctness: scans are in order, and a day has a checkout only after
\* a check-in.
THEOREM TypeCorrect == Spec => []TypeOK
<1>1. Init => TypeOK
  <2>1. NoScan <= NoScan
    BY NoScanBefore
  <2> HIDE DEF NoScan
  <2> QED
    BY <2>1 DEF Init, TypeOK
<1>2. TypeOK /\ [Next]_vars => TypeOK'
  BY DayKeepsType
<1> QED
  BY <1>1, <1>2, PTL DEF Spec

\* The first checkout costs nothing either.
LEMMA NothingMissesAll ==
    ASSUME NEW c \in Nat
    PROVE  MaxOf(0, RoundedMinutes(FullDay - c)) <= FullDay \div Minute
<1>1. FullDay = 480 * Minute /\ Minute \in Nat /\ Minute >= 1
  BY Limits
<1>2. MaxOf(0, RoundedMinutes(FullDay - c)) <= MaxOf(0, RoundedMinutes(FullDay - 0))
  BY MoreCreditMissesLess
<1>3. FullDay \div Minute = 480
  <2>1. /\ (480 * Minute) \div Minute \in Int
        /\ Minute * ((480 * Minute) \div Minute) <= 480 * Minute
        /\ 480 * Minute < Minute * ((480 * Minute) \div Minute) + Minute
    BY <1>1
  <2> DEFINE q == (480 * Minute) \div Minute
  <2> HIDE DEF q
  <2>2. q \in Int /\ Minute * q <= Minute * 480 /\ Minute * 480 < Minute * (q + 1)
    BY <1>1, <2>1 DEF q
  <2>3. q <= 480 /\ 480 < q + 1
    BY <1>1, <2>2
  <2> QED
    BY <1>1, <2>2, <2>3 DEF q
<1>4. RoundedMinutes(FullDay - 0) = (961 * Minute) \div (2 * Minute)
  BY <1>1 DEF RoundedMinutes
<1>5. (961 * Minute) \div (2 * Minute) <= 480 /\ (961 * Minute) \div (2 * Minute) \in Int
  <2> DEFINE q == (961 * Minute) \div (2 * Minute)
  <2>1. 2 * Minute \in Nat \ {0} /\ 961 * Minute \in Int
    BY <1>1
  <2>2. q \in Int /\ (2 * Minute) * q <= 961 * Minute
    BY <2>1
  <2> HIDE DEF q
  <2>3. Minute * (2 * q) <= Minute * 961
    BY <1>1, <2>2
  <2>4. 2 * q <= 961
    BY <1>1, <2>2, <2>3
  <2> QED
    BY <2>2, <2>4 DEF q
<1>6. RoundedMinutes(FullDay - c) \in Int
  <2>1. 2 * (FullDay - c) + Minute \in Int /\ 2 * Minute \in Nat \ {0}
    BY <1>1
  <2> QED
    BY <2>1, DivisionIsMonotone DEF RoundedMinutes
<1>7. RoundedMinutes(FullDay - 0) \in Int /\ RoundedMinutes(FullDay - 0) <= 480
  BY <1>4, <1>5
<1>8. MaxOf(0, RoundedMinutes(FullDay - 0)) \in Int /\ MaxOf(0, RoundedMinutes(FullDay - 0)) <= 480
  BY <1>7 DEF MaxOf
<1>9. MaxOf(0, RoundedMinutes(FullDay - c)) \in Int
  BY <1>6 DEF MaxOf
<1> QED
  BY <1>2, <1>3, <1>8, <1>9

\* A later scan on the way through the day: the credit of one row.
LEMMA LaterScanCreditsMore ==
    ASSUME NEW i \in Instants, NEW o \in Instants, NEW t \in Instants,
           NEW ot \in BOOLEAN, NEW weekend \in BOOLEAN,
           i <= o, o < t, ~(i >= Day /\ o <= i)
    PROVE  StandardCredit(TimeOfDay(i), TimeOfDay(o), ot, weekend)
             <= StandardCredit(TimeOfDay(i), TimeOfDay(t), ot, weekend)
<1> DEFINE in == TimeOfDay(i)
<1> DEFINE out == TimeOfDay(o)
<1> DEFINE later == TimeOfDay(t)
<1>1. in \in Nat /\ out \in Nat /\ later \in Nat
  BY TimeOfDayValue, InstantBounds, Limits
<1>2. /\ EffectiveCheckout(in, out) = (IF i < Day THEN o ELSE o - Day)
      /\ EffectiveCheckout(in, later) = (IF i < Day THEN t ELSE t - Day)
  <2>1. i < t
    BY InstantBounds
  <2>2. EffectiveCheckout(in, later) = (IF i < Day THEN t ELSE t - Day)
    BY <2>1, EffectiveCheckoutValue
  <2>3. CASE i < o
    BY <2>2, <2>3, EffectiveCheckoutValue
  <2>4. CASE i = o
    <3>1. i < Day /\ T_0400 <= i /\ i \in Int
      BY <2>4, InstantBounds, Limits
    <3>2. in = i /\ out = i
      BY <2>4, <3>1, TimeOfDayValue
    <3>3. EffectiveCheckout(in, out) = o
      BY <2>4, <3>1, <3>2, Limits DEF EffectiveCheckout
    <3> QED
      BY <2>2, <3>1, <3>3
  <2> QED
    BY <2>3, <2>4, InstantBounds
<1>3. /\ EffectiveCheckout(in, out) \in Nat /\ EffectiveCheckout(in, later) \in Nat
      /\ EffectiveCheckout(in, out) <= EffectiveCheckout(in, later)
  BY <1>2, InstantBounds, Limits
<1> HIDE DEF in, out, later
<1>4. StandardCredit(in, out, ot, weekend) <= StandardCredit(in, later, ot, weekend)
  BY <1>1, <1>3, LaterEndCreditsMore
<1> QED
  BY <1>4 DEF in, out, later

\* A later scan never lowers the credit nor adds missing minutes, whatever the
\* instants: midnight, the breaks and the cap included.
THEOREM NeverCostsToStay == Spec => StayingNeverCosts
<1> DEFINE Stay == /\ scanIn' = scanIn /\ lastScan' # lastScan
                   /\ scanOut \in {NoScan, lastScan} /\ ~Displaced
                   => Credit <= Credit' /\ MissingMinutes' <= MissingMinutes
<1>1. TypeOK /\ [Next]_vars => Stay
  <2> SUFFICES ASSUME TypeOK, [Next]_vars,
                      scanIn' = scanIn, lastScan' # lastScan, scanOut \in {NoScan, lastScan}, ~Displaced
               PROVE  Credit <= Credit' /\ MissingMinutes' <= MissingMinutes
    OBVIOUS
  <2>1. PICK t \in Instants : ScanOut(t)
    <3>1. ASSUME NEW t \in Instants, ScanIn(t) PROVE FALSE
      BY <3>1, NoScanBefore DEF ScanIn
    <3>2. ASSUME NEW t \in Ends, Explain(t) PROVE FALSE
      BY <3>2 DEF Explain
    <3>3. ~ApproveOt /\ ~UNCHANGED vars
      BY DEF ApproveOt, vars
    <3> QED
      BY <3>1, <3>2, <3>3 DEF Next
  <2>2. /\ scanIn \in Instants /\ lastScan \in Instants /\ scanIn <= lastScan /\ lastScan < t
        /\ scanOut' = t /\ otApproved' = otApproved /\ isWeekend' = isWeekend
        /\ otApproved \in BOOLEAN /\ isWeekend \in BOOLEAN
    <3>1. /\ scanIn \in Instants /\ lastScan \in Instants \cup {NoScan} /\ scanIn <= lastScan
          /\ lastScan <= t /\ lastScan # t
          /\ scanOut' = t /\ otApproved' = otApproved /\ isWeekend' = isWeekend
          /\ otApproved \in BOOLEAN /\ isWeekend \in BOOLEAN
      BY <2>1 DEF ScanOut, TypeOK
    <3>2. lastScan # NoScan
      BY <3>1, NoScanBefore, InstantBounds
    <3> QED
      BY <3>1, <3>2, InstantBounds
  <2>3. scanIn # NoScan /\ scanOut' # NoScan
    BY <2>2, NoScanBefore
  <2>4. Credit' = StandardCredit(TimeOfDay(scanIn), TimeOfDay(t), otApproved, isWeekend)
    BY <2>2, <2>3 DEF Credit
  <2>5. TimeOfDay(scanIn) \in Nat /\ TimeOfDay(t) \in Nat /\ TimeOfDay(lastScan) \in Nat
    BY <2>2, TimeOfDayValue, InstantBounds, Limits
  <2>6. Credit' \in Nat
    BY <2>2, <2>4, <2>5, StandardCreditType
  <2>7. CASE isWeekend /\ ~otApproved
    <3>1. MissingMinutes = 0 /\ MissingMinutes' = 0
      BY <2>2, <2>7 DEF MissingMinutes
    <3>2. Credit = 0
      BY <2>7 DEF Credit, StandardCredit
    <3> QED
      BY <2>6, <3>1, <3>2
  <2>8. CASE ~(isWeekend /\ ~otApproved)
    <3>1. MissingMinutes' = MaxOf(0, RoundedMinutes(FullDay - Credit'))
      BY <2>2, <2>3, <2>8 DEF MissingMinutes
    <3>2. CASE scanOut = NoScan
      <4>1. Credit = 0 /\ MissingMinutes = FullDay \div Minute
        BY <2>3, <2>8, <3>2 DEF Credit, MissingMinutes
      <4> QED
        BY <2>6, <3>1, <4>1, NothingMissesAll
    <3>3. CASE scanOut = lastScan
      <4>1. scanOut # NoScan
        BY <2>2, <3>3, NoScanBefore
      <4>2. Credit = StandardCredit(TimeOfDay(scanIn), TimeOfDay(lastScan), otApproved, isWeekend)
        BY <2>3, <3>3, <4>1 DEF Credit
      <4>3. MissingMinutes = MaxOf(0, RoundedMinutes(FullDay - Credit))
        BY <2>3, <2>8, <4>1 DEF MissingMinutes
      <4>4. ~(scanIn >= Day /\ lastScan <= scanIn)
        BY <3>3, <4>1 DEF Displaced
      <4>5. Credit \in Nat /\ Credit <= Credit'
        BY <2>2, <2>4, <2>5, <4>2, <4>4, LaterScanCreditsMore, StandardCreditType
      <4> QED
        BY <2>6, <3>1, <4>3, <4>5, MoreCreditMissesLess
    <3> QED
      BY <3>2, <3>3
  <2> QED
    BY <2>7, <2>8
<1> QED
  BY <1>1, TypeCorrect, PTL DEF Spec, StayingNeverCosts

\* An approved OT request never lowers the credit of a day nor, on a weekday,
\* adds missing minutes, for every length of a minute and every set of
\* instants.
THEOREM OtIsFree == Spec => OtNeverCosts
<1> DEFINE Ot == otApproved' # otApproved /\ scanOut' = scanOut /\ scanIn' = scanIn =>
                   /\ Credit <= Credit'
                   /\ ~isWeekend => MissingMinutes' <= MissingMinutes
<1>1. TypeOK /\ [Next]_vars => Ot
  <2> SUFFICES ASSUME TypeOK, [Next]_vars,
                      otApproved' # otApproved, scanOut' = scanOut, scanIn' = scanIn
               PROVE  /\ Credit <= Credit'
                      /\ ~isWeekend => MissingMinutes' <= MissingMinutes
    OBVIOUS
  <2>1. otApproved = FALSE /\ otApproved' = TRUE /\ isWeekend' = isWeekend
    BY DEF Next, ScanIn, ScanOut, Explain, ApproveOt, vars
  <2>2. CASE scanIn = NoScan \/ scanOut = NoScan
    <3>1. Credit = 0 /\ Credit' = 0
      BY <2>2 DEF Credit
    <3>2. ~isWeekend => MissingMinutes' = MissingMinutes
      BY <2>1, <2>2 DEF MissingMinutes
    <3>3. ~isWeekend => MissingMinutes \in Int
      <4>1. CASE scanIn = NoScan
        BY <4>1 DEF MissingMinutes
      <4>2. CASE scanIn # NoScan
        <5>1. ~isWeekend => MissingMinutes = FullDay \div Minute
          BY <2>2, <4>2 DEF MissingMinutes
        <5> QED
          BY <5>1, Limits
      <4> QED
        BY <4>1, <4>2
    <3> QED
      BY <3>1, <3>2, <3>3
  <2>3. CASE scanIn # NoScan /\ scanOut # NoScan
    <3> DEFINE in == TimeOfDay(scanIn)
    <3> DEFINE out == TimeOfDay(scanOut)
    <3>1. in \in Nat /\ out \in Nat /\ isWeekend \in BOOLEAN
      BY <2>3, TimeOfDayValue, InstantBounds, Limits DEF TypeOK
    <3>2. /\ Credit = StandardCredit(in, out, FALSE, isWeekend)
          /\ Credit' = StandardCredit(in, out, TRUE, isWeekend)
      BY <2>1, <2>3 DEF Credit
    <3> HIDE DEF in, out
    <3>3. Credit \in Nat /\ Credit' \in Nat /\ Credit <= Credit'
      BY <3>1, <3>2, OtCreditsMore, StandardCreditType
    <3>4. ~isWeekend => /\ MissingMinutes = MaxOf(0, RoundedMinutes(FullDay - Credit))
                        /\ MissingMinutes' = MaxOf(0, RoundedMinutes(FullDay - Credit'))
      BY <2>1, <2>3 DEF MissingMinutes
    <3>5. MaxOf(0, RoundedMinutes(FullDay - Credit')) <= MaxOf(0, RoundedMinutes(FullDay - Credit))
      BY <3>3, MoreCreditMissesLess
    <3> QED
      BY <3>3, <3>4, <3>5
  <2> QED
    BY <2>2, <2>3
<1> QED
  BY <1>1, TypeCorrect, PTL DEF Spec, OtNeverCosts

\* A later scan never costs anything, nor does an approved request on a weekday.
THEOREM NothingIsLost == Spec => EarnedNeverShrinks
BY NeverCostsToStay, OtIsFree, PTL DEF EarnedNeverShrinks

-----------------------------------------------------------------------------
(* The closed formula counts the ticks of the timeline. *)

\* Ticks from one instant to before another.
Span(from, to) == from..(to - 1)

LEMMA SpanLength ==
    ASSUME NEW a \in Int, NEW b \in Int
    PROVE  IsFiniteSet(Span(a, b)) /\ Cardinality(Span(a, b)) = MaxOf(0, b - a)
BY FS_Interval DEF Span, MaxOf

LEMMA SharedTicks ==
    ASSUME NEW a \in Int, NEW b \in Int, NEW c \in Int, NEW d \in Int
    PROVE  /\ Span(a, b) \cap Span(c, d) = Span(MaxOf(a, c), MinOf(b, d))
           /\ Cardinality(Span(a, b) \cap Span(c, d)) = Overlap(a, b, c, d)
<1>1. Span(a, b) \cap Span(c, d) = Span(MaxOf(a, c), MinOf(b, d))
  BY DEF Span, MaxOf, MinOf
<1>2. MaxOf(a, c) \in Int /\ MinOf(b, d) \in Int
  BY DEF MaxOf, MinOf
<1> QED
  BY <1>1, <1>2, SpanLength DEF Overlap

\* Ticks of a stay outside one break, and outside two that lie apart.
LEMMA OutsideBreak ==
    ASSUME NEW a \in Int, NEW b \in Int, NEW c \in Int, NEW d \in Int
    PROVE  /\ IsFiniteSet(Span(a, b) \ Span(c, d))
           /\ Cardinality(Span(a, b) \ Span(c, d)) = MaxOf(0, b - a) - Overlap(a, b, c, d)
<1>1. IsFiniteSet(Span(a, b)) /\ Cardinality(Span(a, b)) = MaxOf(0, b - a)
  BY SpanLength
<1>2. Cardinality(Span(a, b) \cap Span(c, d)) = Overlap(a, b, c, d)
  BY SharedTicks
<1>3. /\ IsFiniteSet(Span(a, b) \ Span(c, d))
      /\ Cardinality(Span(a, b) \ Span(c, d))
           = Cardinality(Span(a, b)) - Cardinality(Span(a, b) \cap Span(c, d))
  BY <1>1, FS_Difference
<1> QED
  BY <1>1, <1>2, <1>3

LEMMA OutsideBreaks ==
    ASSUME NEW a \in Int, NEW b \in Int, NEW c \in Int, NEW d \in Int,
           NEW e \in Int, NEW f \in Int, d <= e
    PROVE  Cardinality(Span(a, b) \ (Span(c, d) \cup Span(e, f)))
             = MaxOf(0, b - a) - Overlap(a, b, c, d) - Overlap(a, b, e, f)
<1> DEFINE rest == Span(a, b) \ Span(c, d)
<1>1. Span(a, b) \ (Span(c, d) \cup Span(e, f)) = rest \ Span(e, f)
  OBVIOUS
<1>2. rest \cap Span(e, f) = Span(a, b) \cap Span(e, f)
  BY DEF Span
<1>3. IsFiniteSet(rest) /\ Cardinality(rest) = MaxOf(0, b - a) - Overlap(a, b, c, d)
  <2>1. IsFiniteSet(Span(a, b)) /\ Cardinality(Span(a, b)) = MaxOf(0, b - a)
    BY SpanLength
  <2>2. Cardinality(Span(a, b) \cap Span(c, d)) = Overlap(a, b, c, d)
    BY SharedTicks
  <2>3. /\ IsFiniteSet(rest)
        /\ Cardinality(rest) = Cardinality(Span(a, b)) - Cardinality(Span(a, b) \cap Span(c, d))
    BY <2>1, FS_Difference
  <2> QED
    BY <2>1, <2>2, <2>3
<1>4. IsFiniteSet(Span(e, f))
  BY SpanLength
<1> HIDE DEF rest
<1>5. Cardinality(rest \ Span(e, f)) = Cardinality(rest) - Cardinality(rest \cap Span(e, f))
  BY <1>3, <1>4, FS_Difference
<1>6. Cardinality(Span(a, b) \cap Span(e, f)) = Overlap(a, b, e, f)
  BY SharedTicks
<1> QED
  BY <1>1, <1>2, <1>3, <1>5, <1>6

Worth == IF otApproved THEN Cardinality(Counted) ELSE MinOf(FullDay, Cardinality(Counted))

LEMMA CreditCounts ==
    ASSUME TypeOK, ~Displaced
    PROVE  Credit = Worth
<1>1. NoScan \notin Instants /\ FullDay \in Nat
  BY InstantBounds, Limits DEF NoScan
<1>2. CASE scanOut = NoScan
  <2>1. Counted = {} /\ Credit = 0
    BY <1>2 DEF Counted, Present, Credit
  <2>2. Cardinality(Counted) = 0
    BY <2>1, FS_EmptySet
  <2> QED
    BY <1>1, <2>1, <2>2 DEF Worth, MinOf
<1>4. CASE scanOut # NoScan /\ scanOut <= scanIn
  <2> DEFINE in == TimeOfDay(scanIn)
  <2> DEFINE out == TimeOfDay(scanOut)
  <2>1. scanIn \in Instants /\ scanOut \in Instants /\ otApproved \in BOOLEAN /\ isWeekend \in BOOLEAN
    BY <1>1, <1>4 DEF TypeOK
  <2>2. /\ scanIn \in Int /\ scanOut \in Int /\ T_0400 <= scanOut /\ scanOut <= scanIn /\ scanIn < Day
        /\ T_0400 \in Int /\ T_0800 \in Int /\ T_1830 \in Int /\ Day \in Int
    BY <1>4, <2>1, InstantBounds, Limits DEF Displaced
  <2>3. in = scanIn /\ out = scanOut
    BY <2>1, <2>2, TimeOfDayValue
  <2>4. Credit = StandardCredit(in, out, otApproved, isWeekend)
    BY <1>1, <1>4, <2>1 DEF Credit
  <2>5. EffectiveCheckout(in, out) = scanOut
    BY <2>2, <2>3 DEF EffectiveCheckout
  <2>6. Credit = 0
    <3>1. CASE otApproved
      BY <2>2, <2>3, <2>4, <2>5, <3>1 DEF StandardCredit, EarliestCounted
    <3>2. CASE isWeekend /\ ~otApproved
      BY <2>4, <3>2 DEF StandardCredit
    <3>3. CASE ~isWeekend /\ ~otApproved
      <4>1. MinOf(scanOut, T_1830) <= MaxOf(scanIn, T_0800)
        BY <2>2 DEF MinOf, MaxOf
      <4> QED
        BY <2>3, <2>4, <2>5, <3>3, <4>1 DEF StandardCredit, EarliestCounted
    <3> QED
      BY <3>1, <3>2, <3>3
  <2>7. Present = {}
    BY <1>4, <2>2 DEF Present
  <2>8. Counted = {}
    BY <2>7 DEF Counted
  <2>9. Cardinality(Counted) = 0
    BY <2>8, FS_EmptySet
  <2> QED
    BY <1>1, <2>6, <2>9 DEF Worth, MinOf
<1>3. CASE scanOut # NoScan /\ scanIn < scanOut
  <2> DEFINE i == scanIn
  <2> DEFINE o == scanOut
  <2> DEFINE in == TimeOfDay(i)
  <2> DEFINE until == EffectiveCheckout(in, TimeOfDay(o))
  <2> DEFINE shift == IF i < Day THEN 0 ELSE Day
  <2>1. i \in Instants /\ o \in Instants /\ otApproved \in BOOLEAN /\ isWeekend \in BOOLEAN
    BY <1>1, <1>3 DEF TypeOK
  <2>2. /\ i \in Int /\ o \in Int /\ T_0400 <= i /\ i < o /\ o < Day + T_0400
    BY <1>3, <2>1, InstantBounds
  <2>3. in = i - shift /\ until = o - shift /\ shift \in Int
    BY <2>1, <2>2, Limits, TimeOfDayValue, EffectiveCheckoutValue
  <2>4. Credit = StandardCredit(in, TimeOfDay(o), otApproved, isWeekend)
    BY <1>1, <1>3, <2>1 DEF Credit
  <2>5. Present = Span(i, o)
    BY <1>3 DEF Present, Span
  <2> HIDE DEF in, until, i, o
  <2>6. CASE otApproved
    <3> DEFINE Work(x, y) == y - x - Overlap(x, y, T_1200, T_1330) - Overlap(x, y, T_1830, T_2000)
    <3>1. Counted = Span(i, o) \ (Span(T_1200, T_1330) \cup Span(T_1830, T_2000))
      BY <2>5, <2>6 DEF Counted, Meal, Span
    <3>2. Cardinality(Counted) = MaxOf(0, o - i) - Overlap(i, o, T_1200, T_1330)
                                   - Overlap(i, o, T_1830, T_2000)
      BY <2>2, <3>1, Limits, OutsideBreaks
    <3>3. Cardinality(Counted) = Work(i, o)
      BY <2>2, <3>2 DEF MaxOf
    <3>4. Work(i, o) \in Nat /\ Work(in, until) = Work(i, o)
      BY <2>2, <2>3, Limits DEF Overlap, MaxOf, MinOf
    <3>5. Credit = IF until <= in \/ Work(in, until) <= 0 THEN 0 ELSE Work(in, until)
      BY <2>4, <2>6 DEF StandardCredit, EarliestCounted, Dinner, until
    <3> HIDE DEF Work
    <3> QED
      BY <2>2, <2>3, <2>6, <3>3, <3>4, <3>5 DEF Worth
  <2>7. CASE ~otApproved /\ isWeekend
    <3>1. Counted = {} /\ Credit = 0
      BY <2>4, <2>7 DEF Counted, StandardCredit
    <3>2. Cardinality(Counted) = 0
      BY <3>1, FS_EmptySet
    <3> QED
      BY <1>1, <2>7, <3>1, <3>2 DEF Worth, MinOf
  <2>8. CASE ~otApproved /\ ~isWeekend
    <3> DEFINE from == MaxOf(in, T_0800)
    <3> DEFINE to == MinOf(until, T_1830)
    <3> DEFINE first == MaxOf(i, T_0800)
    <3> DEFINE last == MinOf(o, T_1830)
    <3> DEFINE Work(x, y) == y - x - Overlap(x, y, T_1200, T_1330)
    <3>1. Counted = Span(first, last) \ Span(T_1200, T_1330)
      <4>1. Counted = (Span(i, o) \cap Span(T_0800, T_1830)) \ Span(T_1200, T_1330)
        BY <2>5, <2>8 DEF Counted, Meal, Span
      <4>2. Span(i, o) \cap Span(T_0800, T_1830) = Span(first, last)
        <5>1. T_0800 \in Int /\ T_1830 \in Int
          BY Limits
        <5> QED
          BY <2>2, <5>1 DEF Span, MaxOf, MinOf
      <4> QED
        BY <4>1, <4>2
    <3>2. first \in Int /\ last \in Int /\ from \in Int /\ to \in Int
      BY <2>2, <2>3, Limits DEF MaxOf, MinOf
    <3>3. Cardinality(Counted) = MaxOf(0, last - first) - Overlap(first, last, T_1200, T_1330)
      <4>1. T_1200 \in Int /\ T_1330 \in Int /\ T_1200 <= T_1330
        BY Limits
      <4> HIDE DEF first, last
      <4>2. Cardinality(Span(first, last) \ Span(T_1200, T_1330))
               = MaxOf(0, last - first) - Overlap(first, last, T_1200, T_1330)
        BY <3>2, <4>1, OutsideBreak
      <4> QED
        BY <3>1, <4>2
    <3>4. Credit = IF to <= from \/ Work(from, to) <= 0 THEN 0 ELSE MinOf(FullDay, Work(from, to))
      <4>1. Work(from, to) \in Int
        BY <3>2, Limits DEF Overlap, MaxOf, MinOf
      <4> QED
        BY <2>4, <2>8, <4>1 DEF StandardCredit, EarliestCounted, until
    <3>5. CASE i < Day
      <4>1. from = first /\ to = last
        BY <2>2, <2>3, <3>5
      <4>2. CASE first < last
        <5>1. Work(first, last) \in Nat /\ Cardinality(Counted) = Work(first, last)
          <6> HIDE DEF first, last
          <6> QED
            BY <3>2, <3>3, <4>2, Limits DEF Overlap, MaxOf, MinOf
        <5> HIDE DEF first, last, from, to, Work
        <5> QED
          BY <1>1, <2>8, <3>2, <3>4, <4>1, <4>2, <5>1 DEF Worth, MinOf
      <4>3. CASE last <= first
        <5>1. Cardinality(Counted) = 0
          <6> HIDE DEF first, last
          <6> QED
            BY <3>2, <3>3, <4>3, Limits DEF Overlap, MaxOf, MinOf
        <5>2. Credit = 0
          BY <3>4, <4>1, <4>3
        <5> QED
          BY <1>1, <2>8, <5>1, <5>2 DEF Worth, MinOf
      <4> QED
        BY <3>2, <4>2, <4>3
    <3>6. CASE ~(i < Day)
      <4>1. last <= first /\ to <= from
        BY <2>2, <2>3, <3>6, Limits DEF MaxOf, MinOf
      <4>2. Cardinality(Counted) = 0
        <5> HIDE DEF first, last
        <5> QED
          BY <3>2, <3>3, <4>1, Limits DEF Overlap, MaxOf, MinOf
      <4> QED
        BY <1>1, <2>8, <3>4, <4>1, <4>2 DEF Worth, MinOf
    <3> QED
      BY <3>5, <3>6
  <2> QED
    BY <2>1, <2>6, <2>7, <2>8
<1>5. scanOut # NoScan => scanIn \in Int /\ scanOut \in Int
  BY <1>1, InstantBounds DEF TypeOK
<1> QED
  BY <1>2, <1>3, <1>4, <1>5

\* The closed formula of computeStandardCredit, on times of day that wrap at
\* midnight, is worth exactly the ticks of the timeline that count, for every
\* length of a minute and every set of instants, checkouts before the check-in
\* included.
THEOREM CreditIsExact == Spec => CreditIsTimePresent
<1> DEFINE Exact == TypeOK /\ ~Displaced => Credit = Worth
<1>1. Exact
  BY CreditCounts
<1> HIDE DEF Exact
<1>2. Exact'
  BY <1>1, PTL
<1>3. TypeOK' =>
        (vars' # vars /\ ~Displaced' =>
           Credit' = IF otApproved' THEN Cardinality(Counted')
                     ELSE MinOf(FullDay, Cardinality(Counted')))
  BY <1>2 DEF Exact, Worth
<1> QED
  BY <1>3, TypeCorrect, PTL DEF Spec, CreditIsTimePresent

-----------------------------------------------------------------------------
(* Rounded figures. *)

LEMMA DivisionBounds ==
    ASSUME NEW d \in Nat \ {0}, NEW x \in Int
    PROVE  /\ x \div d \in Int
           /\ x < d <=> x \div d <= 0
           /\ x < 2 * d => x \div d <= 1
<1> DEFINE q == x \div d
<1>1. q \in Int /\ d * q <= x /\ x < d * q + d
  OBVIOUS
<1> HIDE DEF q
<1>2. q >= 1 => d * q >= d
  BY <1>1
<1>3. q >= 2 => d * q >= 2 * d
  BY <1>1
<1>4. q <= 0 => d * q <= 0
  BY <1>1
<1> QED
  BY <1>1, <1>2, <1>3, <1>4 DEF q

LEMMA RoundedValue ==
    ASSUME NEW x \in Int
    PROVE  /\ RoundedMinutes(x) \in Int
           /\ 2 * x < Minute <=> RoundedMinutes(x) <= 0
           /\ x < Minute => RoundedMinutes(x) <= 1
<1> DEFINE d == 2 * Minute
<1> DEFINE y == 2 * x + Minute
<1>1. d \in Nat \ {0} /\ y \in Int /\ Minute \in Nat
  BY Limits
<1>2. /\ y < d <=> 2 * x < Minute
      /\ x < Minute => y < 2 * d
  BY Limits
<1>3. RoundedMinutes(x) = y \div d
  BY DEF RoundedMinutes
<1> HIDE DEF d, y
<1>4. y \div d \in Int /\ (y < d <=> y \div d <= 0) /\ (y < 2 * d => y \div d <= 1)
  BY <1>1, DivisionBounds
<1> QED
  BY <1>2, <1>3, <1>4

LEMMA CreditType ==
    ASSUME TypeOK
    PROVE  Credit \in Nat
<1>1. CASE scanIn = NoScan \/ scanOut = NoScan
  BY <1>1 DEF Credit
<1>2. CASE ~(scanIn = NoScan \/ scanOut = NoScan)
  <2>1. TimeOfDay(scanIn) \in Nat /\ TimeOfDay(scanOut) \in Nat
    BY <1>2, TimeOfDayValue, InstantBounds, Limits DEF TypeOK
  <2>2. Credit = StandardCredit(TimeOfDay(scanIn), TimeOfDay(scanOut), otApproved, isWeekend)
    BY <1>2 DEF Credit
  <2> QED
    BY <2>1, <2>2, StandardCreditType DEF TypeOK
<1> QED
  BY <1>1, <1>2

LEMMA StatusMatches ==
    ASSUME TypeOK
    PROVE  MissingMinutesMatchStatus
<1> DEFINE x == FullDay - Credit
<1>1. Credit \in Nat /\ FullDay \in Nat /\ x \in Int /\ Minute \in Nat /\ Minute >= 1
  BY CreditType, Limits
<1>2. RoundedMinutes(x) \in Int /\ (2 * x < Minute <=> RoundedMinutes(x) <= 0)
  <2> HIDE DEF x
  <2> QED
    BY <1>1, RoundedValue
<1>3. ASSUME scanOut = NoScan PROVE Credit = 0
  BY <1>3 DEF Credit
<1>4. ASSUME scanIn # NoScan, scanOut # NoScan, ~(isWeekend /\ ~otApproved)
      PROVE  MissingMinutes = MaxOf(0, RoundedMinutes(x))
  BY <1>4 DEF MissingMinutes
<1>5. ASSUME Status = "COMPLETED" PROVE MissingMinutes = 0
  <2>1. scanIn # NoScan /\ ~(isWeekend /\ ~otApproved) /\ Credit >= FullDay
    BY <1>5 DEF Status
  <2>2. scanOut # NoScan
    BY <1>1, <1>3, <2>1, Limits
  <2>3. RoundedMinutes(x) <= 0
    BY <1>1, <1>2, <2>1
  <2> HIDE DEF x
  <2> QED
    BY <1>2, <1>4, <2>1, <2>2, <2>3 DEF MaxOf
<1>6. ASSUME Status = "SHORTHOURS", MissingMinutes = 0 PROVE 2 * (FullDay - Credit) < Minute
  <2>1. scanIn # NoScan /\ ~(isWeekend /\ ~otApproved)
    BY <1>6 DEF Status
  <2>2. CASE scanOut = NoScan
    <3>1. FullDay \div Minute = 0
      BY <1>6, <2>1, <2>2 DEF MissingMinutes
    <3>2. FullDay < Minute
      BY <1>1, <3>1, DivisionBounds
    <3> QED
      BY <1>1, <3>2, Limits
  <2>3. CASE scanOut # NoScan
    <3> HIDE DEF x
    <3>1. MaxOf(0, RoundedMinutes(x)) = 0
      BY <1>4, <1>6, <2>1, <2>3
    <3>2. 2 * x < Minute
      BY <1>2, <3>1 DEF MaxOf
    <3> QED
      BY <3>2 DEF x
  <2> QED
    BY <2>2, <2>3
<1> QED
  BY <1>5, <1>6 DEF MissingMinutesMatchStatus

\* From the end of the window on, what is missing is what the rounding of its
\* start has taken.
LEMMA WindowIsEnough ==
    ASSUME TypeOK
    PROVE  StayingToTheWindowsEnd
<1> SUFFICES ASSUME scanIn # NoScan, scanIn < T_0900, ~otApproved, ~isWeekend,
                    scanOut >= WorkEnd(scanIn)
             PROVE  /\ MissingMinutes <= 1
                    /\ scanOut >= WorkEnd(scanIn) + Minute => Status = "COMPLETED"
  <2>1. WorkEnd(scanIn) \in Int /\ scanOut \in Int /\ Minute \in Nat
    <3>1. scanIn \in Int /\ scanOut \in Int
      BY InstantBounds DEF TypeOK, NoScan
    <3>2. scanIn % Minute \in Int
      BY <3>1, Limits
    <3> QED
      BY <3>1, <3>2, Limits DEF WorkEnd, T_1730, LunchSpan, Hour
  <2>2. scanOut >= WorkEnd(scanIn) + Minute => scanOut >= WorkEnd(scanIn)
    BY <2>1
  <2> QED
    BY <2>2 DEF StayingToTheWindowsEnd
<1> DEFINE i == scanIn
<1> DEFINE o == scanOut
<1> DEFINE r == i % Minute
<1>1. i \in Instants /\ i \in Int /\ T_0400 <= i /\ i < T_0900
  BY InstantBounds DEF TypeOK
<1>2. r \in Nat /\ r < Minute
  BY <1>1, Limits
<1>3. /\ T_0900 = 540 * Minute /\ T_1730 = 1050 * Minute /\ LunchSpan = 90 * Minute
  BY Limits DEF T_0900, T_1730, LunchSpan, Hour
<1>4. o # NoScan
  <2>1. WorkEnd(i) \in Int /\ WorkEnd(i) > 0 /\ o >= WorkEnd(i)
    BY <1>1, <1>2, <1>3, Limits DEF WorkEnd
  <2> QED
    BY <2>1 DEF NoScan
<1>5. o \in Instants /\ o \in Int /\ o < Day + T_0400 /\ i < o /\ i < Day
  <2>1. o \in Instants
    BY <1>4 DEF TypeOK
  <2>2. i < WorkEnd(i) /\ WorkEnd(i) \in Int
    BY <1>1, <1>2, <1>3, Limits DEF WorkEnd
  <2> QED
    BY <1>1, <1>3, <2>1, <2>2, InstantBounds, Limits
<1>6. TimeOfDay(i) = i /\ EffectiveCheckout(i, TimeOfDay(o)) = o
  <2>1. TimeOfDay(i) = i
    BY <1>1, <1>5, TimeOfDayValue
  <2>2. EffectiveCheckout(TimeOfDay(i), TimeOfDay(o)) = o
    BY <1>1, <1>5, EffectiveCheckoutValue
  <2> QED
    BY <2>1, <2>2
<1> DEFINE from == MaxOf(i, T_0800)
<1> DEFINE to == MinOf(o, T_1830)
<1> DEFINE work == to - from - Overlap(from, to, T_1200, T_1330)
<1>7. work \in Int /\ from \in Int /\ to \in Int
  BY <1>1, <1>5, Limits DEF Overlap, MaxOf, MinOf
<1>8. Credit = IF to <= from \/ work <= 0 THEN 0 ELSE MinOf(FullDay, work)
  <2>1. Credit = StandardCredit(i, TimeOfDay(o), otApproved, isWeekend)
    BY <1>4, <1>6 DEF Credit
  <2> QED
    BY <1>6, <1>7, <2>1 DEF StandardCredit, EarliestCounted
<1>9. /\ work >= FullDay - r
      /\ o >= WorkEnd(i) + Minute => work >= FullDay
  <2>1. CASE i < T_0800
    <3>1. o >= 1050 * Minute
      BY <1>3, <2>1 DEF WorkEnd
    <3>2. work >= FullDay
      BY <1>1, <1>5, <2>1, <3>1, Limits DEF Overlap, MaxOf, MinOf
    <3> HIDE DEF work
    <3> QED
      BY <1>2, <1>7, <3>2, Limits
  <2>2. CASE i >= T_0800
    <3>1. WorkEnd(i) = i - r + 570 * Minute
      BY <1>1, <1>2, <1>3, <2>2, Limits DEF WorkEnd
    <3>2. o >= i - r + 570 * Minute
      BY <3>1
    <3> HIDE DEF r
    <3>3. work >= FullDay - r
      BY <1>1, <1>2, <1>3, <1>5, <2>2, <3>2, Limits DEF Overlap, MaxOf, MinOf
    <3>4. o >= i - r + 570 * Minute + Minute => work >= FullDay
      BY <1>1, <1>2, <1>3, <1>5, <2>2, Limits DEF Overlap, MaxOf, MinOf
    <3> QED
      BY <3>1, <3>3, <3>4
  <2> QED
    BY <1>1, <2>1, <2>2, Limits
<1>10. from < to
  BY <1>1, <1>2, <1>3, <1>5, Limits DEF WorkEnd, MaxOf, MinOf
<1> HIDE DEF from, to, work, r, i, o
<1>11. /\ Credit \in Nat /\ FullDay \in Nat /\ FullDay - Credit < Minute
       /\ o >= WorkEnd(i) + Minute => Credit >= FullDay
  <2>1. FullDay \in Nat /\ FullDay > r /\ Minute \in Nat
    BY <1>2, Limits
  <2>2. work > 0 /\ Credit = MinOf(FullDay, work)
    BY <1>2, <1>7, <1>8, <1>9, <1>10, <2>1
  <2> QED
    BY <1>2, <1>7, <1>9, <2>1, <2>2 DEF MinOf
<1>12. MissingMinutes <= 1
  <2>1. MissingMinutes = MaxOf(0, RoundedMinutes(FullDay - Credit))
    BY <1>4 DEF MissingMinutes, o
  <2>2. RoundedMinutes(FullDay - Credit) \in Int /\ RoundedMinutes(FullDay - Credit) <= 1
    BY <1>11, RoundedValue
  <2> QED
    BY <2>1, <2>2 DEF MaxOf
<1>13. Credit >= FullDay => Status = "COMPLETED"
  BY DEF Status
<1> QED
  BY <1>11, <1>12, <1>13 DEF i, o

\* A full day misses no minutes, a short one only what rounding forgives, and
\* whoever stays to the end of the window that deriveWorkingWindow announces
\* misses at most a minute.
THEOREM RoundingIsHarmless == Spec => [](MissingMinutesMatchStatus /\ StayingToTheWindowsEnd)
<1>1. TypeOK => MissingMinutesMatchStatus /\ StayingToTheWindowsEnd
  BY StatusMatches, WindowIsEnough
<1> QED
  BY <1>1, TypeCorrect, PTL

-----------------------------------------------------------------------------
(* The month: Payroll. *)

Held == {"close", "save", "notify"}

\* A call goes on with somebody as long as it runs; those it is through with
\* have been told.
PaidInTurn ==
    \A p \in Publishers :
      /\ pub[p].pc \in Active => pub[p].todo # {} /\ {p} \X (pub[p].staff \ pub[p].todo) \subseteq told
      /\ pub[p].pc = "done" => {p} \X pub[p].staff \subseteq told

\* The current employee has a file from when it is opened and a row before
\* the notification; nobody loses either.
PaidBeforeTold ==
    /\ \A p \in Publishers :
         /\ pub[p].pc \in Held => pdf[Current(p)] # NoPay
         /\ pub[p].pc = "notify" => rec[Current(p)] # NoPay
    /\ \A pe \in told : rec[pe[2]] # NoPay /\ pdf[pe[2]] # NoPay

\* A clean call writes alone, and its file is ready when it saves the row; any
\* other has torn what it writes.
WritesAlone ==
    \A p \in Publishers : \A e \in Staff : Writing(p, e) =>
      IF pub[p].clean
        THEN /\ \A q \in Publishers \ {p} : ~Writing(q, e)
             /\ pub[p].pc = "save" => pdf[e] = Amounts(p, e)
        ELSE e \in torn

\* What a call has read of whom nothing has moved since is still so, and an
\* OT request that was approved stays approved.
ReadIsCurrent ==
    \A p \in Publishers : pub[p].pc \in Active =>
      /\ \A e \in pub[p].staff \ pub[p].moved :
           /\ pub[p].rates[e] = rate[e]
           /\ e = Live /\ pub[p].pc # "rows" => pub[p].in = scanIn /\ pub[p].out = scanOut
           /\ e = Live /\ pub[p].pc \notin {"rows", "ot"} => pub[p].ot = otApproved
      /\ pub[p].ot => otApproved

FreshIsUntouched == \A e \in fresh : \A p \in Publishers : ~Writing(p, e)

\* Half of the payslip is on the page and the store still has it.
PayslipLoads ==
    view.kind = "payslip" /\ ~view.crossed =>
      /\ view.pc \in {"record", "file"} =>
           /\ Live \notin torn /\ \A p \in Publishers : ~Writing(p, Live)
      /\ view.pc = "file" => view.rec = rec[Live]
      /\ view.pc = "record" => view.pdf = pdf[Live]
      /\ view.pc = "done" => view.rec = view.pdf

\* What the summary has read is still so.
SummaryLoads ==
    view.kind = "summary" /\ ~view.crossed =>
      /\ view.in = scanIn /\ view.out = scanOut
      /\ view.pc = "done" => view.workday = Summed(scanIn, scanOut, otApproved)

\* The inductive invariant.
PayInv ==
    /\ TypeOK /\ PayTypeOK /\ PaidInTurn /\ PaidBeforeTold /\ WritesAlone
    /\ ReadIsCurrent /\ FreshIsUntouched /\ PayslipLoads /\ SummaryLoads
    /\ PayslipMatchesFile /\ UndisturbedPayIsExact /\ OvertimeIsApproved

-----------------------------------------------------------------------------
(* Amounts. *)

LEMMA NearestType ==
    ASSUME NEW a \in Nat, NEW b \in Nat \ {0}
    PROVE  Nearest(a, b) \in Nat
<1> DEFINE d == 2 * b
<1> DEFINE x == 2 * a + b
<1>1. d \in Nat \ {0} /\ x \in Nat
  OBVIOUS
<1>2. Nearest(a, b) = x \div d
  BY DEF Nearest
<1> HIDE DEF d, x
<1> QED
  BY <1>1, <1>2

\* A full day is worth 1.0 and less is worth less.
LEMMA NearestOfADay ==
    ASSUME NEW c \in Nat, c <= FullDay
    PROVE  Nearest(10000 * c, FullDay) <= 10000
<1> DEFINE d == 2 * FullDay
<1> DEFINE n == Nearest(10000 * c, FullDay)
<1>1. FullDay \in Nat \ {0} /\ d \in Nat \ {0}
  BY Limits
<1>2. n \in Nat
  BY <1>1, NearestType
<1>3. n = (2 * (10000 * c) + FullDay) \div d
  BY DEF Nearest
<1>4. d * n <= 2 * (10000 * c) + FullDay
  <2> DEFINE x == 2 * (10000 * c) + FullDay
  <2>1. x \in Nat /\ n = x \div d
    BY <1>1, <1>3
  <2> HIDE DEF x, n, d
  <2>2. d * n <= x
    BY <1>1, <2>1
  <2> QED
    BY <2>2 DEF x
<1> HIDE DEF n
<1>5. d * n <= 20001 * FullDay
  BY <1>1, <1>2, <1>4
<1>6. SUFFICES ASSUME n >= 10001 PROVE FALSE
  BY <1>2 DEF n
<1>7. d * n >= d * 10001
  BY <1>1, <1>2, <1>6
<1> QED
  BY <1>1, <1>2, <1>5, <1>7

LEMMA WorkdayType ==
    ASSUME TypeOK, NEW in \in Scans, NEW out \in Scans, NEW ot \in BOOLEAN
    PROVE  /\ Workday(in, out, ot) \in Nat
           /\ ~ot => Workday(in, out, ot) <= 10000
<1>1. CASE in = NoScan \/ out = NoScan
  BY <1>1 DEF Workday
<1>2. CASE ~(in = NoScan \/ out = NoScan)
  <2> DEFINE credit == StandardCredit(TimeOfDay(in), TimeOfDay(out), ot, isWeekend)
  <2>1. TimeOfDay(in) \in Nat /\ TimeOfDay(out) \in Nat
    BY <1>2, TimeOfDayValue, InstantBounds, Limits DEF Scans
  <2>2. credit \in Nat
    BY <2>1, StandardCreditType DEF TypeOK
  <2>3. ASSUME ~ot PROVE credit <= FullDay
    <3>1. \A x, y \in Int : MinOf(x, y) <= x
      BY DEF MinOf
    <3> QED
      BY <2>3, <2>2, <3>1, Limits DEF StandardCredit, MinOf
  <2>4. Workday(in, out, ot) = Nearest(10000 * credit, FullDay)
    BY <1>2 DEF Workday
  <2>5. FullDay \in Nat \ {0}
    BY Limits
  <2> HIDE DEF credit
  <2> QED
    BY <2>2, <2>3, <2>4, <2>5, NearestType, NearestOfADay
<1> QED
  BY <1>1, <1>2

LEMMA TotalWorkdayType ==
    ASSUME TypeOK, NEW e \in Staff, NEW in \in Scans, NEW out \in Scans, NEW ot \in BOOLEAN
    PROVE  /\ TotalWorkday(e, in, out, ot) \in Nat
           /\ ~ot => TotalWorkday(e, in, out, ot) <= Rest[e] + 10000
BY WorkdayType, RestAssumption DEF TotalWorkday

LEMMA PayType ==
    ASSUME NEW total \in Nat, NEW r \in Nat
    PROVE  Pay(total, r) \in Pays /\ Pay(total, r) # NoPay
<1> DEFINE hours == Nearest(8 * total, 100)
<1>1. hours \in Nat
  BY NearestType
<1>2. Pay(total, r) = [hours |-> hours, salary |-> Nearest(hours * r, 100)]
  BY DEF Pay
<1> HIDE DEF hours
<1>3. Nearest(hours * r, 100) \in Nat
  <2>1. hours * r \in Nat
    BY <1>1
  <2> QED
    BY <2>1, NearestType
<1> QED
  BY <1>1, <1>2, <1>3 DEF Pays, NoPay

LEMMA AmountsType ==
    ASSUME TypeOK, PayTypeOK, NEW p \in Publishers, NEW e \in Staff
    PROVE  Amounts(p, e) \in Pays /\ Amounts(p, e) # NoPay
<1>1. /\ pub[p].in \in Scans /\ pub[p].out \in Scans /\ pub[p].ot \in BOOLEAN
      /\ pub[p].rates[e] \in Nat
  BY DEF PayTypeOK, Pubs
<1> QED
  BY <1>1, TotalWorkdayType, PayType DEF Amounts

\* Without an approved request a payslip has at most the hours of the rest
\* of the month and of a full day.
LEMMA AmountsWithoutOt ==
    ASSUME TypeOK, PayTypeOK, NEW p \in Publishers, ~pub[p].ot
    PROVE  Amounts(p, Live).hours <= 800 + Nearest(8 * Rest[Live], 100)
<1> DEFINE total == TotalWorkday(Live, pub[p].in, pub[p].out, pub[p].ot)
<1>1. /\ pub[p].in \in Scans /\ pub[p].out \in Scans /\ pub[p].ot \in BOOLEAN
  BY DEF PayTypeOK, Pubs
<1>2. total \in Nat /\ total <= Rest[Live] + 10000 /\ Rest[Live] \in Nat
  BY <1>1, TotalWorkdayType, StaffAssumption, RestAssumption
<1>3. Amounts(p, Live).hours = Nearest(8 * total, 100)
  BY DEF Amounts, Pay
<1> HIDE DEF total
<1> QED
  BY <1>2, <1>3 DEF Nearest

LEMMA LeastStaff ==
    ASSUME PayTypeOK, NEW p \in Publishers, pub[p].todo # {}
    PROVE  Current(p) \in pub[p].todo /\ Current(p) \in pub[p].staff /\ Current(p) \in Staff
<1>1. pub[p].todo \subseteq pub[p].staff /\ pub[p].staff \subseteq Staff
  BY DEF PayTypeOK, Pubs
<1>2. pub[p].todo \in SUBSET Nat
  BY <1>1, StaffAssumption
<1>3. PICK x \in pub[p].todo : \A y \in pub[p].todo : ~(<<y, x>> \in OpToRel(<, Nat))
  BY <1>2, NatLessThanWellFounded, WFMin
<1>4. ASSUME NEW y \in pub[p].todo PROVE x <= y
  <2>1. x \in Nat /\ y \in Nat
    BY <1>2
  <2>2. ~(y < x)
    BY <1>3, <2>1 DEF OpToRel
  <2> QED
    BY <2>1, <2>2
<1>5. Current(p) \in pub[p].todo
  BY <1>4 DEF Current
<1> QED
  BY <1>1, <1>5

-----------------------------------------------------------------------------
(* What changes while the month is published. *)

LEMMA SameCall ==
    ASSUME NEW p \in Publishers, pub'[p].todo = pub[p].todo
    PROVE  /\ Current(p)' = Current(p)
           /\ pub'[p].pc = pub[p].pc => \A e : Writing(p, e)' <=> Writing(p, e)
BY DEF Current, Writing

LEMMA SameAmounts ==
    ASSUME NEW p \in Publishers, NEW e,
           pub'[p].in = pub[p].in, pub'[p].out = pub[p].out, pub'[p].ot = pub[p].ot,
           pub'[p].rates = pub[p].rates, isWeekend' = isWeekend
    PROVE  Amounts(p, e)' = Amounts(p, e)
BY DEF Amounts, Pay, TotalWorkday, Workday

LEMMA SameWorth ==
    ASSUME NEW e, rate'[e] = rate[e], isWeekend' = isWeekend,
           e = Live => scanIn' = scanIn /\ scanOut' = scanOut /\ otApproved' = otApproved
    PROVE  AmountsNow(e)' = AmountsNow(e)
<1>1. TotalWorkday(e, scanIn, scanOut, otApproved)' = TotalWorkday(e, scanIn, scanOut, otApproved)
  BY DEF TotalWorkday, Workday
<1> QED
  BY <1>1 DEF AmountsNow, Pay

\* A change of what e is paid for marks the calls and the summary, no more.
LEMMA TouchMarks ==
    ASSUME PayTypeOK, NEW e \in Staff, Touch(e)
    PROVE  /\ fresh' = fresh \ {e} /\ fresh' \subseteq Staff
           /\ pub' \in [Publishers -> Pubs]
           /\ \A p \in Publishers :
                /\ pub'[p].pc = pub[p].pc /\ pub'[p].staff = pub[p].staff
                /\ pub'[p].todo = pub[p].todo /\ pub'[p].rates = pub[p].rates
                /\ pub'[p].in = pub[p].in /\ pub'[p].out = pub[p].out
                /\ pub'[p].ot = pub[p].ot /\ pub'[p].clean = pub[p].clean
                /\ pub'[p].moved \subseteq pub[p].staff
                /\ pub[p].moved \subseteq pub'[p].moved
                /\ pub[p].pc \in Active /\ e \in pub[p].staff => e \in pub'[p].moved
           /\ view' \in Views
           /\ view.kind = "summary" => view'.kind = "summary" /\ view'.crossed
           /\ view.kind # "summary" => view' = view
<1>1. pub \in [Publishers -> Pubs] /\ \A p \in Publishers : pub[p].moved \subseteq pub[p].staff
  BY DEF PayTypeOK
<1>2. \A p \in Publishers : pub[p] \in Pubs /\ [pub[p] EXCEPT !.moved = @ \cup ({e} \cap pub[p].staff)] \in Pubs
  BY <1>1 DEF Pubs
<1>3. pub' = [p \in Publishers |-> IF pub[p].pc \in Active THEN [pub[p] EXCEPT !.moved = @ \cup ({e} \cap pub[p].staff)]
                                                            ELSE pub[p]]
  BY DEF Touch
<1>4. ASSUME NEW p \in Publishers
      PROVE  /\ pub'[p].pc = pub[p].pc /\ pub'[p].staff = pub[p].staff
             /\ pub'[p].todo = pub[p].todo /\ pub'[p].rates = pub[p].rates
             /\ pub'[p].in = pub[p].in /\ pub'[p].out = pub[p].out
             /\ pub'[p].ot = pub[p].ot /\ pub'[p].clean = pub[p].clean
             /\ pub'[p].moved \subseteq pub[p].staff
             /\ pub[p].moved \subseteq pub'[p].moved
             /\ pub[p].pc \in Active /\ e \in pub[p].staff => e \in pub'[p].moved
  BY <1>1, <1>2, <1>3 DEF Pubs
<1>5. fresh' = fresh \ {e} /\ fresh' \subseteq Staff
  BY DEF Touch, PayTypeOK
<1>6. /\ view' \in Views
      /\ view.kind = "summary" => view'.kind = "summary" /\ view'.crossed
      /\ view.kind # "summary" => view' = view
  BY DEF Touch, PayTypeOK, Views
<1>7. pub' \in [Publishers -> Pubs]
  BY <1>2, <1>3
<1> QED
  BY <1>4, <1>5, <1>6, <1>7

\* Every step of the month is a step of the day of Live or none, and takes no
\* approval back.
LEMMA DayGoesOn ==
    ASSUME [PayNext]_allVars
    PROVE  /\ [Next]_vars /\ isWeekend' = isWeekend
           /\ TypeOK /\ otApproved => otApproved'
<1>1. Next => isWeekend' = isWeekend /\ (otApproved => otApproved')
  BY DEF Next, ScanIn, ScanOut, Explain, ApproveOt
<1>2. UNCHANGED vars => [Next]_vars /\ isWeekend' = isWeekend /\ otApproved' = otApproved
  BY DEF vars
<1>3. CASE DayStep
  <2>1. Next
    BY <1>3, EndsAreInstants DEF DayStep, Next
  <2> QED
    BY <1>1, <2>1
<1>4. ASSUME ~DayStep PROVE UNCHANGED vars
  BY <1>4 DEF PayNext, allVars, SetRate, Deactivate, Begin, Publish, ReadRows, ReadOt, OpenPdf,
             ClosePdf, SaveRow, Notify, FailPublication, OpenPayslip, FetchRecord, FetchFile,
             OpenSummary, CloseSummary
<1> QED
  BY <1>1, <1>2, <1>3, <1>4

\* A change of what e is paid for keeps the invariant.
LEMMA TouchKeeps ==
    ASSUME PayInv, [PayNext]_allVars, NEW e \in Staff, Touch(e),
           UNCHANGED <<active, storeVars, torn>>, events' \in 0..MaxEvents,
           rate' \in [Staff -> Rates], \A x \in Staff \ {e} : rate'[x] = rate[x],
           e # Live => UNCHANGED vars
    PROVE  PayInv'
<1> USE DEF PayInv
<1>1. /\ fresh' = fresh \ {e} /\ fresh' \subseteq Staff
      /\ pub' \in [Publishers -> Pubs]
      /\ \A p \in Publishers :
           /\ pub'[p].pc = pub[p].pc /\ pub'[p].staff = pub[p].staff
           /\ pub'[p].todo = pub[p].todo /\ pub'[p].rates = pub[p].rates
           /\ pub'[p].in = pub[p].in /\ pub'[p].out = pub[p].out
           /\ pub'[p].ot = pub[p].ot /\ pub'[p].clean = pub[p].clean
           /\ pub'[p].moved \subseteq pub[p].staff
           /\ pub[p].moved \subseteq pub'[p].moved
           /\ pub[p].pc \in Active /\ e \in pub[p].staff => e \in pub'[p].moved
      /\ view' \in Views
      /\ view.kind = "summary" => view'.kind = "summary" /\ view'.crossed
      /\ view.kind # "summary" => view' = view
  BY TouchMarks
<1>2. /\ pdf' = pdf /\ rec' = rec /\ told' = told /\ torn' = torn /\ active' = active
  BY DEF storeVars
<1>3. isWeekend' = isWeekend /\ (otApproved => otApproved') /\ TypeOK'
  BY DayGoesOn, DayKeepsType
<1>4. \A p \in Publishers : Current(p)' = Current(p) /\ \A x : Writing(p, x)' <=> Writing(p, x)
  BY <1>1, SameCall
<1>5. \A p \in Publishers, x \in Staff : Amounts(p, x)' = Amounts(p, x)
  BY <1>1, <1>3, SameAmounts
<1>6. \A x \in Staff \ {e} : AmountsNow(x)' = AmountsNow(x)
  <2> SUFFICES ASSUME NEW x \in Staff \ {e} PROVE AmountsNow(x)' = AmountsNow(x)
    OBVIOUS
  <2>1. x = Live => scanIn' = scanIn /\ scanOut' = scanOut /\ otApproved' = otApproved
    BY DEF vars
  <2> QED
    BY <2>1, <1>3, SameWorth
<1>7. PayTypeOK'
  BY <1>1, <1>2 DEF PayTypeOK
<1>8. PaidInTurn'
  BY <1>1, <1>2 DEF PaidInTurn
<1>9. PaidBeforeTold'
  BY <1>1, <1>2, <1>4 DEF PaidBeforeTold
<1>10. WritesAlone'
  BY <1>1, <1>2, <1>4, <1>5 DEF WritesAlone
<1>11. ReadIsCurrent'
  <2> SUFFICES ASSUME NEW p \in Publishers, pub'[p].pc \in Active
               PROVE  /\ \A x \in pub'[p].staff \ pub'[p].moved :
                           /\ pub'[p].rates[x] = rate'[x]
                           /\ x = Live /\ pub'[p].pc # "rows" => pub'[p].in = scanIn' /\ pub'[p].out = scanOut'
                           /\ x = Live /\ pub'[p].pc \notin {"rows", "ot"} => pub'[p].ot = otApproved'
                      /\ pub'[p].ot => otApproved'
    BY DEF ReadIsCurrent
  <2>1. pub[p].pc \in Active
    BY <1>1
  <2>2. pub'[p].ot => otApproved'
    BY <1>1, <1>3, <2>1 DEF ReadIsCurrent
  <2>3. ASSUME NEW x \in pub'[p].staff \ pub'[p].moved
        PROVE  /\ pub'[p].rates[x] = rate'[x]
               /\ x = Live /\ pub'[p].pc # "rows" => pub'[p].in = scanIn' /\ pub'[p].out = scanOut'
               /\ x = Live /\ pub'[p].pc \notin {"rows", "ot"} => pub'[p].ot = otApproved'
    <3>1. x \in pub[p].staff \ pub[p].moved /\ x # e /\ x \in Staff
      BY <1>1, <2>1, <2>3 DEF PayTypeOK, Pubs
    <3>2. rate'[x] = rate[x] /\ (x = Live => scanIn' = scanIn /\ scanOut' = scanOut /\ otApproved' = otApproved)
      BY <3>1 DEF vars
    <3>3. /\ pub[p].rates[x] = rate[x]
          /\ x = Live /\ pub[p].pc # "rows" => pub[p].in = scanIn /\ pub[p].out = scanOut
          /\ x = Live /\ pub[p].pc \notin {"rows", "ot"} => pub[p].ot = otApproved
      BY <2>1, <3>1 DEF ReadIsCurrent
    <3> QED
      BY <1>1, <3>2, <3>3
  <2> QED
    BY <2>2, <2>3
<1>12. FreshIsUntouched'
  BY <1>1, <1>4 DEF FreshIsUntouched
<1>13. PayslipLoads'
  BY <1>1, <1>2, <1>4 DEF PayslipLoads
<1>14. SummaryLoads'
  <2>1. view'.kind = "summary" => view'.crossed
    BY <1>1
  <2> QED
    BY <2>1 DEF SummaryLoads
<1>15. PayslipMatchesFile'
  BY <1>2, <1>4 DEF PayslipMatchesFile
<1>16. UndisturbedPayIsExact'
  BY <1>1, <1>2, <1>6 DEF UndisturbedPayIsExact, PayTypeOK
<1>17. OvertimeIsApproved'
  BY <1>2, <1>3 DEF OvertimeIsApproved
<1> QED
  BY <1>3, <1>7, <1>8, <1>9, <1>10, <1>11, <1>12, <1>13, <1>14, <1>15, <1>16, <1>17

LEMMA DayStepKeeps ==
    ASSUME PayInv, DayStep
    PROVE  PayInv'
<1>1. Touch(Live) /\ UNCHANGED <<staffVars, storeVars, torn>>
  BY DEF DayStep
<1>2. rate' \in [Staff -> Rates] /\ \A x \in Staff \ {Live} : rate'[x] = rate[x]
  BY <1>1 DEF staffVars, PayInv, PayTypeOK
<1>3. events' \in 0..MaxEvents
  BY PaidAssumption DEF DayStep, Event, PayInv, PayTypeOK
<1>4. [PayNext]_allVars /\ Live \in Staff
  BY StaffAssumption DEF PayNext
<1> QED
  BY <1>1, <1>2, <1>3, <1>4, TouchKeeps DEF staffVars

LEMMA SetRateKeeps ==
    ASSUME PayInv, NEW e \in Raised, SetRate(e)
    PROVE  PayInv'
<1>1. e \in Staff /\ Touch(e) /\ UNCHANGED <<vars, active, storeVars, torn>>
  BY RestAssumption DEF SetRate
<1>2. rate' \in [Staff -> Rates] /\ \A x \in Staff \ {e} : rate'[x] = rate[x]
  BY <1>1 DEF SetRate, PayInv, PayTypeOK
<1>3. events' \in 0..MaxEvents
  BY PaidAssumption DEF SetRate, Event, PayInv, PayTypeOK
<1>4. [PayNext]_allVars
  BY DEF PayNext
<1> QED
  BY <1>1, <1>2, <1>3, <1>4, TouchKeeps

-----------------------------------------------------------------------------
(* Readers, and steps that change no call and no store. *)

LEMMA ReadingKeeps ==
    ASSUME PayInv, [PayNext]_allVars, UNCHANGED <<vars, rate, storeVars, pub, torn, fresh>>,
           active' \in [Staff -> BOOLEAN], events' \in 0..MaxEvents,
           view' \in Views, PayslipLoads', SummaryLoads'
    PROVE  PayInv'
<1> USE DEF PayInv
<1>1. /\ pdf' = pdf /\ rec' = rec /\ told' = told /\ torn' = torn /\ rate' = rate /\ pub' = pub
      /\ scanIn' = scanIn /\ scanOut' = scanOut /\ otApproved' = otApproved /\ isWeekend' = isWeekend
      /\ fresh' = fresh
  BY DEF storeVars, vars
<1>2. TypeOK'
  BY DayGoesOn, DayKeepsType
<1>3. \A p \in Publishers : Current(p)' = Current(p) /\ \A x : Writing(p, x)' <=> Writing(p, x)
  BY <1>1, SameCall
<1>4. \A p \in Publishers, x \in Staff : Amounts(p, x)' = Amounts(p, x)
  BY <1>1, SameAmounts
<1>5. \A x \in Staff : AmountsNow(x)' = AmountsNow(x)
  BY <1>1, SameWorth
<1>6. PayTypeOK'
  BY <1>1 DEF PayTypeOK
<1>7. PaidInTurn' /\ PaidBeforeTold'
  BY <1>1, <1>3 DEF PaidInTurn, PaidBeforeTold
<1>8. WritesAlone'
  BY <1>1, <1>3, <1>4 DEF WritesAlone
<1>9. ReadIsCurrent'
  BY <1>1 DEF ReadIsCurrent
<1>10. FreshIsUntouched' /\ PayslipMatchesFile'
  BY <1>1, <1>3 DEF FreshIsUntouched, PayslipMatchesFile
<1>11. UndisturbedPayIsExact'
  BY <1>1, <1>5 DEF UndisturbedPayIsExact, PayTypeOK
<1>12. OvertimeIsApproved'
  BY <1>1 DEF OvertimeIsApproved
<1> QED
  BY <1>2, <1>6, <1>7, <1>8, <1>9, <1>10, <1>11, <1>12

LEMMA DeactivateKeeps ==
    ASSUME PayInv, NEW e \in Leaving, Deactivate(e)
    PROVE  PayInv'
<1> USE DEF PayInv, Deactivate
<1>1. [PayNext]_allVars
  BY DEF PayNext
<1>2. active' \in [Staff -> BOOLEAN] /\ events' \in 0..MaxEvents /\ view' \in Views
  <2>1. active \in [Staff -> BOOLEAN] /\ events \in 0..MaxEvents /\ view \in Views
    BY DEF PayTypeOK
  <2>2. active' = [active EXCEPT ![e] = FALSE] /\ view' = view
    BY DEF Deactivate
  <2>3. events' \in 0..MaxEvents
    BY <2>1, PaidAssumption DEF Deactivate, Event
  <2> QED
    BY <2>1, <2>2, <2>3
<1>3. \A p \in Publishers : \A x : Writing(p, x)' <=> Writing(p, x)
  BY SameCall
<1>4. PayslipLoads'
  BY <1>3 DEF PayslipLoads, storeVars
<1>5. SummaryLoads'
  BY DEF SummaryLoads, vars, Summed, TotalWorkday, Workday
<1> QED
  BY <1>1, <1>2, <1>4, <1>5, ReadingKeeps

LEMMA ReaderKeeps ==
    ASSUME PayInv, OpenPayslip \/ FetchRecord \/ FetchFile \/ OpenSummary \/ CloseSummary
    PROVE  PayInv'
<1> USE DEF PayInv
<1>1. [PayNext]_allVars
  BY DEF PayNext
<1>2. UNCHANGED <<vars, staffVars, storeVars, pub, torn, fresh>> /\ events' \in 0..MaxEvents
  BY PaidAssumption DEF OpenPayslip, FetchRecord, FetchFile, OpenSummary, CloseSummary, Event, PayTypeOK
<1>3. active' \in [Staff -> BOOLEAN]
  BY <1>2 DEF staffVars, PayTypeOK
<1>4. /\ scanIn' = scanIn /\ scanOut' = scanOut /\ otApproved' = otApproved /\ isWeekend' = isWeekend
      /\ pdf' = pdf /\ rec' = rec /\ torn' = torn
  BY <1>2 DEF vars, storeVars
<1>5. \A p \in Publishers : \A x : Writing(p, x)' <=> Writing(p, x)
  BY <1>2, SameCall
<1>6. Summed(scanIn, scanOut, otApproved)' = Summed(scanIn, scanOut, otApproved)
  BY <1>4 DEF Summed, TotalWorkday, Workday
<1>7. rec[Live] \in Pays /\ pdf[Live] \in Pays /\ scanIn \in Scans /\ scanOut \in Scans
      /\ view \in Views
  BY StaffAssumption DEF PayTypeOK, TypeOK, Scans
<1>8. NoView \in Views
  BY DEF NoView, Views, NoPay, Pays, Scans
<1>9. CASE OpenPayslip
  <2>1. view' \in Views /\ view'.kind = "payslip" /\ view'.pc = "both"
    BY <1>8, <1>9 DEF OpenPayslip, NoView, Views
  <2>2. PayslipLoads' /\ SummaryLoads'
    BY <2>1 DEF PayslipLoads, SummaryLoads
  <2> QED
    BY <1>1, <1>2, <1>3, <2>1, <2>2, ReadingKeeps DEF staffVars
<1>10. CASE FetchRecord
  <2>1. /\ view' \in Views /\ view'.kind = "payslip" /\ view'.rec = rec[Live] /\ view'.pdf = view.pdf
        /\ view'.crossed <=> view.crossed \/ Disturbed
        /\ view.pc \in {"both", "record"} /\ view'.pc = IF view.pc = "both" THEN "file" ELSE "done"
    BY <1>7, <1>10 DEF FetchRecord, Views
  <2>2. SummaryLoads'
    BY <2>1 DEF SummaryLoads
  <2>3. PayslipLoads'
    <3> SUFFICES ASSUME ~view'.crossed
                 PROVE  /\ Live \notin torn' /\ \A p \in Publishers : ~Writing(p, Live)'
                        /\ view'.pc = "done" => view'.rec = view'.pdf
                        /\ view'.pc # "record" /\ view'.rec = rec'[Live]
      BY <2>1 DEF PayslipLoads
    <3>1. ~view.crossed /\ Live \notin torn /\ \A p \in Publishers : ~Writing(p, Live)
      BY <2>1 DEF Disturbed
    <3>2. rec[Live] = pdf[Live]
      BY <3>1, StaffAssumption DEF PayslipMatchesFile
    <3>3. view.kind = "payslip"
      BY <1>10 DEF FetchRecord
    <3>4. view.pc = "record" => view.pdf = pdf[Live]
      BY <3>1, <3>3 DEF PayslipLoads
    <3> QED
      BY <1>4, <1>5, <2>1, <3>1, <3>2, <3>4
  <2> QED
    BY <1>1, <1>2, <1>3, <2>1, <2>2, <2>3, ReadingKeeps DEF staffVars
<1>11. CASE FetchFile
  <2>1. /\ view' \in Views /\ view'.kind = "payslip" /\ view'.pdf = pdf[Live] /\ view'.rec = view.rec
        /\ view'.crossed <=> view.crossed \/ Disturbed
        /\ view.pc \in {"both", "file"} /\ view'.pc = IF view.pc = "both" THEN "record" ELSE "done"
    BY <1>7, <1>11 DEF FetchFile, Views
  <2>2. SummaryLoads'
    BY <2>1 DEF SummaryLoads
  <2>3. PayslipLoads'
    <3> SUFFICES ASSUME ~view'.crossed
                 PROVE  /\ Live \notin torn' /\ \A p \in Publishers : ~Writing(p, Live)'
                        /\ view'.pc = "done" => view'.rec = view'.pdf
                        /\ view'.pc # "file" /\ view'.pdf = pdf'[Live]
      BY <2>1 DEF PayslipLoads
    <3>1. ~view.crossed /\ Live \notin torn /\ \A p \in Publishers : ~Writing(p, Live)
      BY <2>1 DEF Disturbed
    <3>2. rec[Live] = pdf[Live]
      BY <3>1, StaffAssumption DEF PayslipMatchesFile
    <3>3. view.kind = "payslip"
      BY <1>11 DEF FetchFile
    <3>4. view.pc = "file" => view.rec = rec[Live]
      BY <3>1, <3>3 DEF PayslipLoads
    <3> QED
      BY <1>4, <1>5, <2>1, <3>1, <3>2, <3>4
  <2> QED
    BY <1>1, <1>2, <1>3, <2>1, <2>2, <2>3, ReadingKeeps DEF staffVars
<1>12. CASE OpenSummary
  <2>1. /\ view' \in Views /\ view'.kind = "summary" /\ view'.pc = "ot"
        /\ view'.in = scanIn /\ view'.out = scanOut
    BY <1>7, <1>8, <1>12 DEF OpenSummary, NoView, Views
  <2>2. PayslipLoads' /\ SummaryLoads'
    BY <1>4, <2>1 DEF PayslipLoads, SummaryLoads
  <2> QED
    BY <1>1, <1>2, <1>3, <2>1, <2>2, ReadingKeeps DEF staffVars
<1>13. CASE CloseSummary
  <2>1. Summed(view.in, view.out, otApproved) \in Nat
    <3>1. view.in \in Scans /\ view.out \in Scans /\ otApproved \in BOOLEAN
      BY <1>7 DEF Views, TypeOK
    <3>2. TotalWorkday(Live, view.in, view.out, otApproved) \in Nat
      BY <3>1, TotalWorkdayType, StaffAssumption
    <3> QED
      BY <3>2, NearestType DEF Summed
  <2>2. /\ view' \in Views /\ view'.kind = "summary" /\ view'.pc = "done"
        /\ view'.in = view.in /\ view'.out = view.out /\ view'.crossed = view.crossed
        /\ view'.workday = Summed(view.in, view.out, otApproved) /\ view.kind = "summary"
    BY <1>7, <1>13, <2>1 DEF CloseSummary, Views
  <2>3. PayslipLoads' /\ SummaryLoads'
    BY <1>4, <1>6, <2>2 DEF PayslipLoads, SummaryLoads
  <2> QED
    BY <1>1, <1>2, <1>3, <2>2, <2>3, ReadingKeeps DEF staffVars
<1> QED
  BY <1>9, <1>10, <1>11, <1>12, <1>13

-----------------------------------------------------------------------------
(* Steps of a call beside the file and the row. *)

Unchanged(p) == \A q \in Publishers \ {p} : pub'[q] = pub[q]

LEMMA OtherCalls ==
    ASSUME NEW p \in Publishers, Unchanged(p), NEW q \in Publishers \ {p}
    PROVE  /\ pub'[q] = pub[q] /\ Current(q)' = Current(q)
           /\ \A e : Writing(q, e)' <=> Writing(q, e)
           /\ isWeekend' = isWeekend => \A e : Amounts(q, e)' = Amounts(q, e)
<1>1. pub'[q] = pub[q]
  BY DEF Unchanged
<1> QED
  BY <1>1, SameCall, SameAmounts

LEMMA CallKeeps ==
    ASSUME PayInv, [PayNext]_allVars, NEW p \in Publishers, Unchanged(p),
           pub[p].pc \notin {"close", "save"}, pub'[p].pc \notin {"close", "save"},
           UNCHANGED <<vars, staffVars, pdf, rec, view, torn, fresh>>
    PROVE  /\ TypeOK' /\ WritesAlone' /\ FreshIsUntouched' /\ PayslipLoads' /\ SummaryLoads'
           /\ PayslipMatchesFile' /\ UndisturbedPayIsExact' /\ OvertimeIsApproved'
<1> USE DEF PayInv
<1>1. /\ pdf' = pdf /\ rec' = rec /\ torn' = torn /\ rate' = rate /\ fresh' = fresh /\ view' = view
      /\ scanIn' = scanIn /\ scanOut' = scanOut /\ otApproved' = otApproved /\ isWeekend' = isWeekend
  BY DEF staffVars, vars
<1>2. TypeOK'
  BY DayGoesOn, DayKeepsType
<1>3. \A q \in Publishers : \A x : Writing(q, x)' <=> Writing(q, x)
  <2>1. \A x : ~Writing(p, x)' /\ ~Writing(p, x)
    BY DEF Writing
  <2> QED
    BY <2>1, OtherCalls
<1>4. WritesAlone'
  <2> SUFFICES ASSUME NEW q \in Publishers, NEW e \in Staff, Writing(q, e)'
               PROVE  IF pub'[q].clean
                        THEN /\ \A r \in Publishers \ {q} : ~Writing(r, e)'
                             /\ pub'[q].pc = "save" => pdf'[e] = Amounts(q, e)'
                        ELSE e \in torn'
    BY DEF WritesAlone
  <2>1. q # p
    BY DEF Writing
  <2>2. pub'[q] = pub[q] /\ Amounts(q, e)' = Amounts(q, e)
    BY <1>1, <2>1, OtherCalls
  <2>3. Writing(q, e) /\ \A r \in Publishers \ {q} : Writing(r, e)' <=> Writing(r, e)
    BY <1>3
  <2> QED
    BY <1>1, <2>2, <2>3 DEF WritesAlone
<1>5. FreshIsUntouched' /\ PayslipMatchesFile'
  BY <1>1, <1>3 DEF FreshIsUntouched, PayslipMatchesFile
<1>6. PayslipLoads'
  BY <1>1, <1>3 DEF PayslipLoads
<1>7. SummaryLoads'
  <2>1. Summed(scanIn, scanOut, otApproved)' = Summed(scanIn, scanOut, otApproved)
    BY <1>1 DEF Summed, TotalWorkday, Workday
  <2> QED
    BY <1>1, <2>1 DEF SummaryLoads
<1>8. UndisturbedPayIsExact'
  <2>1. \A x \in Staff : AmountsNow(x)' = AmountsNow(x)
    BY <1>1, SameWorth
  <2> QED
    BY <1>1, <2>1 DEF UndisturbedPayIsExact, PayTypeOK
<1>9. OvertimeIsApproved'
  BY <1>1 DEF OvertimeIsApproved
<1> QED
  BY <1>2, <1>4, <1>5, <1>6, <1>7, <1>8, <1>9

\* The reads: what is read is current.
LEMMA ReadsKeep ==
    ASSUME PayInv, NEW p \in Publishers, Begin(p) \/ ReadRows(p) \/ ReadOt(p)
    PROVE  PayInv'
<1> USE DEF PayInv
<1>1. [PayNext]_allVars
  BY DEF PayNext, Publish
<1>2. UNCHANGED <<vars, staffVars, storeVars, view, torn, fresh, events>>
  BY DEF Begin, ReadRows, ReadOt
<1>3. pub \in [Publishers -> Pubs] /\ pub[p] \in Pubs /\ rate \in [Staff -> Nat]
      /\ scanIn \in Scans /\ scanOut \in Scans /\ otApproved \in BOOLEAN
  BY RestAssumption DEF PayTypeOK, TypeOK, Scans
<1>4. /\ pub' \in [Publishers -> Pubs] /\ Unchanged(p)
      /\ pub[p].pc \in {"idle", "rows", "ot"} /\ pub'[p].pc \in {"rows", "ot", "write"}
      /\ pub'[p].todo \cup pub'[p].moved \subseteq pub'[p].staff
      /\ pub'[p].todo # {} /\ {p} \X (pub'[p].staff \ pub'[p].todo) \subseteq told
      /\ \A e \in pub'[p].staff \ pub'[p].moved :
           /\ pub'[p].rates[e] = rate[e]
           /\ e = Live /\ pub'[p].pc # "rows" => pub'[p].in = scanIn /\ pub'[p].out = scanOut
           /\ e = Live /\ pub'[p].pc \notin {"rows", "ot"} => pub'[p].ot = otApproved
      /\ pub'[p].ot => otApproved
  <2>1. CASE Begin(p)
    <3> DEFINE staff == {e \in Staff : active[e]}
    <3> DEFINE call == [NoPub EXCEPT !.pc = "rows", !.staff = staff, !.rates = rate, !.todo = staff]
    <3>1. staff # {} /\ pub' = [pub EXCEPT ![p] = call] /\ pub[p].pc = "idle"
      BY <2>1 DEF Begin
    <3>2. /\ call \in Pubs /\ call.pc = "rows" /\ call.staff = staff /\ call.todo = staff /\ call.moved = {}
          /\ call.rates = rate /\ call.ot = FALSE
      BY <1>3 DEF NoPub, Pubs, Scans, Active
    <3> HIDE DEF staff, call
    <3>3. pub'[p] = call /\ pub' \in [Publishers -> Pubs] /\ Unchanged(p)
      BY <1>3, <3>1, <3>2 DEF Unchanged
    <3> QED
      BY <3>1, <3>2, <3>3
  <2>2. CASE ReadRows(p)
    <3>1. /\ pub'[p] = [pub[p] EXCEPT !.pc = "ot", !.in = scanIn, !.out = scanOut]
          /\ pub' = [pub EXCEPT ![p] = pub'[p]] /\ pub[p].pc = "rows"
      BY <1>3, <2>2 DEF ReadRows
    <3>2. /\ pub'[p] \in Pubs /\ pub'[p].pc = "ot" /\ pub'[p].staff = pub[p].staff
          /\ pub'[p].todo = pub[p].todo /\ pub'[p].moved = pub[p].moved /\ pub'[p].rates = pub[p].rates
          /\ pub'[p].in = scanIn /\ pub'[p].out = scanOut /\ pub'[p].ot = pub[p].ot
      BY <1>3, <3>1 DEF Pubs, Active
    <3>3. pub' \in [Publishers -> Pubs] /\ Unchanged(p)
      BY <1>3, <3>1, <3>2 DEF Unchanged
    <3>4. pub[p].pc \in Active /\ pub[p].todo \cup pub[p].moved \subseteq pub[p].staff
      BY <3>1 DEF Active, PayTypeOK
    <3> QED
      BY <3>1, <3>2, <3>3, <3>4 DEF PaidInTurn, ReadIsCurrent
  <2>3. CASE ReadOt(p)
    <3>1. /\ pub'[p] = [pub[p] EXCEPT !.pc = "write", !.ot = otApproved]
          /\ pub' = [pub EXCEPT ![p] = pub'[p]] /\ pub[p].pc = "ot"
      BY <1>3, <2>3 DEF ReadOt
    <3>2. /\ pub'[p] \in Pubs /\ pub'[p].pc = "write" /\ pub'[p].staff = pub[p].staff
          /\ pub'[p].todo = pub[p].todo /\ pub'[p].moved = pub[p].moved /\ pub'[p].rates = pub[p].rates
          /\ pub'[p].in = pub[p].in /\ pub'[p].out = pub[p].out /\ pub'[p].ot = otApproved
      BY <1>3, <3>1 DEF Pubs, Active
    <3>3. pub' \in [Publishers -> Pubs] /\ Unchanged(p)
      BY <1>3, <3>1, <3>2 DEF Unchanged
    <3>4. pub[p].pc \in Active /\ pub[p].todo \cup pub[p].moved \subseteq pub[p].staff
      BY <3>1 DEF Active, PayTypeOK
    <3> QED
      BY <3>1, <3>2, <3>3, <3>4 DEF PaidInTurn, ReadIsCurrent
  <2> QED
    BY <2>1, <2>2, <2>3
<1>5. /\ told' = told /\ pdf' = pdf /\ rec' = rec /\ rate' = rate
      /\ scanIn' = scanIn /\ scanOut' = scanOut /\ otApproved' = otApproved
  BY <1>2 DEF storeVars, staffVars, vars
<1>6. PayTypeOK'
  BY <1>2, <1>4 DEF PayTypeOK, staffVars, storeVars, Unchanged
<1>7. PaidInTurn'
  <2>1. pub'[p].pc # "done"
    BY <1>4
  <2> QED
    BY <1>4, <1>5, <2>1 DEF PaidInTurn, Unchanged
<1>8. PaidBeforeTold'
  <2>1. pub'[p].pc \notin Held
    BY <1>4 DEF Held
  <2> QED
    BY <1>4, <1>5, <2>1, OtherCalls DEF PaidBeforeTold, Held
<1>9. ReadIsCurrent'
  BY <1>4, <1>5 DEF ReadIsCurrent, Unchanged
<1>10. /\ TypeOK' /\ WritesAlone' /\ FreshIsUntouched' /\ PayslipLoads' /\ SummaryLoads'
       /\ PayslipMatchesFile' /\ UndisturbedPayIsExact' /\ OvertimeIsApproved'
  <2>1. pub[p].pc \notin {"close", "save"} /\ pub'[p].pc \notin {"close", "save"}
    BY <1>4
  <2> QED
    BY <1>1, <1>2, <1>4, <2>1, CallKeeps DEF storeVars
<1> QED
  BY <1>6, <1>7, <1>8, <1>9, <1>10

LEMMA NotifyKeeps ==
    ASSUME PayInv, NEW p \in Publishers, Notify(p)
    PROVE  PayInv'
<1> DEFINE e == Current(p)
<1> USE DEF PayInv
<1>1. [PayNext]_allVars
  BY DEF PayNext, Publish
<1>2. /\ UNCHANGED <<vars, staffVars, pdf, rec, view, torn, fresh, events>>
      /\ told' = told \cup {<<p, e>>} /\ pub[p].pc = "notify"
  BY DEF Notify, Announced
<1>3. pub \in [Publishers -> Pubs] /\ pub[p] \in Pubs
  BY DEF PayTypeOK
<1>4. /\ pub[p].todo # {} /\ {p} \X (pub[p].staff \ pub[p].todo) \subseteq told
      /\ pub[p].todo \cup pub[p].moved \subseteq pub[p].staff
  BY <1>2 DEF PaidInTurn, Active, PayTypeOK
<1>5. e \in pub[p].todo /\ e \in Staff
  BY <1>4, LeastStaff
<1> HIDE DEF e
<1>6. /\ pub'[p] = [pub[p] EXCEPT !.pc = IF pub[p].todo = {e} THEN "done" ELSE "write", !.todo = @ \ {e}]
      /\ pub' = [pub EXCEPT ![p] = pub'[p]]
  BY <1>3 DEF Notify, e
<1>7. /\ pub'[p] \in Pubs /\ pub'[p].staff = pub[p].staff /\ pub'[p].todo = pub[p].todo \ {e}
      /\ pub'[p].moved = pub[p].moved /\ pub'[p].rates = pub[p].rates
      /\ pub'[p].in = pub[p].in /\ pub'[p].out = pub[p].out /\ pub'[p].ot = pub[p].ot
      /\ pub'[p].pc = (IF pub[p].todo = {e} THEN "done" ELSE "write")
  BY <1>3, <1>6 DEF Pubs, Active
<1>8. pub' \in [Publishers -> Pubs] /\ Unchanged(p)
  BY <1>3, <1>6, <1>7 DEF Unchanged
<1>9. PayTypeOK'
  BY <1>2, <1>4, <1>5, <1>7, <1>8 DEF PayTypeOK, staffVars, Unchanged
<1>10. PaidInTurn'
  <2>1. pub'[p].pc \in Active => pub'[p].todo # {} /\ {p} \X (pub'[p].staff \ pub'[p].todo) \subseteq told'
    BY <1>2, <1>4, <1>5, <1>7 DEF Active
  <2>2. pub'[p].pc = "done" => {p} \X pub'[p].staff \subseteq told'
    BY <1>2, <1>4, <1>5, <1>7
  <2>3. \A q \in Publishers \ {p} : pub'[q] = pub[q]
    BY <1>8 DEF Unchanged
  <2> QED
    BY <1>2, <2>1, <2>2, <2>3 DEF PaidInTurn
<1>11. PaidBeforeTold'
  <2>1. pub'[p].pc \notin Held
    BY <1>7 DEF Held
  <2>2. rec[e] # NoPay /\ pdf[e] # NoPay
    BY <1>2 DEF PaidBeforeTold, Held, e
  <2>3. \A q \in Publishers \ {p} : pub'[q] = pub[q] /\ Current(q)' = Current(q)
    BY <1>8, OtherCalls
  <2> QED
    BY <1>2, <2>1, <2>2, <2>3 DEF PaidBeforeTold, Held
<1>12. ReadIsCurrent'
  <2>1. /\ pub[p].pc = "notify" /\ rate' = rate
        /\ scanIn' = scanIn /\ scanOut' = scanOut /\ otApproved' = otApproved
    BY <1>2 DEF staffVars, vars
  <2> QED
    BY <1>7, <1>8, <2>1 DEF ReadIsCurrent, Unchanged, Active
<1>13. /\ TypeOK' /\ WritesAlone' /\ FreshIsUntouched' /\ PayslipLoads' /\ SummaryLoads'
       /\ PayslipMatchesFile' /\ UndisturbedPayIsExact' /\ OvertimeIsApproved'
  <2>1. pub[p].pc \notin {"close", "save"} /\ pub'[p].pc \notin {"close", "save"}
    BY <1>2, <1>7
  <2> QED
    BY <1>1, <1>2, <1>8, <2>1, CallKeeps
<1> QED
  BY <1>9, <1>10, <1>11, <1>12, <1>13

-----------------------------------------------------------------------------
(* The file and the row. *)

\* Whoever is paid by a call that runs.
LEMMA CurrentIsPaid ==
    ASSUME PayInv, NEW p \in Publishers, pub[p].pc \in Active
    PROVE  Current(p) \in pub[p].todo /\ Current(p) \in pub[p].staff /\ Current(p) \in Staff
BY LeastStaff DEF PayInv, PaidInTurn

\* What stays when only the progress of calls, files, rows and marks change.
LEMMA StoreKeeps ==
    ASSUME PayInv, [PayNext]_allVars, UNCHANGED <<vars, staffVars, told>>,
           \A q \in Publishers :
             /\ pub'[q].staff = pub[q].staff /\ pub'[q].todo = pub[q].todo
             /\ pub'[q].moved = pub[q].moved /\ pub'[q].rates = pub[q].rates
             /\ pub'[q].in = pub[q].in /\ pub'[q].out = pub[q].out /\ pub'[q].ot = pub[q].ot
             /\ pub'[q].pc # pub[q].pc =>
                  pub[q].pc \in Active \ {"rows", "ot"} /\ pub'[q].pc \in {"close", "save", "notify", "failed"},
           pub' \in [Publishers -> Pubs], pdf' \in [Staff -> Pays], rec' \in [Staff -> Pays],
           view' \in Views, torn' \subseteq Staff, fresh' \subseteq Staff, events' \in 0..MaxEvents,
           view'.kind = view.kind, view'.pc = view.pc, view'.in = view.in, view'.out = view.out,
           view'.workday = view.workday, view.crossed => view'.crossed
    PROVE  /\ TypeOK' /\ PayTypeOK' /\ PaidInTurn' /\ ReadIsCurrent' /\ SummaryLoads'
           /\ \A q \in Publishers : Current(q)' = Current(q) /\ \A x : Amounts(q, x)' = Amounts(q, x)
           /\ \A x \in Staff : AmountsNow(x)' = AmountsNow(x)
<1> USE DEF PayInv
<1>1. /\ rate' = rate /\ active' = active /\ told' = told
      /\ scanIn' = scanIn /\ scanOut' = scanOut /\ otApproved' = otApproved /\ isWeekend' = isWeekend
  BY DEF staffVars, vars
<1>2. TypeOK'
  BY DayGoesOn, DayKeepsType
<1>3. PayTypeOK'
  BY <1>1 DEF PayTypeOK
<1>4. PaidInTurn'
  BY <1>1 DEF PaidInTurn, Active
<1>5. ReadIsCurrent'
  BY <1>1 DEF ReadIsCurrent, Active
<1>6. SummaryLoads'
  <2>1. Summed(scanIn, scanOut, otApproved)' = Summed(scanIn, scanOut, otApproved)
    BY <1>1 DEF Summed, TotalWorkday, Workday
  <2> QED
    BY <1>1, <2>1 DEF SummaryLoads
<1>7. \A q \in Publishers : Current(q)' = Current(q) /\ \A x : Amounts(q, x)' = Amounts(q, x)
  BY <1>1, SameCall, SameAmounts
<1>8. \A x \in Staff : AmountsNow(x)' = AmountsNow(x)
  BY <1>1, SameWorth
<1> QED
  BY <1>2, <1>3, <1>4, <1>5, <1>6, <1>7, <1>8

\* What an open payslip sees of e.
LEMMA CrossingMarks ==
    ASSUME PayInv, NEW e \in Staff, view' = Crossing(e)
    PROVE  /\ view' \in Views /\ view'.kind = view.kind /\ view'.pc = view.pc
           /\ view'.in = view.in /\ view'.out = view.out /\ view'.workday = view.workday
           /\ view'.rec = view.rec /\ view'.pdf = view.pdf
           /\ view.crossed => view'.crossed
           /\ view.kind = "payslip" /\ view.pc # "done" /\ e = Live => view'.crossed
BY DEF Crossing, PayInv, PayTypeOK, Views

LEMMA OpenPdfKeeps ==
    ASSUME PayInv, NEW p \in Publishers, OpenPdf(p)
    PROVE  PayInv'
<1> DEFINE e == Current(p)
<1> DEFINE others == {q \in Publishers \ {p} : Writing(q, e)}
<1> USE DEF PayInv
<1>1. [PayNext]_allVars
  BY DEF PayNext, Publish
<1>2. /\ pub[p].pc = "write"
      /\ pdf' = [pdf EXCEPT ![e] = Partial]
      /\ pub' = [q \in Publishers |-> IF q = p THEN [pub[q] EXCEPT !.pc = "close", !.clean = others = {}]
                                      ELSE IF q \in others THEN [pub[q] EXCEPT !.clean = FALSE]
                                      ELSE pub[q]]
      /\ torn' = IF others = {} THEN torn ELSE torn \cup {e}
      /\ fresh' = fresh \ {e} /\ view' = Crossing(e)
      /\ UNCHANGED <<vars, staffVars, rec, told, events>>
  BY DEF OpenPdf
<1>3. e \in Staff
  BY <1>2, CurrentIsPaid DEF Active
<1> HIDE DEF e, others
<1>4. /\ pub \in [Publishers -> Pubs] /\ pdf \in [Staff -> Pays] /\ rec \in [Staff -> Pays]
      /\ torn \subseteq Staff /\ fresh \subseteq Staff /\ Partial \in Pays /\ Partial # NoPay
  BY DEF PayTypeOK, Partial, NoPay, Pays
<1>5. ASSUME NEW q \in Publishers
      PROVE  /\ pub'[q] \in Pubs
             /\ pub'[q].staff = pub[q].staff /\ pub'[q].todo = pub[q].todo
             /\ pub'[q].moved = pub[q].moved /\ pub'[q].rates = pub[q].rates
             /\ pub'[q].in = pub[q].in /\ pub'[q].out = pub[q].out /\ pub'[q].ot = pub[q].ot
             /\ pub'[q].pc = (IF q = p THEN "close" ELSE pub[q].pc)
             /\ pub'[q].clean <=> IF q = p THEN others = {} ELSE q \notin others /\ pub[q].clean
  <2>1. /\ pub[q] \in Pubs /\ q \in others => [pub[q] EXCEPT !.clean = FALSE] \in Pubs
        /\ [pub[q] EXCEPT !.pc = "close", !.clean = others = {}] \in Pubs
    BY <1>4 DEF Pubs, Active
  <2>2. pub'[q] = IF q = p THEN [pub[q] EXCEPT !.pc = "close", !.clean = others = {}]
                  ELSE IF q \in others THEN [pub[q] EXCEPT !.clean = FALSE]
                  ELSE pub[q]
    BY <1>2
  <2>3. CASE q = p
    BY <1>4, <2>1, <2>2, <2>3 DEF Pubs
  <2>4. CASE q # p /\ q \in others
    BY <1>4, <2>1, <2>2, <2>4 DEF Pubs
  <2>5. CASE q # p /\ q \notin others
    BY <1>4, <2>1, <2>2, <2>5 DEF Pubs
  <2> QED
    BY <2>3, <2>4, <2>5
<1>6. pub' \in [Publishers -> Pubs]
  BY <1>2, <1>5
<1>7. /\ view' \in Views /\ view'.kind = view.kind /\ view'.pc = view.pc
      /\ view'.in = view.in /\ view'.out = view.out /\ view'.workday = view.workday
      /\ view'.rec = view.rec /\ view'.pdf = view.pdf
      /\ view.crossed => view'.crossed
      /\ view.kind = "payslip" /\ view.pc # "done" /\ e = Live => view'.crossed
  BY <1>2, <1>3, CrossingMarks
<1>8. /\ TypeOK' /\ PayTypeOK' /\ PaidInTurn' /\ ReadIsCurrent' /\ SummaryLoads'
      /\ \A q \in Publishers : Current(q)' = Current(q) /\ \A x : Amounts(q, x)' = Amounts(q, x)
      /\ \A x \in Staff : AmountsNow(x)' = AmountsNow(x)
  <2>1. \A q \in Publishers : pub'[q].pc # pub[q].pc => pub[q].pc \in Active \ {"rows", "ot"} /\ pub'[q].pc = "close"
    <3> SUFFICES ASSUME NEW q \in Publishers, pub'[q].pc # pub[q].pc
                 PROVE  pub[q].pc \in Active \ {"rows", "ot"} /\ pub'[q].pc = "close"
      OBVIOUS
    <3>1. q = p /\ pub'[q].pc = "close"
      BY <1>5
    <3> QED
      BY <1>2, <3>1 DEF Active
  <2>2. pdf' \in [Staff -> Pays] /\ rec' \in [Staff -> Pays] /\ torn' \subseteq Staff /\ fresh' \subseteq Staff
        /\ events' \in 0..MaxEvents
    BY <1>2, <1>3, <1>4 DEF PayTypeOK
  <2> QED
    BY <1>1, <1>2, <1>5, <1>6, <1>7, <2>1, <2>2, StoreKeeps
<1>9. /\ \A x : Writing(p, x)' <=> x = e
      /\ \A x : ~Writing(p, x)
      /\ \A q \in Publishers \ {p} : \A x : Writing(q, x)' <=> Writing(q, x)
  BY <1>2, <1>5, <1>8 DEF Writing, e
<1>10. /\ \A x \in Staff \ {e} : pdf'[x] = pdf[x]
       /\ pdf'[e] = Partial /\ rec' = rec /\ told' = told
  BY <1>2, <1>3, <1>4
<1>11. PaidBeforeTold'
  <2>1. \A x \in Staff : pdf[x] # NoPay => pdf'[x] # NoPay
    BY <1>4, <1>10
  <2>2. pdf'[e] # NoPay
    BY <1>4, <1>10
  <2>3. ASSUME NEW q \in Publishers
        PROVE  /\ pub'[q].pc \in Held => pdf'[Current(q)'] # NoPay
               /\ pub'[q].pc = "notify" => rec'[Current(q)'] # NoPay
    <3>1. CASE q = p
      BY <1>5, <1>8, <2>2, <3>1 DEF e
    <3>2. CASE q # p
      <4>1. pub[q].pc \in Held => Current(q) \in Staff
        BY CurrentIsPaid DEF Held, Active
      <4> QED
        BY <1>5, <1>8, <1>10, <2>1, <3>2, <4>1 DEF PaidBeforeTold, Held
    <3> QED
      BY <3>1, <3>2
  <2>4. \A pe \in told : pe[2] \in Staff
    BY DEF PayTypeOK
  <2> QED
    BY <1>10, <2>1, <2>3, <2>4 DEF PaidBeforeTold
<1>12. WritesAlone'
  <2> SUFFICES ASSUME NEW q \in Publishers, NEW x \in Staff, Writing(q, x)'
               PROVE  IF pub'[q].clean
                        THEN /\ \A r \in Publishers \ {q} : ~Writing(r, x)'
                             /\ pub'[q].pc = "save" => pdf'[x] = Amounts(q, x)'
                        ELSE x \in torn'
    BY DEF WritesAlone
  <2>1. CASE q = p
    <3>1. x = e /\ pub'[q].pc = "close" /\ (pub'[q].clean <=> others = {})
      BY <1>5, <1>9, <2>1
    <3>2. ASSUME others = {}, NEW r \in Publishers \ {q} PROVE ~Writing(r, x)'
      <4>1. r \notin others /\ r \in Publishers \ {p}
        BY <2>1, <3>2
      <4>2. ~Writing(r, x)
        BY <3>1, <4>1 DEF others
      <4> QED
        BY <1>9, <4>1, <4>2
    <3>3. others # {} => e \in torn'
      BY <1>2
    <3>4. CASE others = {}
      <4>1. pub'[q].clean /\ pub'[q].pc # "save"
        BY <3>1, <3>4
      <4> QED
        BY <3>1, <3>2, <3>4, <4>1
    <3>5. CASE others # {}
      <4>1. ~pub'[q].clean
        BY <3>1, <3>5
      <4> QED
        BY <3>1, <3>3, <3>5, <4>1
    <3> QED
      BY <3>4, <3>5
  <2>2. CASE q # p /\ x = e
    <3>1. q \in others
      BY <1>9, <2>2 DEF others
    <3> QED
      BY <1>2, <1>5, <2>2, <3>1
  <2>3. CASE q # p /\ x # e
    <3>1. Writing(q, x) /\ q \notin others /\ \A r \in Publishers \ {q} : Writing(r, x)' => Writing(r, x)
      BY <1>9, <2>3 DEF others, Writing
    <3>2. pub'[q].clean = pub[q].clean /\ pub'[q].pc = pub[q].pc /\ pdf'[x] = pdf[x] /\ torn \subseteq torn'
      BY <1>2, <1>4, <1>5, <1>10, <2>3, <3>1
    <3> QED
      BY <1>8, <3>1, <3>2 DEF WritesAlone
  <2> QED
    BY <2>1, <2>2, <2>3
<1>13. FreshIsUntouched'
  BY <1>2, <1>9 DEF FreshIsUntouched
<1>14. PayslipMatchesFile'
  BY <1>2, <1>9, <1>10 DEF PayslipMatchesFile
<1>15. PayslipLoads'
  <2>1. torn' \subseteq torn \cup {e}
    BY <1>2
  <2> QED
    BY <1>7, <1>9, <1>10, <2>1, StaffAssumption DEF PayslipLoads
<1>16. UndisturbedPayIsExact'
  BY <1>2, <1>4, <1>8, <1>10 DEF UndisturbedPayIsExact
<1>17. OvertimeIsApproved'
  BY <1>2 DEF OvertimeIsApproved, vars
<1> QED
  BY <1>8, <1>11, <1>12, <1>13, <1>14, <1>15, <1>16, <1>17

LEMMA ClosePdfKeeps ==
    ASSUME PayInv, NEW p \in Publishers, ClosePdf(p)
    PROVE  PayInv'
<1> DEFINE e == Current(p)
<1> USE DEF PayInv
<1>1. [PayNext]_allVars
  BY DEF PayNext, Publish
<1>2. /\ pub[p].pc = "close" /\ pdf' = [pdf EXCEPT ![e] = Amounts(p, e)]
      /\ pub' = [pub EXCEPT ![p].pc = "save"]
      /\ UNCHANGED <<vars, staffVars, rec, told, view, torn, fresh, events>>
  BY DEF ClosePdf
<1>3. e \in Staff
  BY <1>2, CurrentIsPaid DEF Active
<1>4. /\ pub \in [Publishers -> Pubs] /\ pdf \in [Staff -> Pays]
      /\ Amounts(p, e) \in Pays /\ Amounts(p, e) # NoPay
  BY <1>3, AmountsType DEF PayTypeOK
<1> HIDE DEF e
<1>5. /\ pub' \in [Publishers -> Pubs]
      /\ \A q \in Publishers :
             /\ pub'[q].staff = pub[q].staff /\ pub'[q].todo = pub[q].todo
             /\ pub'[q].moved = pub[q].moved /\ pub'[q].rates = pub[q].rates
             /\ pub'[q].in = pub[q].in /\ pub'[q].out = pub[q].out /\ pub'[q].ot = pub[q].ot
             /\ pub'[q].clean = pub[q].clean
             /\ pub'[q].pc = (IF q = p THEN "save" ELSE pub[q].pc)
  <2>1. [pub[p] EXCEPT !.pc = "save"] \in Pubs
    BY <1>4 DEF Pubs, Active
  <2> QED
    BY <1>2, <1>4, <2>1 DEF Pubs
<1>6. /\ TypeOK' /\ PayTypeOK' /\ PaidInTurn' /\ ReadIsCurrent' /\ SummaryLoads'
      /\ \A q \in Publishers : Current(q)' = Current(q) /\ \A x : Amounts(q, x)' = Amounts(q, x)
      /\ \A x \in Staff : AmountsNow(x)' = AmountsNow(x)
  <2>1. \A q \in Publishers : pub'[q].pc # pub[q].pc => pub[q].pc \in Active \ {"rows", "ot"} /\ pub'[q].pc = "save"
    BY <1>2, <1>5 DEF Active
  <2>2. /\ pdf' \in [Staff -> Pays] /\ rec' \in [Staff -> Pays] /\ torn' \subseteq Staff /\ fresh' \subseteq Staff
        /\ events' \in 0..MaxEvents /\ view' \in Views
    BY <1>2, <1>3, <1>4 DEF PayTypeOK
  <2>3. /\ view'.kind = view.kind /\ view'.pc = view.pc /\ view'.in = view.in /\ view'.out = view.out
        /\ view'.workday = view.workday /\ view.crossed => view'.crossed
    BY <1>2
  <2> QED
    BY <1>1, <1>2, <1>5, <2>1, <2>2, <2>3, StoreKeeps
<1>7. \A q \in Publishers : \A x : Writing(q, x)' <=> Writing(q, x)
  BY <1>2, <1>5, <1>6 DEF Writing
<1>8. Writing(p, e)
  BY <1>2 DEF Writing, e
<1>9. /\ \A x \in Staff \ {e} : pdf'[x] = pdf[x]
      /\ pdf'[e] = Amounts(p, e) /\ rec' = rec /\ told' = told /\ torn' = torn /\ fresh' = fresh /\ view' = view
  BY <1>2, <1>3, <1>4
<1>10. PaidBeforeTold'
  <2>1. \A x \in Staff : pdf[x] # NoPay => pdf'[x] # NoPay
    BY <1>4, <1>9
  <2>2. ASSUME NEW q \in Publishers
        PROVE  /\ pub'[q].pc \in Held => pub[q].pc \in Held /\ Current(q) \in Staff
               /\ pub'[q].pc = "notify" => pub[q].pc = "notify"
    BY <1>2, <1>5, CurrentIsPaid DEF Held, Active
  <2>3. \A pe \in told : pe[2] \in Staff
    BY DEF PayTypeOK
  <2> QED
    BY <1>6, <1>9, <2>1, <2>2, <2>3 DEF PaidBeforeTold
<1>11. WritesAlone'
  <2> SUFFICES ASSUME NEW q \in Publishers, NEW x \in Staff, Writing(q, x)'
               PROVE  IF pub'[q].clean
                        THEN /\ \A r \in Publishers \ {q} : ~Writing(r, x)'
                             /\ pub'[q].pc = "save" => pdf'[x] = Amounts(q, x)'
                        ELSE x \in torn'
    BY DEF WritesAlone
  <2>1. Writing(q, x)
    BY <1>7
  <2>2. ASSUME pub[q].clean
        PROVE  /\ \A r \in Publishers \ {q} : ~Writing(r, x)
               /\ pub[q].pc = "save" => pdf[x] = Amounts(q, x)
    BY <2>1, <2>2 DEF WritesAlone
  <2>3. ~pub[q].clean => x \in torn
    BY <2>1 DEF WritesAlone
  <2>4. CASE q = p
    <3>1. x = e
      BY <2>1, <2>4 DEF Writing, e
    <3> QED
      BY <1>5, <1>6, <1>7, <1>9, <2>2, <2>3, <2>4, <3>1
  <2>5. CASE q # p
    <3>1. pub[q].clean => x # e
      BY <1>8, <2>2, <2>5
    <3> QED
      BY <1>5, <1>6, <1>7, <1>9, <2>2, <2>3, <2>5, <3>1
  <2> QED
    BY <2>4, <2>5
<1>12. FreshIsUntouched' /\ e \notin fresh
  BY <1>7, <1>8, <1>9 DEF FreshIsUntouched
<1>13. PayslipMatchesFile'
  BY <1>7, <1>8, <1>9 DEF PayslipMatchesFile
<1>14. PayslipLoads'
  BY <1>7, <1>8, <1>9, StaffAssumption DEF PayslipLoads
<1>15. UndisturbedPayIsExact'
  <2>1. \A x \in fresh : x \in Staff
    BY DEF PayTypeOK
  <2> QED
    BY <1>6, <1>9, <1>12, <2>1 DEF UndisturbedPayIsExact
<1>16. OvertimeIsApproved'
  BY <1>2 DEF OvertimeIsApproved, vars
<1> QED
  BY <1>6, <1>10, <1>11, <1>12, <1>13, <1>14, <1>15, <1>16

LEMMA SaveRowKeeps ==
    ASSUME PayInv, NEW p \in Publishers, SaveRow(p)
    PROVE  PayInv'
<1> USE DEF PayInv
<1>1. PICK e : e = Current(p)
  OBVIOUS
<1>2. /\ pub[p].pc = "save" /\ rec' = [rec EXCEPT ![e] = Amounts(p, e)]
      /\ torn' = (IF pub[p].clean THEN torn \ {e} ELSE torn)
      /\ fresh' = (IF pub[p].clean /\ e \notin pub[p].moved THEN fresh \cup {e} ELSE fresh \ {e})
      /\ view' = Crossing(e)
      /\ pub' = [pub EXCEPT ![p].pc = "notify"]
      /\ UNCHANGED <<vars, staffVars, pdf, told, events>>
  BY <1>1 DEF SaveRow, Upserted
<1>3. e \in Staff /\ e \in pub[p].staff
  BY <1>1, <1>2, CurrentIsPaid DEF Active
<1>4. /\ pub \in [Publishers -> Pubs] /\ rec \in [Staff -> Pays] /\ torn \subseteq Staff /\ fresh \subseteq Staff
      /\ Amounts(p, e) \in Pays /\ Amounts(p, e) # NoPay
  BY <1>3, AmountsType DEF PayTypeOK
<1>5. /\ pub' \in [Publishers -> Pubs]
      /\ \A q \in Publishers :
             /\ pub'[q].staff = pub[q].staff /\ pub'[q].todo = pub[q].todo
             /\ pub'[q].moved = pub[q].moved /\ pub'[q].rates = pub[q].rates
             /\ pub'[q].in = pub[q].in /\ pub'[q].out = pub[q].out /\ pub'[q].ot = pub[q].ot
             /\ pub'[q].clean = pub[q].clean
             /\ pub'[q].pc = (IF q = p THEN "notify" ELSE pub[q].pc)
  <2>1. [pub[p] EXCEPT !.pc = "notify"] \in Pubs
    BY <1>4 DEF Pubs, Active
  <2> QED
    BY <1>2, <1>4, <2>1 DEF Pubs
<1>6. /\ view' \in Views /\ view'.kind = view.kind /\ view'.pc = view.pc
      /\ view'.in = view.in /\ view'.out = view.out /\ view'.workday = view.workday
      /\ view'.rec = view.rec /\ view'.pdf = view.pdf
      /\ view.crossed => view'.crossed
      /\ view.kind = "payslip" /\ view.pc # "done" /\ e = Live => view'.crossed
  BY <1>2, <1>3, CrossingMarks
<1>7. /\ TypeOK' /\ PayTypeOK' /\ PaidInTurn' /\ ReadIsCurrent' /\ SummaryLoads'
      /\ \A q \in Publishers : Current(q)' = Current(q) /\ \A x : Amounts(q, x)' = Amounts(q, x)
      /\ \A x \in Staff : AmountsNow(x)' = AmountsNow(x)
  <2>1. \A q \in Publishers : pub'[q].pc # pub[q].pc => pub[q].pc \in Active \ {"rows", "ot"} /\ pub'[q].pc = "notify"
    BY <1>2, <1>5 DEF Active
  <2>2. /\ pdf' \in [Staff -> Pays] /\ rec' \in [Staff -> Pays] /\ torn' \subseteq Staff /\ fresh' \subseteq Staff
        /\ events' \in 0..MaxEvents
    BY <1>2, <1>3, <1>4 DEF PayTypeOK
  <2> QED
    BY <1>1, <1>2, <1>5, <1>6, <2>1, <2>2, StoreKeeps DEF PayNext, Publish
<1>8. /\ \A x : ~Writing(p, x)'
      /\ \A x : Writing(p, x) <=> x = e
      /\ \A q \in Publishers \ {p} : \A x : Writing(q, x)' <=> Writing(q, x)
  BY <1>1, <1>2, <1>5, <1>7 DEF Writing
<1>9. /\ \A x \in Staff \ {e} : rec'[x] = rec[x]
      /\ rec'[e] = Amounts(p, e) /\ pdf' = pdf /\ told' = told
  BY <1>2, <1>3, <1>4
<1>10. IF pub[p].clean
         THEN /\ \A q \in Publishers \ {p} : ~Writing(q, e)
              /\ pdf[e] = Amounts(p, e)
         ELSE e \in torn
  BY <1>2, <1>3, <1>8 DEF WritesAlone
<1>11. PaidBeforeTold'
  <2>1. \A x \in Staff : rec[x] # NoPay => rec'[x] # NoPay
    BY <1>4, <1>9
  <2>2. ASSUME NEW q \in Publishers
        PROVE  /\ pub'[q].pc \in Held => pdf'[Current(q)'] # NoPay
               /\ pub'[q].pc = "notify" => rec'[Current(q)'] # NoPay
    <3>1. pub'[q].pc \in Held => pub[q].pc \in Held /\ Current(q) \in Staff
      BY <1>2, <1>5, CurrentIsPaid DEF Held, Active
    <3>2. CASE q = p
      BY <1>1, <1>4, <1>7, <1>9, <3>1, <3>2 DEF PaidBeforeTold
    <3>3. CASE q # p
      BY <1>5, <1>7, <1>9, <2>1, <3>1, <3>3 DEF PaidBeforeTold, Held
    <3> QED
      BY <3>2, <3>3
  <2>3. \A pe \in told : pe[2] \in Staff
    BY DEF PayTypeOK
  <2> QED
    BY <1>9, <2>1, <2>2, <2>3 DEF PaidBeforeTold
<1>12. WritesAlone'
  <2> SUFFICES ASSUME NEW q \in Publishers, NEW x \in Staff, Writing(q, x)'
               PROVE  IF pub'[q].clean
                        THEN /\ \A r \in Publishers \ {q} : ~Writing(r, x)'
                             /\ pub'[q].pc = "save" => pdf'[x] = Amounts(q, x)'
                        ELSE x \in torn'
    BY DEF WritesAlone
  <2>1. q # p /\ Writing(q, x)
    BY <1>8
  <2>2. pub'[q].clean = pub[q].clean /\ pub'[q].pc = pub[q].pc
    BY <1>5, <2>1
  <2>3. CASE pub[q].clean
    <3>1. /\ \A r \in Publishers \ {q} : ~Writing(r, x)
          /\ pub[q].pc = "save" => pdf[x] = Amounts(q, x)
      BY <2>1, <2>3 DEF WritesAlone
    <3> QED
      BY <1>7, <1>8, <1>9, <2>2, <2>3, <3>1
  <2>4. CASE ~pub[q].clean
    <3>1. x \in torn
      BY <2>1, <2>4 DEF WritesAlone
    <3>2. pub[p].clean => x # e
      BY <1>10, <2>1
    <3> QED
      BY <1>2, <2>2, <2>4, <3>1, <3>2
  <2> QED
    BY <2>3, <2>4
<1>13. FreshIsUntouched'
  <2> SUFFICES ASSUME NEW x \in fresh', NEW q \in Publishers PROVE ~Writing(q, x)'
    BY DEF FreshIsUntouched
  <2>1. CASE x = e
    <3>1. pub[p].clean
      BY <1>2, <2>1
    <3> QED
      BY <1>8, <1>10, <2>1, <3>1
  <2>2. CASE x # e
    <3>1. x \in fresh
      BY <1>2, <2>2
    <3> QED
      BY <1>8, <3>1 DEF FreshIsUntouched
  <2> QED
    BY <2>1, <2>2
<1>14. PayslipMatchesFile'
  <2> SUFFICES ASSUME NEW x \in Staff \ torn', \A q \in Publishers : ~Writing(q, x)'
               PROVE  pdf'[x] = rec'[x]
    BY DEF PayslipMatchesFile
  <2>1. CASE x = e
    BY <1>2, <1>9, <1>10, <2>1
  <2>2. CASE x # e
    <3>1. x \notin torn /\ \A q \in Publishers : ~Writing(q, x)
      BY <1>2, <1>8, <2>2
    <3> QED
      BY <1>9, <2>2, <3>1 DEF PayslipMatchesFile
  <2> QED
    BY <2>1, <2>2
<1>15. PayslipLoads'
  <2>1. torn' \subseteq torn
    BY <1>2
  <2> QED
    BY <1>6, <1>8, <1>9, <2>1, StaffAssumption DEF PayslipLoads
<1>16. UndisturbedPayIsExact'
  <2> SUFFICES ASSUME NEW x \in fresh' PROVE rec'[x] = AmountsNow(x)' /\ pdf'[x] = rec'[x]
    BY DEF UndisturbedPayIsExact
  <2>1. x \in Staff
    BY <1>2, <1>3, <1>4
  <2>2. CASE x = e
    <3>1. pub[p].clean /\ e \notin pub[p].moved
      BY <1>2, <2>2
    <3>2. /\ pub[p].rates[e] = rate[e]
          /\ e = Live => pub[p].in = scanIn /\ pub[p].out = scanOut /\ pub[p].ot = otApproved
      BY <1>2, <1>3, <3>1 DEF ReadIsCurrent, Active
    <3>3. Amounts(p, e) = AmountsNow(e)
      BY <3>2 DEF Amounts, AmountsNow, TotalWorkday
    <3> QED
      BY <1>7, <1>9, <1>10, <2>1, <2>2, <3>1, <3>3
  <2>3. CASE x # e
    <3>1. x \in fresh
      BY <1>2, <2>3
    <3> QED
      BY <1>7, <1>9, <2>1, <2>3, <3>1 DEF UndisturbedPayIsExact
  <2> QED
    BY <2>2, <2>3
<1>17. OvertimeIsApproved'
  <2>1. otApproved' = otApproved
    BY <1>2 DEF vars
  <2>2. CASE otApproved
    BY <2>1, <2>2 DEF OvertimeIsApproved
  <2>3. CASE ~otApproved
    <3>1. ~pub[p].ot
      BY <1>2, <2>3 DEF ReadIsCurrent, Active
    <3>2. Amounts(p, Live).hours <= 800 + Nearest(8 * Rest[Live], 100)
      BY <3>1, AmountsWithoutOt
    <3>3. rec[Live].hours <= 800 + Nearest(8 * Rest[Live], 100)
      <4>1. rec[Live].hours \in Nat /\ Nearest(8 * Rest[Live], 100) \in Nat
        BY <1>4, StaffAssumption, RestAssumption, NearestType DEF Pays
      <4> QED
        BY <2>3, <4>1 DEF OvertimeIsApproved
    <3>4. rec'[Live].hours <= 800 + Nearest(8 * Rest[Live], 100)
      BY <1>9, <3>2, <3>3, StaffAssumption
    <3>5. rec'[Live].hours \in Nat /\ Nearest(8 * Rest[Live], 100) \in Nat
      BY <1>7, StaffAssumption, RestAssumption, NearestType DEF Pays, PayTypeOK
    <3> QED
      BY <3>4, <3>5 DEF OvertimeIsApproved
  <2> QED
    BY <2>2, <2>3
<1> QED
  BY <1>7, <1>11, <1>12, <1>13, <1>14, <1>15, <1>16, <1>17

LEMMA FailPublicationKeeps ==
    ASSUME PayInv, NEW p \in Publishers, FailPublication(p)
    PROVE  PayInv'
<1> USE DEF PayInv
<1>1. PICK e : e = Current(p)
  OBVIOUS
<1>2. /\ pub[p].pc \in Active /\ pub' = [pub EXCEPT ![p].pc = "failed"]
      /\ torn' = (IF pub[p].pc \in {"close", "save"} THEN torn \cup {e} ELSE torn)
      /\ UNCHANGED <<vars, staffVars, storeVars, view, fresh>>
  BY <1>1 DEF FailPublication
<1>3. e \in Staff
  BY <1>1, <1>2, CurrentIsPaid
<1>4. pub \in [Publishers -> Pubs] /\ torn \subseteq Staff /\ fresh \subseteq Staff
  BY DEF PayTypeOK
<1>5. /\ pub' \in [Publishers -> Pubs] /\ Unchanged(p)
      /\ pub'[p].staff = pub[p].staff /\ pub'[p].todo = pub[p].todo
      /\ pub'[p].moved = pub[p].moved /\ pub'[p].pc = "failed"
  <2>1. [pub[p] EXCEPT !.pc = "failed"] \in Pubs
    BY <1>4 DEF Pubs
  <2> QED
    BY <1>2, <1>4, <2>1 DEF Pubs, Unchanged
<1>6. /\ pdf' = pdf /\ rec' = rec /\ told' = told /\ rate' = rate /\ active' = active /\ view' = view
      /\ scanIn' = scanIn /\ scanOut' = scanOut /\ otApproved' = otApproved /\ isWeekend' = isWeekend
      /\ fresh' = fresh /\ torn \subseteq torn' /\ torn' \subseteq Staff
  BY <1>2, <1>3, <1>4 DEF storeVars, staffVars, vars
<1>7. events' \in 0..MaxEvents
  BY PaidAssumption DEF FailPublication, Event, PayTypeOK
<1>8. TypeOK'
  BY DayGoesOn, DayKeepsType DEF PayNext
<1>9. PayTypeOK'
  BY <1>5, <1>6, <1>7 DEF PayTypeOK, Unchanged
<1>10. /\ \A x : ~Writing(p, x)'
       /\ \A q \in Publishers \ {p} : /\ pub'[q] = pub[q] /\ Current(q)' = Current(q)
                                      /\ \A x : Writing(q, x)' <=> Writing(q, x)
                                      /\ \A x : Amounts(q, x)' = Amounts(q, x)
  BY <1>5, <1>6, OtherCalls DEF Writing
<1>11. PaidInTurn' /\ PaidBeforeTold' /\ ReadIsCurrent'
  <2>1. pub'[p].pc \notin Active \cup Held \cup {"done"}
    BY <1>5 DEF Active, Held
  <2> QED
    BY <1>6, <1>10, <2>1 DEF PaidInTurn, PaidBeforeTold, ReadIsCurrent, Held
<1>12. WritesAlone'
  <2> SUFFICES ASSUME NEW q \in Publishers, NEW x \in Staff, Writing(q, x)'
               PROVE  IF pub'[q].clean
                        THEN /\ \A r \in Publishers \ {q} : ~Writing(r, x)'
                             /\ pub'[q].pc = "save" => pdf'[x] = Amounts(q, x)'
                        ELSE x \in torn'
    BY DEF WritesAlone
  <2>1. q # p /\ Writing(q, x)
    BY <1>10
  <2> QED
    BY <1>6, <1>10, <2>1 DEF WritesAlone
<1>13. FreshIsUntouched'
  BY <1>6, <1>10 DEF FreshIsUntouched
<1>14. ASSUME NEW x, x \notin torn' PROVE ~Writing(p, x)
  BY <1>1, <1>2, <1>14 DEF Writing
<1>15. PayslipMatchesFile'
  BY <1>6, <1>10, <1>14 DEF PayslipMatchesFile
<1>16. PayslipLoads'
  <2>1. ASSUME \A q \in Publishers : ~Writing(q, Live), Live \notin torn PROVE Live \notin torn'
    BY <1>1, <1>2, <2>1 DEF Writing
  <2> QED
    BY <1>6, <1>10, <2>1 DEF PayslipLoads
<1>17. SummaryLoads'
  <2>1. Summed(scanIn, scanOut, otApproved)' = Summed(scanIn, scanOut, otApproved)
    BY <1>6 DEF Summed, TotalWorkday, Workday
  <2> QED
    BY <1>6, <2>1 DEF SummaryLoads
<1>18. UndisturbedPayIsExact'
  <2>1. \A x \in Staff : AmountsNow(x)' = AmountsNow(x)
    BY <1>6, SameWorth
  <2> QED
    BY <1>4, <1>6, <2>1 DEF UndisturbedPayIsExact
<1>19. OvertimeIsApproved'
  BY <1>6 DEF OvertimeIsApproved
<1> QED
  BY <1>8, <1>9, <1>11, <1>12, <1>13, <1>15, <1>16, <1>17, <1>18, <1>19

-----------------------------------------------------------------------------
(* Theorems. *)

LEMMA PayInitHolds ==
    ASSUME PayInit
    PROVE  PayInv
<1> USE DEF PayInit
<1>1. TypeOK
  <2>1. NoScan <= NoScan
    BY DEF NoScan
  <2> QED
    BY <2>1 DEF Init, TypeOK
<1>2. /\ pub = [p \in Publishers |-> NoPub] /\ view = NoView /\ told = {} /\ torn = {} /\ fresh = {}
      /\ pdf = [e \in Staff |-> NoPay] /\ rec = [e \in Staff |-> NoPay]
  OBVIOUS
<1>3. NoPay \in Pays /\ NoPub \in Pubs /\ NoView \in Views /\ NoPay.hours = 0
  BY DEF NoPay, Pays, NoPub, Pubs, NoView, Views, Scans
<1>4. PayTypeOK
  <2>1. \A p \in Publishers : pub[p].todo = {} /\ pub[p].moved = {}
    BY <1>2 DEF NoPub
  <2> QED
    BY <1>2, <1>3, <2>1, PaidAssumption DEF PayTypeOK
<1>5. \A p \in Publishers : pub[p].pc = "idle"
  BY <1>2 DEF NoPub
<1>6. \A p \in Publishers : \A e : ~Writing(p, e)
  BY <1>5 DEF Writing
<1>7. PaidInTurn /\ PaidBeforeTold /\ ReadIsCurrent
  BY <1>2, <1>5 DEF PaidInTurn, PaidBeforeTold, ReadIsCurrent, Held, Active
<1>8. WritesAlone /\ FreshIsUntouched /\ UndisturbedPayIsExact
  BY <1>2, <1>6 DEF WritesAlone, FreshIsUntouched, UndisturbedPayIsExact
<1>9. PayslipLoads /\ SummaryLoads
  BY <1>2 DEF PayslipLoads, SummaryLoads, NoView
<1>10. PayslipMatchesFile
  BY <1>2 DEF PayslipMatchesFile
<1>11. OvertimeIsApproved
  <2>1. rec[Live].hours = 0 /\ Nearest(8 * Rest[Live], 100) \in Nat
    BY <1>2, <1>3, StaffAssumption, RestAssumption, NearestType
  <2> QED
    BY <2>1 DEF OvertimeIsApproved
<1> QED
  BY <1>1, <1>4, <1>7, <1>8, <1>9, <1>10, <1>11 DEF PayInv

LEMMA StutterKeeps ==
    ASSUME PayInv, UNCHANGED allVars
    PROVE  PayInv'
<1>1. [PayNext]_allVars /\ UNCHANGED <<vars, rate, active, storeVars, pub, torn, fresh, view, events>>
  BY DEF allVars, payVars, staffVars
<1>2. PayslipLoads'
  <2>1. \A p \in Publishers : \A x : Writing(p, x)' <=> Writing(p, x)
    BY <1>1, SameCall
  <2> QED
    BY <1>1, <2>1 DEF PayInv, PayslipLoads, storeVars
<1>3. SummaryLoads'
  BY <1>1 DEF PayInv, SummaryLoads, Summed, TotalWorkday, Workday, vars
<1>4. active' \in [Staff -> BOOLEAN] /\ events' \in 0..MaxEvents /\ view' \in Views
  BY <1>1 DEF PayInv, PayTypeOK
<1> QED
  BY <1>1, <1>2, <1>3, <1>4, ReadingKeeps

\* The inductive invariant holds whoever publishes, fails or changes what.
THEOREM PayInvariance == PaySpec => []PayInv
<1>1. PayInit => PayInv
  BY PayInitHolds
<1>2. PayInv /\ [PayNext]_allVars => PayInv'
  <2> SUFFICES ASSUME PayInv, [PayNext]_allVars PROVE PayInv'
    OBVIOUS
  <2>1. CASE DayStep
    BY <2>1, DayStepKeeps
  <2>2. ASSUME NEW e \in Raised, SetRate(e) PROVE PayInv'
    BY <2>2, SetRateKeeps
  <2>3. ASSUME NEW e \in Leaving, Deactivate(e) PROVE PayInv'
    BY <2>3, DeactivateKeeps
  <2>4. ASSUME NEW p \in Publishers, Begin(p) \/ Publish(p) PROVE PayInv'
    BY <2>4, ReadsKeep, OpenPdfKeeps, ClosePdfKeeps, SaveRowKeeps, NotifyKeeps DEF Publish
  <2>5. ASSUME NEW p \in Publishers, FailPublication(p) PROVE PayInv'
    BY <2>5, FailPublicationKeeps
  <2>6. CASE OpenPayslip \/ FetchRecord \/ FetchFile \/ OpenSummary \/ CloseSummary
    BY <2>6, ReaderKeeps
  <2>7. CASE UNCHANGED allVars
    BY <2>7, StutterKeeps
  <2> QED
    BY <2>1, <2>2, <2>3, <2>4, <2>5, <2>6, <2>7 DEF PayNext
<1> QED
  BY <1>1, <1>2, PTL DEF PaySpec

\* publishMonthlyPayroll: row and file of an employee agree, in the store and
\* on the page, unless a call failed between them or two wrote together.
THEOREM RowsMatchFiles == PaySpec => []PayslipsMatchFiles
<1>1. PayInv => PayslipsMatchFiles
  BY DEF PayInv, PayslipsMatchFiles, ShownPayslipMatchesFile, PayslipLoads
<1> QED
  BY <1>1, PayInvariance, PTL

\* Whoever was paid undisturbed is paid exactly, and overtime only once it
\* has been approved.
THEOREM PaidExactly == PaySpec => []PayIsExact
<1>1. PayInv => PayIsExact
  BY DEF PayInv, PayIsExact
<1> QED
  BY <1>1, PayInvariance, PTL

\* Success means that everybody was paid and told.
THEOREM EverybodyIsPaid == PaySpec => []PublishedIsComplete
<1>1. PayInv => PublishedIsComplete
  BY DEF PayInv, PaidInTurn, PaidBeforeTold, PublishedIsComplete
<1> QED
  BY <1>1, PayInvariance, PTL

\* Twice rounded, a sum of days stays within four hundredths of an hour.
LEMMA RoundedTwice ==
    ASSUME NEW total \in Nat
    PROVE  8 * Nearest(total, 100) - Nearest(8 * total, 100) \in -4..4
BY DEF Nearest

\* The roundings of a day and of a month agree with each other.
THEOREM RoundingsAgree == PaySpec => []RoundedFiguresAgree
<1>1. PayInv => MissingMinutesMatchStatus /\ StayingToTheWindowsEnd
  BY StatusMatches, WindowIsEnough DEF PayInv
<1>2. PayInv => SummaryMatchesPayslip
  <2> SUFFICES ASSUME PayInv, view.kind = "summary", view.pc = "done", ~view.crossed, Live \in fresh
               PROVE  8 * view.workday - rec[Live].hours \in -4..4
    BY DEF SummaryMatchesPayslip
  <2> DEFINE total == TotalWorkday(Live, scanIn, scanOut, otApproved)
  <2>1. total \in Nat
    BY TotalWorkdayType, StaffAssumption DEF PayInv, TypeOK, Scans
  <2>2. view.workday = Nearest(total, 100)
    BY DEF PayInv, SummaryLoads, Summed
  <2>3. rec[Live].hours = Nearest(8 * total, 100)
    <3>1. rec[Live] = Pay(total, rate[Live])
      BY DEF PayInv, UndisturbedPayIsExact, AmountsNow
    <3> QED
      BY <3>1 DEF Pay
  <2> HIDE DEF total
  <2> QED
    BY <2>1, <2>2, <2>3, RoundedTwice
<1>3. PayInv => RoundedFiguresAgree
  BY <1>1, <1>2 DEF RoundedFiguresAgree
<1> QED
  BY <1>3, PayInvariance, PTL

\* approveRequest, approveExplanation: while the month is published and after,
\* approvals and explanations still change the day.  Its credit stays that of
\* the time that counts, whatever checkout they write, and neither a later scan
\* over a scanned checkout nor approved overtime lowers it.
THEOREM MonthCreditsTime == PaySpec => CreditIsTimePresent /\ EarnedNeverShrinks
<1>1. PaySpec => Spec
  <2>1. PayInit => Init
    BY DEF PayInit
  <2>2. [PayNext]_allVars => [Next]_vars
    BY DayGoesOn
  <2> QED
    BY <2>1, <2>2, PTL DEF PaySpec, Spec
<1> QED
  BY <1>1, CreditIsExact, NothingIsLost
=============================================================================
