----------------------------- MODULE RequestDesk -----------------------------
(***************************************************************************)
(* What the requests promise, without handlers, awaits, transactions and   *)
(* locks: a desk where one thing happens at a time.  A request is filed    *)
(* once and decided once, and an explanation is approved, charged to its   *)
(* month and entered in its day in one step.                               *)
(***************************************************************************)
EXTENDS Integers

CONSTANTS
    Rows,       \* what may be filed
    Employees,
    NoOne,
    Days,
    MonthOf,    \* Days -> the month that is charged
    Limit       \* explanations per month

VARIABLES
    today,
    filed,      \* employee, type and date of each request
    verdict,    \* none, PENDING, APPROVED or REJECTED
    day,        \* employee and day -> empty, open (a checkin) or closed
    charged,    \* employee and month -> explanations
    disputed    \* requests that several were deciding together

deskVars == <<today, filed, verdict, day, charged, disputed>>

DeskInit ==
    /\ today = 0
    /\ verdict = [r \in Rows |-> "none"]
    /\ filed = [r \in Rows |-> [emp |-> NoOne, type |-> "OT", day |-> 0]]
    /\ day = [k \in Employees \X Days |-> "empty"]
    /\ charged = [k \in Employees \X {MonthOf[d] : d \in Days} |-> 0]
    /\ disputed = {}

\* An explanation is for a past day on which the employee was there.
File(r, e, type, d) ==
    /\ verdict[r] = "none" /\ verdict' = [verdict EXCEPT ![r] = "PENDING"]
    /\ type = "EXPLANATION" => d < today /\ day[<<e, d>>] # "empty"
    /\ filed' = [filed EXCEPT ![r] = [emp |-> e, type |-> type, day |-> d]]
    /\ UNCHANGED <<today, day, charged, disputed>>

Dispute(r) ==
    /\ verdict[r] = "PENDING" /\ disputed' = disputed \cup {r}
    /\ UNCHANGED <<today, filed, verdict, day, charged>>

\* A verdict is final, unless the request is disputed.
Judged(r) == verdict[r] = "PENDING" \/ r \in disputed

Judge(r, v) ==
    /\ Judged(r) /\ (v = "REJECTED" \/ filed[r].type = "OT")
    /\ verdict' = [verdict EXCEPT ![r] = v]
    /\ UNCHANGED <<today, filed, day, charged, disputed>>

Explain(r, e, d) ==
    /\ Judged(r) /\ filed[r] = [emp |-> e, type |-> "EXPLANATION", day |-> d]
    /\ day[<<e, d>>] # "empty" /\ charged[<<e, MonthOf[d]>>] < Limit
    /\ verdict' = [verdict EXCEPT ![r] = "APPROVED"]
    /\ day' = [day EXCEPT ![<<e, d>>] = "closed"]
    /\ charged' = [charged EXCEPT ![<<e, MonthOf[d]>>] = @ + 1]
    /\ UNCHANGED <<today, filed, disputed>>

\* Overtime that nobody has decided in time is rejected.
Late == {r \in Rows : verdict[r] = "PENDING" /\ filed[r].type = "OT" /\ filed[r].day < today}
Expire ==
    /\ verdict' = [r \in Rows |-> IF r \in Late THEN "REJECTED" ELSE verdict[r]]
    /\ \E R \in SUBSET Late : disputed' = disputed \cup R
    /\ UNCHANGED <<today, filed, day, charged>>

\* The first scan opens a day, and every other closes it; until the grace hour
\* a scan counts for yesterday.
Scan(e, d) ==
    /\ d \in {today - 1, today}
    /\ day' = [day EXCEPT ![<<e, d>>] = IF @ = "empty" THEN "open" ELSE "closed"]
    /\ UNCHANGED <<today, filed, verdict, charged, disputed>>

NextDay == today' = today + 1 /\ UNCHANGED <<filed, verdict, day, charged, disputed>>

DeskNext ==
    \/ \E r \in Rows, e \in Employees, type \in {"OT", "EXPLANATION"}, d \in Days : File(r, e, type, d)
    \/ \E r \in Rows : Dispute(r)
    \/ \E r \in Rows, v \in {"APPROVED", "REJECTED"} : Judge(r, v)
    \/ \E r \in Rows, e \in Employees, d \in Days : Explain(r, e, d)
    \/ \E e \in Employees, d \in Days : Scan(e, d)
    \/ Expire \/ NextDay

DeskSpec == DeskInit /\ [][DeskNext]_deskVars
=============================================================================
