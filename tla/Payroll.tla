------------------------------- MODULE Payroll -------------------------------
(***************************************************************************)
(* PayrollService: a month is published employee by employee, each with a  *)
(* file that is written in place, then the row, then a notification, while *)
(* attendance, OT approvals and rates change and another manager publishes *)
(* too.  Composed with AttendanceCompute, whose day is one day of the      *)
(* month of the employee Live; the page of a payslip and the monthly       *)
(* summary of AttendanceService read beside it.                            *)
(***************************************************************************)
EXTENDS AttendanceCompute

CONSTANTS
    Staff,       \* employees, by employee_id
    Live,        \* the one whose day changes
    Rest,        \* what the other days of the month are worth, for each
    Rates,       \* hourly rates
    Raised,      \* bound: those who get a raise
    Leaving,     \* bound: those who are deactivated
    Publishers,  \* calls of publishMonthlyPayroll
    Paid,        \* bound: the days whose month is published: first scan, checkout,
                 \* last scan, isWeekend
    MaxEvents    \* bound on what people and faults do beside the publishing

ASSUME StaffAssumption == Staff \subseteq Nat /\ Live \in Staff /\ Publishers \subseteq Nat
ASSUME RestAssumption == Rest \in [Staff -> Nat] /\ Rates \subseteq Nat \ {0}
                         /\ Raised \subseteq Staff /\ Leaving \subseteq Staff
ASSUME PaidAssumption == Paid \subseteq Instants \X Instants \X Instants \X BOOLEAN /\ MaxEvents \in Nat

VARIABLES
    rate, active,  \* hourly_rate and is_active of the employees
    pdf, rec,      \* the file and the row of each employee for the month
    told,          \* the notifications: which call announced it to whom
    pub,           \* the calls
    view,          \* what somebody is looking at
    torn,          \* history: employees whose file may not be that of the row
    fresh,         \* history: paid undisturbed, and nothing has changed since
    events

staffVars == <<rate, active>>
storeVars == <<pdf, rec, told>>
payVars == <<staffVars, storeVars, pub, view, torn, fresh, events>>
allVars == <<vars, payVars>>

NoPay == [hours |-> 0, salary |-> -1]
Partial == [hours |-> 0, salary |-> -2]   \* a file that is being written
Pays == [hours : Nat, salary : Int]
Scans == Instants \cup {NoScan}
Active == {"rows", "ot", "write", "close", "save", "notify"}
Pubs == [pc : Active \cup {"idle", "done", "failed"}, staff : SUBSET Staff,
         todo : SUBSET Staff,  \* those of staff that are still to be paid
         rates : [Staff -> Nat], in : Scans, out : Scans, ot : BOOLEAN,
         clean : BOOLEAN,      \* history: nobody else writes the file of the current one
         moved : SUBSET Staff] \* history: what they are paid for has changed
Views == [kind : {"none", "payslip", "summary"}, pc : {"both", "record", "file", "ot", "done"},
          rec : Pays, pdf : Pays, in : Scans, out : Scans, workday : Nat, crossed : BOOLEAN]
NoPub == [pc |-> "idle", staff |-> {}, todo |-> {}, rates |-> [e \in Staff |-> 0],
          in |-> NoScan, out |-> NoScan, ot |-> FALSE, clean |-> FALSE, moved |-> {}]
NoView == [kind |-> "none", pc |-> "done", rec |-> NoPay, pdf |-> NoPay,
           in |-> NoScan, out |-> NoScan, workday |-> 0, crossed |-> FALSE]

PayTypeOK ==
    /\ rate \in [Staff -> Rates] /\ active \in [Staff -> BOOLEAN]
    /\ pdf \in [Staff -> Pays] /\ rec \in [Staff -> Pays]
    /\ told \subseteq Publishers \X Staff
    /\ pub \in [Publishers -> Pubs]
    /\ \A p \in Publishers : pub[p].todo \cup pub[p].moved \subseteq pub[p].staff
    /\ view \in Views
    /\ torn \subseteq Staff /\ fresh \subseteq Staff /\ events \in 0..MaxEvents

PayInit ==
    /\ Init
    /\ \E r \in Rates : (\A q \in Rates : r <= q) /\ rate = [e \in Staff |-> r]
    /\ active = [e \in Staff |-> TRUE]
    /\ pdf = [e \in Staff |-> NoPay] /\ rec = [e \in Staff |-> NoPay] /\ told = {}
    /\ pub = [p \in Publishers |-> NoPub] /\ view = NoView
    /\ torn = {} /\ fresh = {} /\ events = 0

-----------------------------------------------------------------------------
(* Amounts: days in ten-thousandths, hours, rates and money in hundredths. *)

Nearest(a, b) == (2 * a + b) \div (2 * b)

\* totalWorkday of a row, with its four decimals.
Workday(in, out, ot) ==
    IF in = NoScan \/ out = NoScan THEN 0
    ELSE Nearest(10000 * StandardCredit(TimeOfDay(in), TimeOfDay(out), ot, isWeekend), FullDay)

\* calculateTotalWorkday
TotalWorkday(e, in, out, ot) == Rest[e] + IF e = Live THEN Workday(in, out, ot) ELSE 0

\* calculatePayrollAmounts: hours and salary are each rounded to hundredths.
\* (So is the rate, which is stored with two decimals already.)
Pay(total, r) ==
    LET hours == Nearest(8 * total, 100)
    IN  [hours |-> hours, salary |-> Nearest(hours * r, 100)]

WithoutOt(p, e) == Pay(TotalWorkday(e, pub[p].in, pub[p].out, FALSE), pub[p].rates[e])
\* The amounts of employee e in the call p.
Amounts(p, e) == Pay(TotalWorkday(e, pub[p].in, pub[p].out, pub[p].ot), pub[p].rates[e])
AmountsNow(e) == Pay(TotalWorkday(e, scanIn, scanOut, otApproved), rate[e])

-----------------------------------------------------------------------------
(* Attendance and employees go on changing. *)

Event == events < MaxEvents /\ events' = events + 1

\* What e is paid for has changed.
Touch(e) ==
    /\ fresh' = fresh \ {e}
    /\ pub' = [p \in Publishers |-> IF pub[p].pc \in Active THEN [pub[p] EXCEPT !.moved = @ \cup ({e} \cap pub[p].staff)]
                                                            ELSE pub[p]]
    /\ view' = IF view.kind = "summary" THEN [view EXCEPT !.crossed = TRUE] ELSE view

PaidDay == <<scanIn, scanOut, lastScan, isWeekend>> \in Paid
Begun == \E p \in Publishers : pub[p].pc # "idle"

\* The day before the month is published, and what is decided later.
DayStep ==
    /\ \/ ~Begun /\ view.kind = "none" /\ Next /\ UNCHANGED events
       \/ Event /\ (ApproveOt \/ \E t \in Ends : ScanOut(t) \/ Explain(t))
    /\ Touch(Live)
    /\ UNCHANGED <<staffVars, storeVars, torn>>

\* updateProfile
SetRate(e) ==
    /\ Event /\ Begun /\ active[e]
    /\ \E r \in Rates : r > rate[e] /\ rate' = [rate EXCEPT ![e] = r]
    /\ Touch(e)
    /\ UNCHANGED <<vars, active, storeVars, torn>>

\* softDeleteEmployee
Deactivate(e) ==
    /\ Event /\ PaidDay /\ active[e]
    /\ active' = [active EXCEPT ![e] = FALSE]
    /\ UNCHANGED <<vars, rate, storeVars, pub, view, torn, fresh>>

-----------------------------------------------------------------------------
(* publishMonthlyPayroll *)

\* Employees are paid in the order of their ids.
Current(p) == CHOOSE e \in pub[p].todo : \A f \in pub[p].todo : e <= f

\* The call p is between the file and the row of e.
Writing(p, e) == pub[p].pc \in {"close", "save"} /\ Current(p) = e
Crossing(e) == IF view.kind = "payslip" /\ view.pc # "done" /\ e = Live
                 THEN [view EXCEPT !.crossed = TRUE] ELSE view

Begin(p) ==
    /\ pub[p].pc = "idle" /\ \A q \in Publishers : q < p => pub[q].pc # "idle"
    /\ PaidDay
    /\ LET staff == {e \in Staff : active[e]} IN
       /\ staff # {}   \* BadRequestException otherwise
       /\ pub' = [pub EXCEPT ![p] = [NoPub EXCEPT !.pc = "rows", !.staff = staff, !.rates = rate,
                                       !.todo = staff]]
    /\ UNCHANGED <<vars, staffVars, storeVars, view, torn, fresh, events>>

\* One transaction, two statements: each sees what is committed by then.
ReadRows(p) ==
    /\ pub[p].pc = "rows"
    /\ pub' = [pub EXCEPT ![p].pc = "ot", ![p].in = scanIn, ![p].out = scanOut]
    /\ UNCHANGED <<vars, staffVars, storeVars, view, torn, fresh, events>>
ReadOt(p) ==
    /\ pub[p].pc = "ot"
    /\ pub' = [pub EXCEPT ![p].pc = "write", ![p].ot = otApproved]
    /\ UNCHANGED <<vars, staffVars, storeVars, view, torn, fresh, events>>

\* writePayrollPdf, in place.  Calls that write the same file together may
\* leave either text beside either row.
OpenPdf(p) ==
    /\ pub[p].pc = "write"
    /\ LET e == Current(p)
           others == {q \in Publishers \ {p} : Writing(q, e)}
       IN  /\ pdf' = [pdf EXCEPT ![e] = Partial]
           /\ pub' = [q \in Publishers |-> IF q = p THEN [pub[q] EXCEPT !.pc = "close", !.clean = others = {}]
                                           ELSE IF q \in others THEN [pub[q] EXCEPT !.clean = FALSE]
                                           ELSE pub[q]]
           /\ torn' = IF others = {} THEN torn ELSE torn \cup {e}
           /\ fresh' = fresh \ {e} /\ view' = Crossing(e)
    /\ UNCHANGED <<vars, staffVars, rec, told, events>>
ClosePdf(p) ==
    /\ pub[p].pc = "close"
    /\ LET e == Current(p) IN pdf' = [pdf EXCEPT ![e] = Amounts(p, e)]
    /\ pub' = [pub EXCEPT ![p].pc = "save"]
    /\ UNCHANGED <<vars, staffVars, rec, told, view, torn, fresh, events>>

KeptRow(p, e) == IF rec[e] = NoPay THEN Amounts(p, e) ELSE rec[e]
Upserted(p, e) == Amounts(p, e)
SaveRow(p) ==
    /\ pub[p].pc = "save"
    /\ LET e == Current(p) IN
       /\ rec' = [rec EXCEPT ![e] = Upserted(p, e)]
       /\ torn' = IF pub[p].clean THEN torn \ {e} ELSE torn
       /\ fresh' = IF pub[p].clean /\ e \notin pub[p].moved THEN fresh \cup {e} ELSE fresh \ {e}
       /\ view' = Crossing(e)
    /\ pub' = [pub EXCEPT ![p].pc = "notify"]
    /\ UNCHANGED <<vars, staffVars, pdf, told, events>>

Untold(p) == told
Announced(p) == told \cup {<<p, Current(p)>>}
Notify(p) ==
    /\ pub[p].pc = "notify"
    /\ told' = Announced(p)
    /\ pub' = [pub EXCEPT ![p].pc = IF pub[p].todo = {Current(p)} THEN "done" ELSE "write",
                          ![p].todo = @ \ {Current(p)}]
    /\ UNCHANGED <<vars, staffVars, pdf, rec, view, torn, fresh, events>>

\* A statement or the file fails, or the server stops: the employees before
\* this one keep what they got, and nobody goes on with the others.
FailPublication(p) ==
    /\ Event /\ pub[p].pc \in Active
    /\ pub' = [pub EXCEPT ![p].pc = "failed"]
    /\ torn' = IF pub[p].pc \in {"close", "save"} THEN torn \cup {Current(p)} ELSE torn
    /\ UNCHANGED <<vars, staffVars, storeVars, view, fresh>>

Publish(p) ==
    ReadRows(p) \/ ReadOt(p) \/ OpenPdf(p) \/ ClosePdf(p) \/ SaveRow(p) \/ Notify(p)

-----------------------------------------------------------------------------
(* Readers. *)

\* PayrollPage, from the link of a notification to Live: the record and the
\* file are fetched together and answered in either order.
OpenPayslip ==
    /\ Event /\ view.kind = "none" /\ \E p \in Publishers : <<p, Live>> \in told
    /\ view' = [NoView EXCEPT !.kind = "payslip", !.pc = "both"]
    /\ UNCHANGED <<vars, staffVars, storeVars, pub, torn, fresh>>

Disturbed == Live \in torn \/ \E p \in Publishers : Writing(p, Live)
FetchRecord ==
    /\ view.kind = "payslip" /\ view.pc \in {"both", "record"}
    /\ view' = [view EXCEPT !.pc = IF @ = "both" THEN "file" ELSE "done", !.rec = rec[Live],
                            !.crossed = @ \/ Disturbed]
    /\ UNCHANGED <<vars, staffVars, storeVars, pub, torn, fresh, events>>
FetchFile ==
    /\ view.kind = "payslip" /\ view.pc \in {"both", "file"}
    /\ view' = [view EXCEPT !.pc = IF @ = "both" THEN "record" ELSE "done", !.pdf = pdf[Live],
                            !.crossed = @ \/ Disturbed]
    /\ UNCHANGED <<vars, staffVars, storeVars, pub, torn, fresh, events>>

\* summarizeEmployeeAttendance reads the rows and then the OT requests, and
\* rounds the sum once to two decimals.
OpenSummary ==
    /\ Event /\ view.kind = "none" /\ PaidDay /\ active[Live]
    /\ view' = [NoView EXCEPT !.kind = "summary", !.pc = "ot", !.in = scanIn, !.out = scanOut]
    /\ UNCHANGED <<vars, staffVars, storeVars, pub, torn, fresh>>
Summed(in, out, ot) == Nearest(TotalWorkday(Live, in, out, ot), 100)
CloseSummary ==
    /\ view.kind = "summary" /\ view.pc = "ot"
    /\ view' = [view EXCEPT !.pc = "done", !.workday = Summed(view.in, view.out, otApproved)]
    /\ UNCHANGED <<vars, staffVars, storeVars, pub, torn, fresh, events>>

-----------------------------------------------------------------------------
PayNext ==
    \/ DayStep
    \/ \E e \in Raised : SetRate(e)
    \/ \E e \in Leaving : Deactivate(e)
    \/ \E p \in Publishers : Begin(p) \/ Publish(p) \/ FailPublication(p)
    \/ OpenPayslip \/ FetchRecord \/ FetchFile \/ OpenSummary \/ CloseSummary

PaySpec == PayInit /\ [][PayNext]_allVars

-----------------------------------------------------------------------------
(* Properties. *)

\* The file of an employee says what the row says, unless a call failed
\* between the two or two calls wrote them together; publishing the month
\* once more repairs it.
PayslipMatchesFile ==
    \A e \in Staff \ torn : (\A p \in Publishers : ~Writing(p, e)) => pdf[e] = rec[e]

\* Whoever was paid while nothing changed has exactly what the attendance, the
\* approved OT and the rate are worth, although they are read at three times
\* and each employee is written later.
UndisturbedPayIsExact == \A e \in fresh : rec[e] = AmountsNow(e) /\ pdf[e] = rec[e]

\* A call that reports success has paid and told every employee it began
\* with, and whoever was told has a payslip.
PublishedIsComplete ==
    /\ \A p \in Publishers : pub[p].pc = "done" => {p} \X pub[p].staff \subseteq told
    /\ \A pe \in told : rec[pe[2]] # NoPay /\ pdf[pe[2]] # NoPay

\* More than the hours of a full day are paid only with an approved OT request.
OvertimeIsApproved ==
    rec[Live].hours > 800 + Nearest(8 * Rest[Live], 100) => otApproved

\* The page shows an amount and a file that agree, unless the payslip was
\* being replaced while it loaded or was torn.
ShownPayslipMatchesFile ==
    view.kind = "payslip" /\ view.pc = "done" /\ ~view.crossed => view.rec = view.pdf

\* The manager's summary and the payslip round the same sum differently, and
\* differ by less than three minutes of work.
SummaryMatchesPayslip ==
    view.kind = "summary" /\ view.pc = "done" /\ ~view.crossed /\ Live \in fresh =>
      8 * view.workday - rec[Live].hours \in -4..4

\* Rows and files agree, in the store and on the page, among employees that
\* no failure tore apart.
PayslipsMatchFiles == TypeOK /\ PayTypeOK /\ PayslipMatchesFile /\ ShownPayslipMatchesFile

\* What is paid is what attendance, overtime and rate are worth.
PayIsExact == UndisturbedPayIsExact /\ OvertimeIsApproved

\* Rounded figures agree with unrounded ones and with each other: missing
\* minutes and status, window and credit, summary and payslip.
RoundedFiguresAgree ==
    MissingMinutesMatchStatus /\ StayingToTheWindowsEnd /\ SummaryMatchesPayslip
=============================================================================
