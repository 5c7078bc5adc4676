------------------------------ MODULE Requests ------------------------------
(***************************************************************************)
(* Overtime (OT) and explanation requests: RequestsService and the 04:00   *)
(* job of RequestsCronService.  Handlers run concurrently, one step per    *)
(* await.  approveExplanation is a Read Committed transaction: its writes  *)
(* become visible together at the commit, and until then other writers of  *)
(* the same rows wait for it.                                              *)
(***************************************************************************)
EXTENDS Integers, FiniteSets

CONSTANTS
    Slots,      \* requests the backend handles at the same time
    Rows,       \* ids of rows in the table requests
    Employees,
    NoOne,
    Limit,      \* explanations per month: 2 in the code
    MonthDays,  \* days of a month
    Ahead,      \* days an OT request may lie ahead: 7 in the code
    MaxDay      \* bound on the calendar

ASSUME CalendarAssumption ==
    MaxDay \in Nat /\ MonthDays \in Nat \ {0} /\ Ahead \in Nat /\ Limit \in Nat \ {0}
ASSUME NoOneAssumption == NoOne \notin Employees /\ NoOne \notin Rows
ASSUME RowsAssumption == IsFiniteSet(Rows)

VARIABLES
    today,       \* todayDate(): the calendar day, which starts at midnight
    early,       \* it is before 04:00: scans still count for yesterday
    status,      \* Request.status of each row, "none" before it exists
    request,     \* its employee, type and date
    attendance,  \* the DailyAttendance row of an employee and a day
    limit,       \* MonthlyLimit.explanation_count
    call,        \* what each handler is doing
    contested    \* history: rows that two handlers were deciding together

vars == <<today, early, status, request, attendance, limit, call, contested>>
timeVars == <<today, early>>
tableVars == <<status, request, attendance, limit>>

Days == 0..MaxDay
Month(d) == d \div MonthDays
Months == {Month(d) : d \in Days}
Types == {"OT", "EXPLANATION"}
Step == {"duplicate", "create", "attendance", "limit", "ot",
         "request", "decide", "approved", "recalculated"}
Call == [op: {"none", "createOt", "createExplanation", "approve", "reject"}, step: Step,
         emp: Employees \cup {NoOne}, day: Days, endTime: BOOLEAN, row: Rows \cup {NoOne}]
NoCall == [op |-> "none", step |-> "request", emp |-> NoOne, day |-> 0,
           endTime |-> FALSE, row |-> NoOne]

TypeOK ==
    /\ today \in Days /\ early \in BOOLEAN
    /\ status \in [Rows -> {"none", "PENDING", "APPROVED", "REJECTED"}]
    /\ request \in [Rows -> [emp: Employees \cup {NoOne}, type: Types, day: Days]]
    /\ attendance \in [Employees \X Days -> {"absent", "checkin", "checkout", "explained"}]
    /\ limit \in [Employees \X Months -> 0..Limit]
    /\ call \in [Slots -> Call]
    /\ contested \subseteq Rows

Init ==
    /\ today = 0 /\ early = FALSE
    /\ status = [r \in Rows |-> "none"]
    /\ request = [r \in Rows |-> [emp |-> NoOne, type |-> "OT", day |-> 0]]
    /\ attendance = [k \in Employees \X Days |-> "absent"]
    /\ limit = [k \in Employees \X Months |-> 0]
    /\ call = [s \in Slots |-> NoCall]
    /\ contested = {}

Become(s, step) == call' = [call EXCEPT ![s].step = step]
Answer(s) == call' = [call EXCEPT ![s] = NoCall]
\* An early return throws; otherwise the handler goes on.
Require(s, condition, step) == IF condition THEN Become(s, step) ELSE Answer(s)
At(s, op, step) == call[s].op = op /\ call[s].step = step

Exists(e, type, statuses, d) ==
    \E r \in Rows : /\ status[r] \in statuses
                    /\ request[r] = [emp |-> e, type |-> type, day |-> d]

\* Bound: a creation starts only while a row is left for it.
RowLeft ==
    Cardinality({s \in Slots : call[s].op \in {"createOt", "createExplanation"}})
      < Cardinality({r \in Rows : status[r] = "none"})

\* The new row is PENDING and gets a fresh id.
Create(s, type) ==
    \E r \in Rows :
      /\ status[r] = "none"
      /\ status' = [status EXCEPT ![r] = "PENDING"]
      /\ request' = [request EXCEPT ![r] =
           [emp |-> call[s].emp, type |-> type, day |-> call[s].day]]
      /\ Answer(s)
      /\ UNCHANGED <<timeVars, attendance, limit, contested>>

-----------------------------------------------------------------------------
(* createOtRequest *)

CreateOt(s, e, d) ==
    /\ call[s] = NoCall /\ RowLeft
    /\ d \in today..(today + Ahead)
    /\ call' = [call EXCEPT ![s] = [NoCall EXCEPT !.op = "createOt", !.step = "duplicate",
                                                  !.emp = e, !.day = d]]
    /\ UNCHANGED <<timeVars, tableVars, contested>>

FindPendingOt(s) ==
    /\ At(s, "createOt", "duplicate")
    /\ Require(s, ~Exists(call[s].emp, "OT", {"PENDING"}, call[s].day), "create")
    /\ UNCHANGED <<timeVars, tableVars, contested>>

CreateOtRow(s) == At(s, "createOt", "create") /\ Create(s, "OT")

-----------------------------------------------------------------------------
(* createExplanationRequest, for a row of the caller: any other is refused. *)

CreateExplanation(s, e, d, endTime) ==
    /\ call[s] = NoCall /\ RowLeft
    /\ call' = [call EXCEPT ![s] = [NoCall EXCEPT !.op = "createExplanation",
                 !.step = "attendance", !.emp = e, !.day = d, !.endTime = endTime]]
    /\ UNCHANGED <<timeVars, tableVars, contested>>

CheckAttendance(s) ==
    /\ At(s, "createExplanation", "attendance")
    /\ Require(s, attendance[<<call[s].emp, call[s].day>>] = "checkin" /\ call[s].day < today,
               "limit")
    /\ UNCHANGED <<timeVars, tableVars, contested>>

CheckLimit(s) ==
    /\ At(s, "createExplanation", "limit")
    /\ Require(s, limit[<<call[s].emp, Month(call[s].day)>>] < Limit, "duplicate")
    /\ UNCHANGED <<timeVars, tableVars, contested>>

FindExplanation(s) ==
    /\ At(s, "createExplanation", "duplicate")
    /\ Require(s, ~Exists(call[s].emp, "EXPLANATION", {"PENDING", "APPROVED"}, call[s].day),
               IF call[s].endTime THEN "create" ELSE "ot")
    /\ UNCHANGED <<timeVars, tableVars, contested>>

\* Without an end time the day must have no approved OT; 17:30 is assumed.
FindApprovedOt(s) ==
    /\ At(s, "createExplanation", "ot")
    /\ Require(s, ~Exists(call[s].emp, "OT", {"APPROVED"}, call[s].day), "create")
    /\ UNCHANGED <<timeVars, tableVars, contested>>

CreateExplanationRow(s) ==
    At(s, "createExplanation", "create") /\ Create(s, "EXPLANATION")

-----------------------------------------------------------------------------
(* approveRequest, approveExplanation and rejectRequest. *)

DecidableUnlessRejected(r) == status[r] \in {"PENDING", "APPROVED"}
Decidable(r) == status[r] = "PENDING"

Deciding(s, r) == call[s].row = r /\ call[s].step # "request"

\* The row lock of approveExplanation's first update.
LockOutlivesCommit(r) == status[r] = "APPROVED" \/ \E q \in Slots :
                           call[q].row = r /\ call[q].step \in {"approved", "recalculated"}
RequestLocked(r) ==
    \E q \in Slots : call[q].row = r /\ call[q].step \in {"approved", "recalculated"}

Decide(s, op, r) ==
    /\ call[s] = NoCall /\ status[r] # "none"
    /\ call' = [call EXCEPT ![s] = [NoCall EXCEPT !.op = op, !.row = r]]
    /\ UNCHANGED <<timeVars, tableVars, contested>>

\* findUnique, and the status check on what it returned.
ReadRequest(s) ==
    LET r == call[s].row IN
    /\ call[s].op \in {"approve", "reject"} /\ call[s].step = "request"
    /\ Require(s, Decidable(r), "decide")
    /\ contested' = IF Decidable(r) /\ \E q \in Slots : Deciding(q, r)
                      THEN contested \cup {r} ELSE contested
    /\ UNCHANGED <<timeVars, tableVars>>

\* rejectRequest, and approveRequest for OT: update by id alone.
WriteDecision(s) ==
    LET r == call[s].row IN
    /\ call[s].step = "decide" /\ ~RequestLocked(r)
    /\ call[s].op = "reject" \/ request[r].type = "OT"
    /\ status' = [status EXCEPT ![r] = IF call[s].op = "reject" THEN "REJECTED" ELSE "APPROVED"]
    /\ Answer(s)
    /\ UNCHANGED <<timeVars, request, attendance, limit, contested>>

\* approveExplanation: the transaction's first update, again by id alone.
ApproveInTransaction(s) ==
    LET r == call[s].row IN
    /\ At(s, "approve", "decide") /\ ~RequestLocked(r)
    /\ request[r].type = "EXPLANATION"
    /\ Become(s, "approved")
    /\ UNCHANGED <<timeVars, tableVars, contested>>

Key(r) == <<request[r].emp, request[r].day>>
AttendanceLocked(k) ==
    \E q \in Slots : call[q].step = "recalculated" /\ Key(call[q].row) = k

\* The row is read (it has a checkin), credit is computed and written; the
\* day's checkout is not looked at again.
Recalculate(s) ==
    LET r == call[s].row IN
    /\ At(s, "approve", "approved") /\ ~AttendanceLocked(Key(r))
    /\ Require(s, attendance[Key(r)] # "absent", "recalculated")
    /\ UNCHANGED <<timeVars, tableVars, contested>>

CurrentMonth(r) == <<request[r].emp, Month(today)>>
LimitKey(r) == <<request[r].emp, Month(request[r].day)>>

NoCondition(r) == TRUE
BelowLimit(r) == limit[LimitKey(r)] < Limit

\* upsert and conditional increment of MonthlyLimit, then the commit; at the
\* limit everything is rolled back.
ChargeAndCommit(s) ==
    LET r == call[s].row IN
    /\ At(s, "approve", "recalculated")
    /\ IF BelowLimit(r)
         THEN /\ status' = [status EXCEPT ![r] = "APPROVED"]
              /\ attendance' = [attendance EXCEPT ![Key(r)] = "explained"]
              /\ limit' = [limit EXCEPT ![LimitKey(r)] = @ + 1]
         ELSE UNCHANGED <<status, attendance, limit>>
    /\ Answer(s)
    /\ UNCHANGED <<timeVars, request, contested>>

\* A query fails or the process stops: an open transaction is rolled back.
Fail(s) ==
    /\ call[s] # NoCall
    /\ Answer(s)
    /\ UNCHANGED <<timeVars, tableVars, contested>>

-----------------------------------------------------------------------------
(* The cron job, the clock and the scans. *)

ExpiredYesterday(r) == request[r].day = today - 1
ExpiresToday(r) == request[r].day <= today
Expired(r) == request[r].day < today

\* autoRejectExpiredOtRequests, one updateMany; from 04:00 on.
AutoReject ==
    LET rejected == {r \in Rows : /\ status[r] = "PENDING" /\ request[r].type = "OT"
                                  /\ Expired(r)}
    IN
    /\ ~early /\ rejected # {}
    /\ status' = [r \in Rows |-> IF r \in rejected THEN "REJECTED" ELSE status[r]]
    /\ contested' = contested \cup {r \in rejected : \E s \in Slots : Deciding(s, r)}
    /\ UNCHANGED <<timeVars, request, attendance, limit, call>>

Midnight ==
    /\ ~early /\ today < MaxDay
    /\ today' = today + 1 /\ early' = TRUE
    /\ UNCHANGED <<tableVars, call, contested>>

FourOClock ==
    /\ early /\ early' = FALSE
    /\ UNCHANGED <<today, tableVars, call, contested>>

\* CheckinService writes the business date, with four hours of grace; its
\* second scan of a day overwrites the checkout, whoever set it.
AfterScan(a) == IF a = "absent" THEN "checkin" ELSE "checkout"

Scan(e) ==
    LET k == <<e, IF early THEN today - 1 ELSE today>> IN
    /\ ~AttendanceLocked(k)
    /\ attendance' = [attendance EXCEPT ![k] = AfterScan(@)]
    /\ UNCHANGED <<timeVars, status, request, limit, call, contested>>

-----------------------------------------------------------------------------
Continue(s) ==
    \/ FindPendingOt(s) \/ CreateOtRow(s)
    \/ CheckAttendance(s) \/ CheckLimit(s) \/ FindExplanation(s) \/ FindApprovedOt(s)
    \/ CreateExplanationRow(s)
    \/ ReadRequest(s) \/ WriteDecision(s)
    \/ ApproveInTransaction(s) \/ Recalculate(s) \/ ChargeAndCommit(s)

Start(s) ==
    \/ \E e \in Employees, d \in Days : CreateOt(s, e, d)
    \/ \E e \in Employees, d \in Days, b \in BOOLEAN : CreateExplanation(s, e, d, b)
    \/ \E op \in {"approve", "reject"}, r \in Rows : Decide(s, op, r)

Next ==
    \/ \E s \in Slots : Start(s) \/ Continue(s) \/ Fail(s)
    \/ \E e \in Employees : Scan(e)
    \/ AutoReject \/ Midnight \/ FourOClock

Spec == Init /\ [][Next]_vars

\* Node continues every handler, and PostgreSQL grants a row lock in the
\* order of the waiters, so one that is free again and again is granted
\* (strong fairness); time passes and the job runs every day.
FairSpec ==
    /\ Spec
    /\ \A s \in Slots : SF_vars(Continue(s))
    /\ WF_vars(FourOClock) /\ WF_vars(AutoReject)

-----------------------------------------------------------------------------
(* Properties. *)

Approved(e, m) ==
    {r \in Rows : /\ status[r] = "APPROVED" /\ request[r].type = "EXPLANATION"
                  /\ request[r].emp = e /\ Month(request[r].day) = m}

\* Plan/Timekeeping.md 2.4: at most Limit explanations a month.  However
\* approvals interleave, every approved one is covered by the counter and
\* the counter never passes the limit.
ApprovalsWithinLimit ==
    \A e \in Employees, m \in Months :
      Cardinality(Approved(e, m)) <= limit[<<e, m>>] /\ limit[<<e, m>>] <= Limit

\* Where no decision was contested the counter is exact: nothing is charged
\* for a request that was rejected or rolled back.
ChargedExactly ==
    contested = {} =>
      \A e \in Employees, m \in Months : limit[<<e, m>>] = Cardinality(Approved(e, m))

\* The approval and the recalculation stand or fall together: a day with an
\* approved explanation has a checkout, whatever scans come later.
ApprovedDayHasCheckout ==
    \A r \in Rows :
      status[r] = "APPROVED" /\ request[r].type = "EXPLANATION" =>
        attendance[Key(r)] \in {"checkout", "explained"}

\* Approvals are booked in full: counter and attendance with the status, in
\* tables that hold what they should.
ApprovalsAreBooked == TypeOK /\ ChargedExactly /\ ApprovedDayHasCheckout

Decided(r) == status[r] \in {"APPROVED", "REJECTED"}

\* Managers and the job that decide a request one after the other never
\* change a decision.
UncontestedDecisionIsFinal ==
    [][\A r \in Rows : Decided(r) /\ r \notin contested => status'[r] = status[r]]_vars

\* Handlers, transactions and the job together go through the steps of
\* RequestDesk: an approved explanation is charged and entered in its day in
\* the same step, for an employee who was there, and never beyond the limit; the
\* job rejects what is late and pending, and nothing else.
DayAtDesk(a) == CASE a = "absent" -> "empty" [] a = "checkin" -> "open" [] OTHER -> "closed"
AtDesk == [k \in Employees \X Days |-> DayAtDesk(attendance[k])]
Desk == INSTANCE RequestDesk WITH
    MonthOf  <- [d \in Days |-> Month(d)],
    filed    <- request,
    verdict  <- status,
    day      <- AtDesk,
    charged  <- limit,
    disputed <- contested
DecidedAtTheDesk == Desk!DeskSpec

\* An OT request that nobody decides does not stay PENDING after its day.
ExpiredOtIsDecided ==
    \A r \in Rows :
      (status[r] = "PENDING" /\ request[r].type = "OT" /\ request[r].day < today)
        ~> (status[r] # "PENDING")

\* Waiting for a row lock never blocks a handler for ever.
EveryCallAnswered == \A s \in Slots : (call[s] # NoCall) ~> (call[s] = NoCall)
=============================================================================
