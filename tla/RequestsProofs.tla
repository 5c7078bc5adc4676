--------------------------- MODULE RequestsProofs ---------------------------
(* Theorems about Requests, for every number of handlers, rows, employees  *)
(* and days.                                                               *)
EXTENDS Requests, FiniteSetTheorems, TLAPS

RequestsOK == \A r \in Rows : status[r] # "none" => request[r].emp \in Employees

\* What a handler may rely on about the call it serves.
CallOK(c) ==
    /\ c.op \in {"createOt", "createExplanation"} => c.emp \in Employees
    /\ c.op \in {"approve", "reject"} => c.row \in Rows /\ status[c.row] # "none"
    /\ c.step = "decide" => c.op \in {"approve", "reject"}
    /\ c.step \in {"approved", "recalculated"} =>
         c.op = "approve" /\ request[c.row].type = "EXPLANATION"

\* The inductive invariant: ApprovalsWithinLimit alone does not know that the
\* row a transaction commits is an explanation of an employee.
IInv ==
    /\ TypeOK
    /\ early => today # 0
    /\ RequestsOK
    /\ \A s \in Slots : CallOK(call[s])
    /\ ApprovalsWithinLimit

-----------------------------------------------------------------------------
LEMMA MonthType == ASSUME NEW d \in Days PROVE Month(d) \in Months
BY DEF Months

LEMMA NoCallType == NoCall \in Call /\ CallOK(NoCall)
BY CalendarAssumption DEF NoCall, Call, CallOK, Step, Days

LEMMA ApprovedFinite ==
    ASSUME NEW e, NEW m
    PROVE  IsFiniteSet(Approved(e, m)) /\ Cardinality(Approved(e, m)) \in Nat
<1>1. Approved(e, m) \subseteq Rows
  BY DEF Approved
<1> QED
  BY <1>1, RowsAssumption, FS_Subset, FS_CardinalityType

LEMMA InitIInv == Init => IInv
<1> SUFFICES ASSUME Init PROVE IInv
  OBVIOUS
<1> USE DEF Init
<1>1. TypeOK
  <2>1. today \in Days /\ 0 \in 0..Limit
    BY CalendarAssumption DEF Days
  <2>5. early \in BOOLEAN
    OBVIOUS
  <2>2. request \in [Rows -> [emp: Employees \cup {NoOne}, type: Types, day: Days]]
    BY CalendarAssumption DEF Types, Days
  <2>3. call \in [Slots -> Call]
    BY NoCallType
  <2>4. limit \in [Employees \X Months -> 0..Limit]
    BY <2>1
  <2> QED
    BY <2>1, <2>2, <2>3, <2>4, <2>5 DEF TypeOK
<1>2. \A s \in Slots : CallOK(call[s])
  BY NoCallType
<1>3. ApprovalsWithinLimit
  <2> SUFFICES ASSUME NEW e \in Employees, NEW m \in Months
               PROVE  Cardinality(Approved(e, m)) <= limit[<<e, m>>] /\ limit[<<e, m>>] <= Limit
    BY DEF ApprovalsWithinLimit
  <2>1. Approved(e, m) = {}
    BY DEF Approved
  <2>2. limit[<<e, m>>] = 0
    OBVIOUS
  <2> QED
    BY <2>1, <2>2, FS_EmptySet, CalendarAssumption
<1> QED
  BY <1>1, <1>2, <1>3 DEF IInv, RequestsOK

\* A step of one handler that writes no table.
LEMMA HandlerStep ==
    ASSUME IInv, NEW s \in Slots, NEW c \in Call, CallOK(c),
           call' = [call EXCEPT ![s] = c], UNCHANGED <<timeVars, tableVars>>,
           contested' \subseteq Rows
    PROVE  IInv'
<1> USE DEF timeVars, tableVars
<1>1. TypeOK'
  BY DEF IInv, TypeOK
<1>2. \A q \in Slots : CallOK(call[q])'
  BY DEF IInv, TypeOK, CallOK
<1>3. ApprovalsWithinLimit'
  BY DEF IInv, ApprovalsWithinLimit, Approved
<1>4. RequestsOK' /\ (early => today # 0)'
  BY DEF IInv, RequestsOK
<1> QED
  BY <1>1, <1>2, <1>3, <1>4 DEF IInv

LEMMA AnswerStep ==
    ASSUME IInv, NEW s \in Slots, Answer(s), UNCHANGED <<timeVars, tableVars, contested>>
    PROVE  IInv'
BY NoCallType, HandlerStep DEF Answer, IInv, TypeOK

LEMMA BecomeStep ==
    ASSUME IInv, NEW s \in Slots, NEW step \in Step, Become(s, step),
           CallOK([call[s] EXCEPT !.step = step]),
           UNCHANGED <<timeVars, tableVars>>, contested' \subseteq Rows
    PROVE  IInv'
<1> DEFINE c == [call[s] EXCEPT !.step = step]
<1>1. c \in Call
  BY DEF IInv, TypeOK, Call
<1>2. call' = [call EXCEPT ![s] = c]
  BY DEF Become
<1> QED
  BY <1>1, <1>2, HandlerStep

LEMMA RequireStep ==
    ASSUME IInv, NEW s \in Slots, NEW condition, NEW step \in Step,
           Require(s, condition, step), CallOK([call[s] EXCEPT !.step = step]),
           UNCHANGED <<timeVars, tableVars, contested>>
    PROVE  IInv'
<1>1. contested' \subseteq Rows
  BY DEF IInv, TypeOK
<1>2. CASE condition
  BY <1>1, <1>2, BecomeStep DEF Require
<1>3. CASE ~condition
  BY <1>3, AnswerStep DEF Require
<1> QED
  BY <1>2, <1>3

-----------------------------------------------------------------------------
(* Creating requests. *)

LEMMA StartCreationIInv ==
    ASSUME IInv, NEW s \in Slots, NEW e \in Employees, NEW d \in Days, NEW b \in BOOLEAN,
           CreateOt(s, e, d) \/ CreateExplanation(s, e, d, b)
    PROVE  IInv'
<1>1. contested' \subseteq Rows /\ UNCHANGED <<timeVars, tableVars>>
  BY DEF CreateOt, CreateExplanation, IInv, TypeOK
<1>2. CASE CreateOt(s, e, d)
  <2> DEFINE c == [NoCall EXCEPT !.op = "createOt", !.step = "duplicate", !.emp = e, !.day = d]
  <2>1. c \in Call /\ CallOK(c)
    BY NoCallType DEF NoCall, Call, CallOK, Step
  <2> QED
    BY <1>1, <1>2, <2>1, HandlerStep DEF CreateOt
<1>3. CASE CreateExplanation(s, e, d, b)
  <2> DEFINE c == [NoCall EXCEPT !.op = "createExplanation", !.step = "attendance",
                                 !.emp = e, !.day = d, !.endTime = b]
  <2>1. c \in Call /\ CallOK(c)
    BY NoCallType DEF NoCall, Call, CallOK, Step
  <2> QED
    BY <1>1, <1>3, <2>1, HandlerStep DEF CreateExplanation
<1> QED
  BY <1>2, <1>3

LEMMA CreationCheckIInv ==
    ASSUME IInv, NEW s \in Slots,
           \/ FindPendingOt(s) \/ CheckAttendance(s) \/ CheckLimit(s)
           \/ FindExplanation(s) \/ FindApprovedOt(s)
    PROVE  IInv'
<1>1. call[s] \in Call /\ CallOK(call[s]) /\ call[s].op \in {"createOt", "createExplanation"}
  BY DEF IInv, TypeOK, FindPendingOt, CheckAttendance, CheckLimit, FindExplanation,
         FindApprovedOt, At
<1>2. \A step \in {"duplicate", "create", "limit", "ot"} :
        step \in Step /\ CallOK([call[s] EXCEPT !.step = step])
  BY <1>1 DEF CallOK, Call, Step
<1>3. UNCHANGED <<timeVars, tableVars, contested>>
  BY DEF FindPendingOt, CheckAttendance, CheckLimit, FindExplanation, FindApprovedOt
<1>4. CASE FindPendingOt(s)
  BY <1>2, <1>3, <1>4, RequireStep DEF FindPendingOt
<1>5. CASE CheckAttendance(s)
  BY <1>2, <1>3, <1>5, RequireStep DEF CheckAttendance
<1>6. CASE CheckLimit(s)
  BY <1>2, <1>3, <1>6, RequireStep DEF CheckLimit
<1>7. CASE FindExplanation(s)
  BY <1>2, <1>3, <1>7, RequireStep DEF FindExplanation
<1>8. CASE FindApprovedOt(s)
  BY <1>2, <1>3, <1>8, RequireStep DEF FindApprovedOt
<1> QED
  BY <1>4, <1>5, <1>6, <1>7, <1>8

LEMMA CreateIInv ==
    ASSUME IInv, NEW s \in Slots, NEW type \in Types, Create(s, type),
           call[s].op \in {"createOt", "createExplanation"}
    PROVE  IInv'
<1>1. PICK r \in Rows :
        /\ status[r] = "none"
        /\ status' = [status EXCEPT ![r] = "PENDING"]
        /\ request' = [request EXCEPT ![r] =
             [emp |-> call[s].emp, type |-> type, day |-> call[s].day]]
        /\ Answer(s)
        /\ UNCHANGED <<timeVars, attendance, limit, contested>>
  BY DEF Create
<1> USE DEF timeVars
<1>2. call[s].emp \in Employees /\ call[s].day \in Days
  BY DEF IInv, TypeOK, CallOK, Call
<1>3. call' = [call EXCEPT ![s] = NoCall]
  BY <1>1 DEF Answer
<1>4. TypeOK'
  <2>1. request' \in [Rows -> [emp: Employees \cup {NoOne}, type: Types, day: Days]]
    BY <1>1, <1>2 DEF IInv, TypeOK
  <2> QED
    BY <1>1, <1>3, <2>1, NoCallType DEF IInv, TypeOK
<1>5. RequestsOK'
  BY <1>1, <1>2 DEF IInv, TypeOK, RequestsOK
<1>6. \A q \in Slots : CallOK(call[q])'
  <2> SUFFICES ASSUME NEW q \in Slots PROVE CallOK(call[q])'
    OBVIOUS
  <2>1. CASE q = s
    BY <1>3, <2>1, NoCallType DEF IInv, TypeOK, CallOK, NoCall
  <2>2. CASE q # s
    BY <1>1, <1>3, <2>2 DEF IInv, TypeOK, CallOK
  <2> QED
    BY <2>1, <2>2
<1>7. ApprovalsWithinLimit'
  <2>1. \A e \in Employees, m \in Months : Approved(e, m)' = Approved(e, m)
    BY <1>1 DEF Approved, IInv, TypeOK
  <2> QED
    BY <1>1, <2>1 DEF IInv, ApprovalsWithinLimit
<1> QED
  BY <1>1, <1>4, <1>5, <1>6, <1>7 DEF IInv

-----------------------------------------------------------------------------
(* Deciding requests. *)

LEMMA DecideIInv ==
    ASSUME IInv, NEW s \in Slots, NEW op \in {"approve", "reject"}, NEW r \in Rows,
           Decide(s, op, r)
    PROVE  IInv'
<1> DEFINE c == [NoCall EXCEPT !.op = op, !.row = r]
<1>1. c \in Call /\ CallOK(c)
  BY NoCallType DEF NoCall, Call, CallOK, Decide
<1>2. contested' \subseteq Rows
  BY DEF Decide, IInv, TypeOK
<1> QED
  BY <1>1, <1>2, HandlerStep DEF Decide

\* A row of a call that decides exists and is a row of the table.
LEMMA DecidedRow ==
    ASSUME IInv, NEW s \in Slots, call[s].op \in {"approve", "reject"}
    PROVE  /\ call[s] \in Call /\ CallOK(call[s])
           /\ call[s].row \in Rows /\ status[call[s].row] # "none"
BY DEF IInv, TypeOK, CallOK

LEMMA ReadRequestIInv ==
    ASSUME IInv, NEW s \in Slots, ReadRequest(s)
    PROVE  IInv'
<1>1. call[s].op \in {"approve", "reject"}
  BY DEF ReadRequest
<1>2. CallOK([call[s] EXCEPT !.step = "decide"]) /\ "decide" \in Step
  BY <1>1, DecidedRow DEF CallOK, Call, Step
<1>3. contested' \subseteq Rows
  BY <1>1, DecidedRow DEF ReadRequest, IInv, TypeOK
<1>4. UNCHANGED <<timeVars, tableVars>>
  BY DEF ReadRequest
<1>5. CASE Decidable(call[s].row)
  BY <1>2, <1>3, <1>4, <1>5, BecomeStep DEF ReadRequest, Require
<1>6. CASE ~Decidable(call[s].row)
  BY <1>4, <1>6, AnswerStep DEF ReadRequest, Require
<1> QED
  BY <1>5, <1>6

LEMMA ApproveInTransactionIInv ==
    ASSUME IInv, NEW s \in Slots, ApproveInTransaction(s)
    PROVE  IInv'
<1>1. call[s].op = "approve"
  BY DEF ApproveInTransaction, At
<1>2. CallOK([call[s] EXCEPT !.step = "approved"]) /\ "approved" \in Step
  BY <1>1, DecidedRow DEF CallOK, Call, Step, ApproveInTransaction
<1>3. contested' \subseteq Rows
  BY DEF ApproveInTransaction, IInv, TypeOK
<1> QED
  BY <1>2, <1>3, BecomeStep DEF ApproveInTransaction

LEMMA RecalculateIInv ==
    ASSUME IInv, NEW s \in Slots, Recalculate(s)
    PROVE  IInv'
<1>1. call[s].op = "approve" /\ call[s].step = "approved"
  BY DEF Recalculate, At
<1>2. CallOK([call[s] EXCEPT !.step = "recalculated"]) /\ "recalculated" \in Step
  BY <1>1, DecidedRow DEF CallOK, Call, Step
<1> QED
  BY <1>2, RequireStep DEF Recalculate

\* Deciding rows one way or the other, without adding to the approved
\* explanations of anybody.
LEMMA StatusStep ==
    ASSUME IInv,
           status' \in [Rows -> {"none", "PENDING", "APPROVED", "REJECTED"}],
           \A r \in Rows : status'[r] = "none" <=> status[r] = "none",
           \A r \in Rows : status'[r] = "APPROVED" =>
                             status[r] = "APPROVED" \/ request[r].type = "OT",
           UNCHANGED <<timeVars, request, attendance, limit>>,
           contested' \subseteq Rows,
           call' = call \/ \E s \in Slots : call' = [call EXCEPT ![s] = NoCall]
    PROVE  IInv'
<1> USE DEF timeVars
<1>1. TypeOK'
  BY NoCallType DEF IInv, TypeOK
<1>2. RequestsOK'
  BY DEF IInv, RequestsOK
<1>3. \A q \in Slots : CallOK(call[q])'
  <2> SUFFICES ASSUME NEW q \in Slots PROVE CallOK(call[q])'
    OBVIOUS
  <2>1. call'[q] = call[q] \/ call'[q] = NoCall
    BY DEF IInv, TypeOK
  <2>2. CASE call'[q] = call[q]
    BY <2>2 DEF IInv, CallOK
  <2>3. CASE call'[q] = NoCall
    BY <2>3 DEF CallOK, NoCall
  <2> QED
    BY <2>1, <2>2, <2>3
<1>4. ApprovalsWithinLimit'
  <2> SUFFICES ASSUME NEW e \in Employees, NEW m \in Months
               PROVE  Cardinality(Approved(e, m)') <= limit[<<e, m>>] /\ limit[<<e, m>>] <= Limit
    BY DEF ApprovalsWithinLimit
  <2>1. Approved(e, m)' \subseteq Approved(e, m)
    BY DEF Approved
  <2>2. Cardinality(Approved(e, m)') <= Cardinality(Approved(e, m))
        /\ Cardinality(Approved(e, m)') \in Nat
    BY <2>1, ApprovedFinite, FS_Subset, FS_CardinalityType
  <2>3. Cardinality(Approved(e, m)) <= limit[<<e, m>>] /\ limit[<<e, m>>] <= Limit
    BY DEF IInv, ApprovalsWithinLimit
  <2>4. limit[<<e, m>>] \in Nat
    BY CalendarAssumption DEF IInv, TypeOK
  <2> QED
    BY <2>2, <2>3, <2>4, ApprovedFinite
<1> QED
  BY <1>1, <1>2, <1>3, <1>4 DEF IInv

LEMMA WriteDecisionIInv ==
    ASSUME IInv, NEW s \in Slots, WriteDecision(s)
    PROVE  IInv'
<1> DEFINE r == call[s].row
<1>1. call[s].op \in {"approve", "reject"}
  BY DEF WriteDecision, IInv, CallOK
<1>2. r \in Rows /\ status[r] # "none"
  BY <1>1, DecidedRow
<1>3. status' = [status EXCEPT ![r] = IF call[s].op = "reject" THEN "REJECTED" ELSE "APPROVED"]
      /\ (call[s].op = "reject" \/ request[r].type = "OT")
  BY DEF WriteDecision
<1>4. /\ status' \in [Rows -> {"none", "PENDING", "APPROVED", "REJECTED"}]
      /\ \A q \in Rows : status'[q] = "none" <=> status[q] = "none"
      /\ \A q \in Rows : status'[q] = "APPROVED" =>
                           status[q] = "APPROVED" \/ request[q].type = "OT"
  BY <1>2, <1>3 DEF IInv, TypeOK
<1>5. /\ UNCHANGED <<timeVars, request, attendance, limit>>
      /\ contested' \subseteq Rows
      /\ call' = [call EXCEPT ![s] = NoCall]
  BY DEF WriteDecision, Answer, IInv, TypeOK
<1> QED
  BY <1>4, <1>5, StatusStep

LEMMA AutoRejectIInv ==
    ASSUME IInv, AutoReject
    PROVE  IInv'
<1>1. /\ status' \in [Rows -> {"none", "PENDING", "APPROVED", "REJECTED"}]
      /\ \A q \in Rows : status'[q] = "none" <=> status[q] = "none"
      /\ \A q \in Rows : status'[q] = "APPROVED" =>
                           status[q] = "APPROVED" \/ request[q].type = "OT"
  BY DEF AutoReject, IInv, TypeOK
<1>2. contested' \subseteq Rows
  BY DEF AutoReject, IInv, TypeOK
<1> QED
  BY <1>1, <1>2, StatusStep DEF AutoReject

\* The commit of approveExplanation: one more approved explanation at most,
\* and then the counter of its month grew with it.
LEMMA ChargeAndCommitIInv ==
    ASSUME IInv, NEW s \in Slots, ChargeAndCommit(s)
    PROVE  IInv'
<1> DEFINE r == call[s].row
<1> DEFINE k == LimitKey(r)
<1>1. call[s].op = "approve" /\ call[s].step = "recalculated"
  BY DEF ChargeAndCommit, At
<1>2. r \in Rows /\ status[r] # "none" /\ request[r].type = "EXPLANATION"
  BY <1>1, DecidedRow DEF CallOK
<1>3. request[r].emp \in Employees /\ request[r].day \in Days
  BY <1>2 DEF IInv, TypeOK, RequestsOK
<1>4. k = <<request[r].emp, Month(request[r].day)>> /\ k \in Employees \X Months
  BY <1>3, MonthType DEF LimitKey
<1>5. limit[k] \in 0..Limit /\ Limit \in Nat
  BY <1>4, CalendarAssumption DEF IInv, TypeOK
<1>6. call' = [call EXCEPT ![s] = NoCall] /\ UNCHANGED <<today, early, request, contested>>
  BY DEF ChargeAndCommit, Answer, timeVars
<1>7. CASE ~BelowLimit(r)
  <2>1. UNCHANGED <<timeVars, tableVars, contested>>
    BY <1>7 DEF ChargeAndCommit, tableVars
  <2>2. Answer(s)
    BY DEF ChargeAndCommit
  <2> QED
    BY <2>1, <2>2, AnswerStep
<1>8. CASE BelowLimit(r)
  <2>1. /\ status' = [status EXCEPT ![r] = "APPROVED"]
        /\ attendance' = [attendance EXCEPT ![Key(r)] = "explained"]
        /\ limit' = [limit EXCEPT ![k] = @ + 1]
    BY <1>8 DEF ChargeAndCommit
  <2>2. limit[k] + 1 \in 0..Limit
    BY <1>5, <1>8 DEF BelowLimit
  <2>3. TypeOK'
    <3>1. attendance' \in [Employees \X Days -> {"absent", "checkin", "checkout", "explained"}]
      BY <2>1 DEF IInv, TypeOK
    <3>2. limit' \in [Employees \X Months -> 0..Limit]
      BY <1>4, <2>1, <2>2 DEF IInv, TypeOK
    <3>3. status' \in [Rows -> {"none", "PENDING", "APPROVED", "REJECTED"}]
      BY <2>1 DEF IInv, TypeOK
    <3>4. call' \in [Slots -> Call]
      BY <1>6, NoCallType DEF IInv, TypeOK
    <3> QED
      BY <1>6, <3>1, <3>2, <3>3, <3>4 DEF IInv, TypeOK
  <2>4. RequestsOK'
    BY <1>2, <1>6, <2>1 DEF IInv, TypeOK, RequestsOK
  <2>5. \A q \in Slots : CallOK(call[q])'
    <3> SUFFICES ASSUME NEW q \in Slots PROVE CallOK(call[q])'
      OBVIOUS
    <3>1. call'[q] = call[q] \/ call'[q] = NoCall
      BY <1>6 DEF IInv, TypeOK
    <3>2. CASE call'[q] = call[q]
      BY <1>2, <1>6, <2>1, <3>2 DEF IInv, TypeOK, CallOK
    <3>3. CASE call'[q] = NoCall
      BY <3>3 DEF CallOK, NoCall
    <3> QED
      BY <3>1, <3>2, <3>3
  <2>6. ApprovalsWithinLimit'
    <3> SUFFICES ASSUME NEW e \in Employees, NEW m \in Months
                 PROVE  /\ Cardinality(Approved(e, m)') <= limit'[<<e, m>>]
                        /\ limit'[<<e, m>>] <= Limit
      BY DEF ApprovalsWithinLimit
    <3>1. /\ Cardinality(Approved(e, m)) <= limit[<<e, m>>] /\ limit[<<e, m>>] <= Limit
          /\ limit[<<e, m>>] \in Nat
      BY CalendarAssumption DEF IInv, TypeOK, ApprovalsWithinLimit
    <3>2. CASE <<e, m>> = k
      <4>1. Approved(e, m)' \subseteq Approved(e, m) \cup {r}
        BY <1>2, <1>6, <2>1 DEF Approved, IInv, TypeOK
      <4>2. IsFiniteSet(Approved(e, m) \cup {r})
            /\ Cardinality(Approved(e, m) \cup {r}) <= Cardinality(Approved(e, m)) + 1
        <5>1. Cardinality(Approved(e, m) \cup {r}) =
                IF r \in Approved(e, m) THEN Cardinality(Approved(e, m))
                                       ELSE Cardinality(Approved(e, m)) + 1
          BY ApprovedFinite, FS_AddElement
        <5>2. IsFiniteSet(Approved(e, m) \cup {r})
          BY ApprovedFinite, FS_AddElement
        <5>3. Cardinality(Approved(e, m)) \in Nat
          BY ApprovedFinite
        <5> QED
          BY <5>1, <5>2, <5>3
      <4>3. Cardinality(Approved(e, m)') <= Cardinality(Approved(e, m) \cup {r})
        BY <4>1, <4>2, FS_Subset
      <4>4. Cardinality(Approved(e, m)') \in Nat /\ Cardinality(Approved(e, m) \cup {r}) \in Nat
        BY <4>1, <4>2, FS_Subset, FS_CardinalityType
      <4>5. limit'[<<e, m>>] = limit[<<e, m>>] + 1 /\ limit[<<e, m>>] + 1 <= Limit
        <5>1. limit \in [Employees \X Months -> 0..Limit]
          BY DEF IInv, TypeOK
        <5>2. limit'[k] = limit[k] + 1 /\ limit[k] + 1 <= Limit
          BY <1>4, <1>5, <2>1, <2>2, <5>1
        <5> QED
          BY <3>2, <5>2
      <4> QED
        BY <3>1, <4>2, <4>3, <4>4, <4>5, ApprovedFinite
    <3>3. CASE <<e, m>> # k
      <4>1. ~(request[r].emp = e /\ Month(request[r].day) = m)
        BY <1>4, <3>3
      <4>2. Approved(e, m)' = Approved(e, m)
        BY <1>2, <1>6, <2>1, <4>1 DEF Approved, IInv, TypeOK
      <4>3. limit'[<<e, m>>] = limit[<<e, m>>]
        BY <1>4, <2>1, <3>3 DEF IInv, TypeOK
      <4> QED
        BY <3>1, <4>2, <4>3
    <3> QED
      BY <3>2, <3>3
  <2> QED
    BY <1>6, <2>3, <2>4, <2>5, <2>6 DEF IInv
<1> QED
  BY <1>7, <1>8

-----------------------------------------------------------------------------
(* The clock and the scans. *)

LEMMA ClockAndScanIInv ==
    ASSUME IInv, Midnight \/ FourOClock \/ \E e \in Employees : Scan(e)
    PROVE  IInv'
<1>1. UNCHANGED <<status, request, limit, call, contested>>
  BY DEF Midnight, FourOClock, Scan, tableVars
<1>2. today' \in Days /\ early' \in BOOLEAN /\ (early => today # 0)'
  <2>1. CASE Midnight
    <3>1. today \in Nat /\ today + 1 \in Days /\ today' = today + 1 /\ early' = TRUE
      BY <2>1, CalendarAssumption DEF Midnight, IInv, TypeOK, Days
    <3>2. today' # 0
      BY <3>1
    <3> QED
      BY <3>1, <3>2
  <2>2. CASE FourOClock
    BY <2>2 DEF FourOClock, IInv, TypeOK
  <2>3. CASE \E e \in Employees : Scan(e)
    BY <2>3 DEF Scan, timeVars, IInv, TypeOK
  <2> QED
    BY <2>1, <2>2, <2>3
<1>3. attendance' \in [Employees \X Days -> {"absent", "checkin", "checkout", "explained"}]
  <2>1. CASE Midnight \/ FourOClock
    BY <2>1 DEF Midnight, FourOClock, tableVars, IInv, TypeOK
  <2>2. ASSUME NEW e \in Employees, Scan(e)
        PROVE  attendance' \in [Employees \X Days -> {"absent", "checkin", "checkout", "explained"}]
    BY <2>2 DEF Scan, AfterScan, IInv, TypeOK
  <2> QED
    BY <2>1, <2>2
<1>4. TypeOK'
  BY <1>1, <1>2, <1>3 DEF IInv, TypeOK
<1>5. RequestsOK' /\ (\A s \in Slots : CallOK(call[s]))'
  BY <1>1 DEF IInv, RequestsOK, CallOK
<1>6. ApprovalsWithinLimit'
  BY <1>1 DEF IInv, ApprovalsWithinLimit, Approved
<1> QED
  BY <1>2, <1>4, <1>5, <1>6 DEF IInv

LEMMA StutterIInv == IInv /\ UNCHANGED vars => IInv'
<1> SUFFICES ASSUME IInv, UNCHANGED vars PROVE IInv'
  OBVIOUS
<1> USE DEF vars
<1>1. TypeOK' /\ (early => today # 0)'
  BY DEF IInv, TypeOK
<1>2. RequestsOK' /\ (\A s \in Slots : CallOK(call[s]))'
  BY DEF IInv, RequestsOK, CallOK
<1>3. ApprovalsWithinLimit'
  BY DEF IInv, ApprovalsWithinLimit, Approved
<1> QED
  BY <1>1, <1>2, <1>3 DEF IInv

LEMMA HandlerIInv ==
    ASSUME IInv, NEW s \in Slots, Start(s) \/ Continue(s) \/ Fail(s)
    PROVE  IInv'
<1>1. CASE Start(s)
  <2>1. ASSUME NEW e \in Employees, NEW d \in Days, CreateOt(s, e, d) PROVE IInv'
    BY <2>1, StartCreationIInv, TRUE \in BOOLEAN
  <2>2. ASSUME NEW e \in Employees, NEW d \in Days, NEW b \in BOOLEAN,
               CreateExplanation(s, e, d, b)
        PROVE  IInv'
    BY <2>2, StartCreationIInv
  <2>3. ASSUME NEW op \in {"approve", "reject"}, NEW r \in Rows, Decide(s, op, r) PROVE IInv'
    BY <2>3, DecideIInv
  <2> QED
    BY <1>1, <2>1, <2>2, <2>3 DEF Start
<1>2. CASE Continue(s)
  <2>1. CASE \/ FindPendingOt(s) \/ CheckAttendance(s) \/ CheckLimit(s)
             \/ FindExplanation(s) \/ FindApprovedOt(s)
    BY <2>1, CreationCheckIInv
  <2>2. CASE CreateOtRow(s)
    BY <2>2, CreateIInv DEF CreateOtRow, At, Types
  <2>3. CASE CreateExplanationRow(s)
    BY <2>3, CreateIInv DEF CreateExplanationRow, At, Types
  <2>4. CASE ReadRequest(s)
    BY <2>4, ReadRequestIInv
  <2>5. CASE WriteDecision(s)
    BY <2>5, WriteDecisionIInv
  <2>6. CASE ApproveInTransaction(s)
    BY <2>6, ApproveInTransactionIInv
  <2>7. CASE Recalculate(s)
    BY <2>7, RecalculateIInv
  <2>8. CASE ChargeAndCommit(s)
    BY <2>8, ChargeAndCommitIInv
  <2> QED
    BY <1>2, <2>1, <2>2, <2>3, <2>4, <2>5, <2>6, <2>7, <2>8 DEF Continue
<1>3. CASE Fail(s)
  BY <1>3, AnswerStep DEF Fail
<1> QED
  BY <1>1, <1>2, <1>3

-----------------------------------------------------------------------------
\* The inductive invariant holds in every reachable state.
THEOREM Invariance == Spec => []IInv
<1>1. IInv /\ [Next]_vars => IInv'
  <2> SUFFICES ASSUME IInv, [Next]_vars PROVE IInv'
    OBVIOUS
  <2>1. ASSUME NEW s \in Slots, Start(s) \/ Continue(s) \/ Fail(s) PROVE IInv'
    BY <2>1, HandlerIInv
  <2>2. CASE (\E e \in Employees : Scan(e)) \/ Midnight \/ FourOClock
    BY <2>2, ClockAndScanIInv
  <2>3. CASE AutoReject
    BY <2>3, AutoRejectIInv
  <2>4. CASE UNCHANGED vars
    BY <2>4, StutterIInv
  <2> QED
    BY <2>1, <2>2, <2>3, <2>4 DEF Next
<1> QED
  BY <1>1, InitIInv, PTL DEF Spec

\* Type correctness of the request tables and of every call.
THEOREM TypeCorrect == Spec => []TypeOK
<1>1. IInv => TypeOK
  BY DEF IInv
<1> QED
  BY <1>1, Invariance, PTL

\* Nobody ever has more explanations approved in a month than the counter
\* says, and the counter never passes the limit, for any number of
\* concurrent approvals, rejections and failures.
THEOREM LimitRespected == Spec => []ApprovalsWithinLimit
<1>1. IInv => ApprovalsWithinLimit
  BY DEF IInv
<1> QED
  BY <1>1, Invariance, PTL
-----------------------------------------------------------------------------
(* Who decides, and what is booked. *)

\* A request that is not contested has at most one handler deciding it, and
\* while it has, nobody has decided it yet.
SoleDecider ==
    \A r \in Rows \ contested, s \in Slots :
      Deciding(s, r) => status[r] = "PENDING" /\ \A q \in Slots : Deciding(q, r) => q = s

BookedInv == SoleDecider /\ ChargedExactly /\ ApprovedDayHasCheckout

\* A step of one handler that brings no new decider keeps SoleDecider, if it
\* decides only what the handler itself has been deciding.
LEMMA SoleDeciderStep ==
    ASSUME IInv, SoleDecider, NEW s \in Slots, NEW c,
           call' = [call EXCEPT ![s] = c], contested' = contested,
           c.row \in Rows /\ c.step # "request" => Deciding(s, c.row),
           \A r \in Rows \ contested :
             status'[r] # status[r] =>
               (\A q \in Slots : ~Deciding(q, r)) \/ (Deciding(s, r) /\ c.step = "request")
    PROVE  SoleDecider'
<1> SUFFICES ASSUME NEW r \in Rows \ contested, NEW q \in Slots, Deciding(q, r)'
             PROVE  status'[r] = "PENDING" /\ \A p \in Slots : Deciding(p, r)' => p = q
  BY DEF SoleDecider
<1>1. \A p \in Slots : Deciding(p, r)' => Deciding(p, r) /\ (p = s => c.step # "request")
  BY DEF Deciding, IInv, TypeOK
<1>2. status[r] = "PENDING" /\ \A p \in Slots : Deciding(p, r) => p = q
  BY <1>1 DEF SoleDecider
<1>3. status'[r] = status[r]
  BY <1>1, <1>2
<1> QED
  BY <1>1, <1>2, <1>3

\* Without a change in the tables the bookings stay as they are.
LEMMA SameTables ==
    ASSUME ChargedExactly, ApprovedDayHasCheckout, UNCHANGED tableVars,
           contested' = {} => contested = {}
    PROVE  ChargedExactly' /\ ApprovedDayHasCheckout'
BY DEF tableVars, ChargedExactly, ApprovedDayHasCheckout, Approved, Key

\* A handler that only goes on, or gives up.
LEMMA GoOn ==
    ASSUME IInv, BookedInv, NEW s \in Slots, NEW c,
           call' = [call EXCEPT ![s] = c], UNCHANGED <<tableVars, contested>>,
           c.row \in Rows /\ c.step # "request" => Deciding(s, c.row)
    PROVE  BookedInv'
<1>1. SoleDecider'
  BY SoleDeciderStep DEF BookedInv, tableVars
<1>2. ChargedExactly' /\ ApprovedDayHasCheckout'
  BY SameTables DEF BookedInv
<1> QED
  BY <1>1, <1>2 DEF BookedInv

LEMMA AnswerBooked ==
    ASSUME IInv, BookedInv, NEW s \in Slots, Answer(s), UNCHANGED <<tableVars, contested>>
    PROVE  BookedInv'
BY NoOneAssumption, GoOn DEF Answer, NoCall

LEMMA BecomeBooked ==
    ASSUME IInv, BookedInv, NEW s \in Slots, NEW step, Become(s, step),
           call[s].step # "request", UNCHANGED <<tableVars, contested>>
    PROVE  BookedInv'
<1> DEFINE c == [call[s] EXCEPT !.step = step]
<1>1. c.row = call[s].row
  BY DEF IInv, TypeOK, Call
<1>2. call' = [call EXCEPT ![s] = c]
  BY DEF Become
<1>3. c.row \in Rows => Deciding(s, c.row)
  BY <1>1 DEF Deciding
<1> HIDE DEF c
<1> QED
  BY <1>2, <1>3, GoOn

LEMMA RequireBooked ==
    ASSUME IInv, BookedInv, NEW s \in Slots, NEW condition, NEW step,
           Require(s, condition, step), call[s].step # "request",
           UNCHANGED <<tableVars, contested>>
    PROVE  BookedInv'
BY AnswerBooked, BecomeBooked DEF Require

LEMMA StartBooked ==
    ASSUME IInv, BookedInv, NEW s \in Slots, Start(s)
    PROVE  BookedInv'
<1>1. ASSUME NEW e \in Employees, NEW d \in Days, CreateOt(s, e, d) PROVE BookedInv'
  BY <1>1, NoOneAssumption, GoOn DEF CreateOt, NoCall
<1>2. ASSUME NEW e \in Employees, NEW d \in Days, NEW b \in BOOLEAN,
             CreateExplanation(s, e, d, b)
      PROVE  BookedInv'
  BY <1>2, NoOneAssumption, GoOn DEF CreateExplanation, NoCall
<1>3. ASSUME NEW op \in {"approve", "reject"}, NEW r \in Rows, Decide(s, op, r)
      PROVE  BookedInv'
  BY <1>3, GoOn DEF Decide, NoCall
<1> QED
  BY <1>1, <1>2, <1>3 DEF Start

LEMMA CreateBooked ==
    ASSUME IInv, BookedInv, NEW s \in Slots, NEW type, Create(s, type)
    PROVE  BookedInv'
<1>1. PICK r \in Rows :
        /\ status[r] = "none"
        /\ status' = [status EXCEPT ![r] = "PENDING"]
        /\ request' = [request EXCEPT ![r] =
             [emp |-> call[s].emp, type |-> type, day |-> call[s].day]]
        /\ Answer(s)
        /\ UNCHANGED <<timeVars, attendance, limit, contested>>
  BY DEF Create
<1>2. \A q \in Rows : q # r => status'[q] = status[q] /\ request'[q] = request[q]
  BY <1>1 DEF IInv, TypeOK
<1>3. status'[r] = "PENDING"
  BY <1>1 DEF IInv, TypeOK
<1>4. SoleDecider'
  <2>1. \A q \in Rows \ contested : status'[q] # status[q] => \A p \in Slots : ~Deciding(p, q)
    BY <1>1, <1>2 DEF BookedInv, SoleDecider
  <2> QED
    BY <1>1, <2>1, NoOneAssumption, SoleDeciderStep DEF BookedInv, Answer, NoCall
<1>5. \A e, m : Approved(e, m)' = Approved(e, m)
  BY <1>1, <1>2, <1>3 DEF Approved
<1>6. ChargedExactly'
  <2> SUFFICES ASSUME contested = {}
               PROVE  \A e \in Employees, m \in Months :
                        limit'[<<e, m>>] = Cardinality(Approved(e, m)')
    BY <1>1 DEF ChargedExactly
  <2> QED
    BY <1>1, <1>5 DEF BookedInv, ChargedExactly
<1>7. ApprovedDayHasCheckout'
  <2> SUFFICES ASSUME NEW q \in Rows, status'[q] = "APPROVED", request'[q].type = "EXPLANATION"
               PROVE  attendance'[Key(q)'] \in {"checkout", "explained"}
    BY DEF ApprovedDayHasCheckout
  <2>1. q # r
    BY <1>3
  <2>2. Key(q)' = Key(q) /\ status[q] = "APPROVED" /\ request[q].type = "EXPLANATION"
    BY <1>2, <2>1 DEF Key
  <2> QED
    BY <1>1, <2>2 DEF BookedInv, ApprovedDayHasCheckout
<1> QED
  BY <1>4, <1>6, <1>7 DEF BookedInv

LEMMA ReadRequestBooked ==
    ASSUME IInv, BookedInv, NEW s \in Slots, ReadRequest(s)
    PROVE  BookedInv'
<1> DEFINE r == call[s].row
<1>1. UNCHANGED tableVars /\ contested \subseteq contested'
  BY DEF ReadRequest
<1>2. CASE ~Decidable(r)
  BY <1>2, AnswerBooked DEF ReadRequest, Require
<1>3. CASE Decidable(r)
  <2>1. call' = [call EXCEPT ![s].step = "decide"]
    BY <1>3 DEF ReadRequest, Require, Become
  <2>2. r \in Rows /\ status[r] = "PENDING"
    BY <1>3, DecidedRow DEF ReadRequest, Decidable
  <2>3. \A q \in Slots, x \in Rows : Deciding(q, x)' => Deciding(q, x) \/ (q = s /\ x = r)
    BY <2>1 DEF Deciding, IInv, TypeOK, Call
  <2>4. r \notin contested' => \A q \in Slots : ~Deciding(q, r)
    BY <1>3 DEF ReadRequest
  <2>5. SoleDecider'
    <3> SUFFICES ASSUME NEW x \in Rows \ contested', NEW p \in Slots, Deciding(p, x)'
                 PROVE  status'[x] = "PENDING" /\ \A q \in Slots : Deciding(q, x)' => q = p
      BY DEF SoleDecider
    <3>1. CASE x = r
      BY <1>1, <2>2, <2>3, <2>4, <3>1 DEF tableVars
    <3>2. CASE x # r
      <4>1. x \in Rows \ contested /\ Deciding(p, x)
        BY <1>1, <2>3, <3>2
      <4> QED
        BY <1>1, <2>3, <3>2, <4>1 DEF BookedInv, SoleDecider, tableVars
    <3> QED
      BY <3>1, <3>2
  <2>6. ChargedExactly' /\ ApprovedDayHasCheckout'
    BY <1>1, SameTables DEF BookedInv
  <2> QED
    BY <2>5, <2>6 DEF BookedInv
<1> QED
  BY <1>2, <1>3

\* Of an uncontested request only the status PENDING is overwritten.
LEMMA WrittenWasPending ==
    ASSUME IInv, SoleDecider, NEW s \in Slots, WriteDecision(s) \/ ChargeAndCommit(s)
    PROVE  LET r == call[s].row IN
           /\ r \in Rows /\ Deciding(s, r)
           /\ r \notin contested => status[r] = "PENDING"
<1>1. call[s].op \in {"approve", "reject"} /\ call[s].step # "request"
  BY DEF WriteDecision, ChargeAndCommit, At, IInv, CallOK
<1>2. call[s].row \in Rows
  BY <1>1, DecidedRow
<1> QED
  BY <1>1, <1>2 DEF Deciding, SoleDecider

LEMMA WriteDecisionBooked ==
    ASSUME IInv, BookedInv, NEW s \in Slots, WriteDecision(s)
    PROVE  BookedInv'
<1> DEFINE r == call[s].row
<1>1. r \in Rows /\ Deciding(s, r) /\ (r \notin contested => status[r] = "PENDING")
  BY WrittenWasPending DEF BookedInv
<1>2. /\ \A q \in Rows : q # r => status'[q] = status[q]
      /\ status'[r] = "APPROVED" => request[r].type = "OT"
      /\ UNCHANGED <<request, attendance, limit, contested>>
      /\ call' = [call EXCEPT ![s] = NoCall]
  BY <1>1 DEF WriteDecision, Answer, IInv, TypeOK
<1>3. SoleDecider'
  <2>1. NoCall.row \notin Rows /\ NoCall.step = "request"
    BY NoOneAssumption DEF NoCall
  <2>2. \A q \in Rows \ contested : status'[q] # status[q] => Deciding(s, q)
    BY <1>1, <1>2
  <2> QED
    BY <1>2, <2>1, <2>2, SoleDeciderStep DEF BookedInv
<1>4. ChargedExactly'
  <2> SUFFICES ASSUME contested = {}
               PROVE  \A e \in Employees, m \in Months :
                        limit'[<<e, m>>] = Cardinality(Approved(e, m)')
    BY <1>2 DEF ChargedExactly
  <2> SUFFICES ASSUME NEW e \in Employees, NEW m \in Months
               PROVE  limit'[<<e, m>>] = Cardinality(Approved(e, m)')
    OBVIOUS
  <2>1. Approved(e, m)' = Approved(e, m)
    BY <1>1, <1>2 DEF Approved
  <2> QED
    BY <1>2, <2>1 DEF BookedInv, ChargedExactly
<1>5. ApprovedDayHasCheckout'
  BY <1>1, <1>2 DEF BookedInv, ApprovedDayHasCheckout, Key
<1> QED
  BY <1>3, <1>4, <1>5 DEF BookedInv

LEMMA ChargeAndCommitBooked ==
    ASSUME IInv, BookedInv, NEW s \in Slots, ChargeAndCommit(s)
    PROVE  BookedInv'
<1> DEFINE r == call[s].row
<1>1. r \in Rows /\ Deciding(s, r) /\ (r \notin contested => status[r] = "PENDING")
  BY WrittenWasPending DEF BookedInv
<1>2. /\ call' = [call EXCEPT ![s] = NoCall] /\ UNCHANGED <<request, contested>>
      /\ request[r].type = "EXPLANATION"
  BY DEF ChargeAndCommit, Answer, At, IInv, CallOK
<1>3. CASE ~BelowLimit(r)
  BY <1>3, AnswerBooked DEF ChargeAndCommit, tableVars
<1>4. CASE BelowLimit(r)
  <2>1. /\ status' = [status EXCEPT ![r] = "APPROVED"]
        /\ attendance' = [attendance EXCEPT ![Key(r)] = "explained"]
        /\ limit' = [limit EXCEPT ![LimitKey(r)] = @ + 1]
    BY <1>4 DEF ChargeAndCommit
  <2>2. \A q \in Rows : status'[q] = IF q = r THEN "APPROVED" ELSE status[q]
    BY <2>1 DEF IInv, TypeOK
  <2>3. SoleDecider'
    <3>1. NoCall.row \notin Rows /\ NoCall.step = "request"
      BY NoOneAssumption DEF NoCall
    <3>2. \A q \in Rows \ contested : status'[q] # status[q] => Deciding(s, q)
      BY <1>1, <2>2
    <3> QED
      BY <1>2, <3>1, <3>2, SoleDeciderStep DEF BookedInv
  <2>4. request[r].emp \in Employees /\ request[r].day \in Days
    BY <1>1, DecidedRow DEF ChargeAndCommit, At, IInv, TypeOK, RequestsOK
  <2>5. LimitKey(r) = <<request[r].emp, Month(request[r].day)>>
        /\ LimitKey(r) \in Employees \X Months
    BY <2>4, MonthType DEF LimitKey
  <2>6. ChargedExactly'
    <3> SUFFICES ASSUME contested = {}
                 PROVE  \A e \in Employees, m \in Months :
                          limit'[<<e, m>>] = Cardinality(Approved(e, m)')
      BY <1>2 DEF ChargedExactly
    <3> SUFFICES ASSUME NEW e \in Employees, NEW m \in Months
                 PROVE  limit'[<<e, m>>] = Cardinality(Approved(e, m)')
      OBVIOUS
    <3>1. limit[<<e, m>>] = Cardinality(Approved(e, m)) /\ r \notin Approved(e, m)
      BY <1>1 DEF BookedInv, ChargedExactly, Approved
    <3>2. CASE <<e, m>> = LimitKey(r)
      <4>1. Approved(e, m)' = Approved(e, m) \cup {r}
        BY <1>1, <1>2, <2>2, <2>5, <3>2 DEF Approved
      <4>2. Cardinality(Approved(e, m)') = Cardinality(Approved(e, m)) + 1
        BY <3>1, <4>1, ApprovedFinite, FS_AddElement
      <4>3. limit'[LimitKey(r)] = limit[LimitKey(r)] + 1
        BY <2>1, <2>5 DEF IInv, TypeOK
      <4> QED
        BY <3>1, <3>2, <4>2, <4>3
    <3>3. CASE <<e, m>> # LimitKey(r)
      <4>1. ~(request[r].emp = e /\ Month(request[r].day) = m)
        BY <2>5, <3>3
      <4>2. Approved(e, m)' = Approved(e, m)
        BY <1>2, <2>2, <4>1 DEF Approved
      <4>3. limit'[<<e, m>>] = limit[<<e, m>>]
        BY <2>1, <2>5, <3>3 DEF IInv, TypeOK
      <4> QED
        BY <3>1, <4>2, <4>3
    <3> QED
      BY <3>2, <3>3
  <2>7. ApprovedDayHasCheckout'
    <3> SUFFICES ASSUME NEW q \in Rows, status'[q] = "APPROVED", request'[q].type = "EXPLANATION"
                 PROVE  attendance'[Key(q)'] \in {"checkout", "explained"}
      BY DEF ApprovedDayHasCheckout
    <3>1. Key(q)' = Key(q)
      BY <1>2 DEF Key
    <3>2. Key(q) \in Employees \X Days
      BY <1>2, <2>2, <2>4 DEF Key, IInv, TypeOK, RequestsOK
    <3>3. Key(q) = Key(r) => attendance'[Key(q)] = "explained"
      BY <2>1, <3>2 DEF IInv, TypeOK
    <3>4. Key(q) # Key(r) => attendance'[Key(q)] = attendance[Key(q)]
      BY <2>1, <3>2 DEF IInv, TypeOK
    <3>5. Key(q) # Key(r) => attendance[Key(q)] \in {"checkout", "explained"}
      BY <1>2, <2>2 DEF BookedInv, ApprovedDayHasCheckout
    <3> QED
      BY <3>1, <3>3, <3>4, <3>5
  <2> QED
    BY <2>3, <2>6, <2>7 DEF BookedInv
<1> QED
  BY <1>3, <1>4

LEMMA HandlerBooked ==
    ASSUME IInv, BookedInv, NEW s \in Slots, Start(s) \/ Continue(s) \/ Fail(s)
    PROVE  BookedInv'
<1>1. CASE Start(s)
  BY <1>1, StartBooked
<1>2. CASE Fail(s)
  BY <1>2, AnswerBooked DEF Fail
<1>3. CASE Continue(s)
  <2>1. CASE \/ FindPendingOt(s) \/ CheckAttendance(s) \/ CheckLimit(s)
             \/ FindExplanation(s) \/ FindApprovedOt(s)
    BY <2>1, RequireBooked
       DEF FindPendingOt, CheckAttendance, CheckLimit, FindExplanation, FindApprovedOt, At
  <2>2. CASE CreateOtRow(s) \/ CreateExplanationRow(s)
    BY <2>2, CreateBooked DEF CreateOtRow, CreateExplanationRow
  <2>3. CASE ReadRequest(s)
    BY <2>3, ReadRequestBooked
  <2>4. CASE WriteDecision(s)
    BY <2>4, WriteDecisionBooked
  <2>5. CASE ApproveInTransaction(s)
    BY <2>5, BecomeBooked DEF ApproveInTransaction, At
  <2>6. CASE Recalculate(s)
    BY <2>6, RequireBooked DEF Recalculate, At
  <2>7. CASE ChargeAndCommit(s)
    BY <2>7, ChargeAndCommitBooked
  <2> QED
    BY <1>3, <2>1, <2>2, <2>3, <2>4, <2>5, <2>6, <2>7 DEF Continue
<1> QED
  BY <1>1, <1>2, <1>3

LEMMA AutoRejectBooked ==
    ASSUME IInv, BookedInv, AutoReject
    PROVE  BookedInv'
<1>1. /\ \A r \in Rows : status'[r] # status[r] => status[r] = "PENDING" /\ status'[r] = "REJECTED"
      /\ UNCHANGED <<request, attendance, limit, call>>
      /\ contested \subseteq contested'
      /\ \A r \in Rows \ contested' :
           status'[r] # status[r] => \A s \in Slots : ~Deciding(s, r)
  BY DEF AutoReject, IInv, TypeOK
<1>2. SoleDecider'
  BY <1>1 DEF BookedInv, SoleDecider, Deciding
<1>3. \A r \in Rows : status'[r] = "APPROVED" <=> status[r] = "APPROVED"
  BY <1>1
<1>4. ChargedExactly' /\ ApprovedDayHasCheckout'
  BY <1>1, <1>3 DEF BookedInv, ChargedExactly, ApprovedDayHasCheckout, Approved, Key
<1> QED
  BY <1>2, <1>4 DEF BookedInv

LEMMA ScanBooked ==
    ASSUME IInv, BookedInv, NEW e \in Employees, Scan(e)
    PROVE  BookedInv'
<1> DEFINE k == <<e, IF early THEN today - 1 ELSE today>>
<1>1. /\ attendance' = [attendance EXCEPT ![k] = AfterScan(@)]
      /\ UNCHANGED <<status, request, limit, call, contested>>
  BY DEF Scan
<1>2. SoleDecider' /\ ChargedExactly'
  BY <1>1 DEF BookedInv, SoleDecider, Deciding, ChargedExactly, Approved
<1>3. ApprovedDayHasCheckout'
  <2> SUFFICES ASSUME NEW q \in Rows, status[q] = "APPROVED", request[q].type = "EXPLANATION"
               PROVE  attendance'[Key(q)] \in {"checkout", "explained"}
    BY <1>1 DEF ApprovedDayHasCheckout, Key
  <2>1. attendance[Key(q)] \in {"checkout", "explained"}
    BY DEF BookedInv, ApprovedDayHasCheckout
  <2>2. Key(q) \in Employees \X Days
    BY DEF Key, IInv, TypeOK, RequestsOK
  <2>3. attendance'[Key(q)] \in {attendance[Key(q)], AfterScan(attendance[Key(q)])}
    BY <1>1, <2>2 DEF IInv, TypeOK
  <2> QED
    BY <2>1, <2>3 DEF AfterScan
<1> QED
  BY <1>2, <1>3 DEF BookedInv

LEMMA InitBooked == Init => BookedInv
<1> SUFFICES ASSUME Init PROVE BookedInv
  OBVIOUS
<1>1. \A r \in Rows : status[r] = "none"
  BY DEF Init
<1>2. SoleDecider
  BY NoOneAssumption DEF Init, SoleDecider, Deciding, NoCall
<1>3. ChargedExactly
  <2> SUFFICES \A e \in Employees, m \in Months : limit[<<e, m>>] = Cardinality(Approved(e, m))
    BY DEF ChargedExactly
  <2> SUFFICES ASSUME NEW e \in Employees, NEW m \in Months
               PROVE  limit[<<e, m>>] = Cardinality(Approved(e, m))
    OBVIOUS
  <2>1. Approved(e, m) = {}
    BY <1>1 DEF Approved
  <2> QED
    BY <2>1, FS_EmptySet DEF Init
<1>4. ApprovedDayHasCheckout
  BY <1>1 DEF ApprovedDayHasCheckout
<1> QED
  BY <1>2, <1>3, <1>4 DEF BookedInv

LEMMA BookedInvariance == Spec => []BookedInv
<1>1. IInv /\ BookedInv /\ [Next]_vars => BookedInv'
  <2> SUFFICES ASSUME IInv, BookedInv, [Next]_vars PROVE BookedInv'
    OBVIOUS
  <2>1. ASSUME NEW s \in Slots, Start(s) \/ Continue(s) \/ Fail(s) PROVE BookedInv'
    BY <2>1, HandlerBooked
  <2>2. CASE \E e \in Employees : Scan(e)
    BY <2>2, ScanBooked
  <2>3. CASE AutoReject
    BY <2>3, AutoRejectBooked
  <2>4. CASE Midnight \/ FourOClock \/ UNCHANGED vars
    <3>1. UNCHANGED <<tableVars, call, contested>>
      BY <2>4 DEF Midnight, FourOClock, vars, tableVars
    <3>2. SoleDecider'
      BY <3>1 DEF BookedInv, SoleDecider, Deciding, tableVars
    <3> QED
      BY <3>1, <3>2, SameTables DEF BookedInv
  <2> QED
    BY <2>1, <2>2, <2>3, <2>4 DEF Next
<1> QED
  BY <1>1, InitBooked, Invariance, PTL DEF Spec

\* Approvals are booked in full, for any number of concurrent decisions: a day
\* with an approved explanation has a checkout, and the counter is exact where
\* no decision was contested.
THEOREM BookingsAreComplete == Spec => []ApprovalsAreBooked
<1>1. IInv /\ BookedInv => ApprovalsAreBooked
  BY DEF IInv, BookedInv, ApprovalsAreBooked
<1> QED
  BY <1>1, Invariance, BookedInvariance, PTL

\* A decision that no other handler and no job was making at the same time is
\* final, whatever handlers and jobs come later.
THEOREM DecisionsAreFinal == Spec => UncontestedDecisionIsFinal
<1> DEFINE Final == \A r \in Rows : Decided(r) /\ r \notin contested => status'[r] = status[r]
<1>1. IInv /\ BookedInv /\ [Next]_vars => [Final]_vars
  <2> SUFFICES ASSUME IInv, BookedInv, Next, NEW r \in Rows, Decided(r), r \notin contested
               PROVE  status'[r] = status[r]
    OBVIOUS
  <2>1. ASSUME NEW s \in Slots, Start(s) \/ Continue(s) \/ Fail(s)
        PROVE  status'[r] = status[r]
    <3>1. CASE CreateOtRow(s) \/ CreateExplanationRow(s)
      BY <3>1 DEF CreateOtRow, CreateExplanationRow, Create, Decided, IInv, TypeOK
    <3>2. CASE WriteDecision(s) \/ ChargeAndCommit(s)
      <4>1. r # call[s].row
        BY <3>2, WrittenWasPending DEF BookedInv, Decided
      <4> QED
        BY <3>2, <4>1 DEF WriteDecision, ChargeAndCommit, IInv, TypeOK
    <3>3. CASE Start(s) \/ Fail(s)
      BY <3>3 DEF Start, Fail, CreateOt, CreateExplanation, Decide, tableVars
    <3>4. CASE \/ FindPendingOt(s) \/ CheckAttendance(s) \/ CheckLimit(s)
               \/ FindExplanation(s) \/ FindApprovedOt(s)
      BY <3>4 DEF FindPendingOt, CheckAttendance, CheckLimit, FindExplanation, FindApprovedOt,
         tableVars
    <3>5. CASE ReadRequest(s) \/ ApproveInTransaction(s) \/ Recalculate(s)
      BY <3>5 DEF ReadRequest, ApproveInTransaction, Recalculate, tableVars
    <3> QED
      BY <2>1, <3>1, <3>2, <3>3, <3>4, <3>5 DEF Continue
  <2>2. CASE AutoReject
    BY <2>2 DEF AutoReject, Decided, IInv, TypeOK
  <2>3. CASE (\E e \in Employees : Scan(e)) \/ Midnight \/ FourOClock
    BY <2>3 DEF Scan, Midnight, FourOClock, tableVars
  <2> QED
    BY <2>1, <2>2, <2>3 DEF Next
<1> QED
  BY <1>1, Invariance, BookedInvariance, PTL DEF Spec, UncontestedDecisionIsFinal

-----------------------------------------------------------------------------
(* The desk: every step is one of RequestDesk or none. *)

\* What a creation has looked at, and what a transaction has read, stays so.
Filing(c) == c.op = "createExplanation" /\ c.step # "attendance"
Booking(c) == c.step = "recalculated"
CallFits(c) ==
    /\ Filing(c) => c.day < today /\ attendance[<<c.emp, c.day>>] # "absent"
    /\ Booking(c) => attendance[Key(c.row)] # "absent"
DeskInv == \A s \in Slots : CallFits(call[s])

\* Days fill, filed requests stay as they are, and time passes.
Onward ==
    /\ \A k \in Employees \X Days : attendance[k] # "absent" => attendance'[k] # "absent"
    /\ \A r \in Rows : status[r] # "none" => request'[r] = request[r]
    /\ today' >= today

LEMMA FitsOnward ==
    ASSUME IInv, DeskInv, Onward, NEW s \in Slots, today' \in Days
    PROVE  CallFits(call[s])'  \/ call'[s] # call[s]
<1> SUFFICES ASSUME call'[s] = call[s] PROVE CallFits(call[s])'
  OBVIOUS
<1>1. today \in Int /\ today' \in Int /\ call[s].day \in Int /\ call[s] \in Call
  BY DEF IInv, TypeOK, Call, Days
<1>2. ASSUME Filing(call[s]) PROVE call[s].day < today' /\ attendance'[<<call[s].emp, call[s].day>>] # "absent"
  <2>1. <<call[s].emp, call[s].day>> \in Employees \X Days
    BY <1>1, <1>2 DEF Filing, IInv, CallOK, Call
  <2>2. call[s].day < today /\ attendance[<<call[s].emp, call[s].day>>] # "absent"
    BY <1>2 DEF DeskInv, CallFits
  <2>3. call[s].day < today'
    BY <1>1, <2>2 DEF Onward
  <2> QED
    BY <2>1, <2>2, <2>3 DEF Onward
<1>3. ASSUME Booking(call[s]) PROVE attendance'[<<request'[call[s].row].emp, request'[call[s].row].day>>] # "absent"
  <2>1. call[s].row \in Rows /\ status[call[s].row] # "none"
    BY <1>3 DEF Booking, IInv, CallOK
  <2>2. Key(call[s].row) \in Employees \X Days /\ attendance[Key(call[s].row)] # "absent"
    BY <1>3, <2>1 DEF Key, IInv, TypeOK, RequestsOK, DeskInv, CallFits
  <2> QED
    BY <2>1, <2>2 DEF Onward, Key
<1> QED
  BY <1>2, <1>3 DEF CallFits, Filing, Booking, Key

LEMMA FitsHandler ==
    ASSUME IInv, DeskInv, Onward, today' \in Days, NEW s \in Slots, NEW c,
           call' = [call EXCEPT ![s] = c], CallFits(call[s])'
    PROVE  DeskInv'
<1>1. \A q \in Slots : q # s => call'[q] = call[q]
  BY DEF IInv, TypeOK
<1> QED
  BY <1>1, FitsOnward DEF DeskInv

LEMMA NoCallFits == ASSUME NEW s \in Slots, call'[s] = NoCall PROVE CallFits(call[s])'
BY DEF CallFits, Filing, Booking, NoCall

LEMMA AnswerFits ==
    ASSUME IInv, DeskInv, NEW s \in Slots, Answer(s), Onward, today' \in Days
    PROVE  DeskInv'
<1>1. call' = [call EXCEPT ![s] = NoCall] /\ call'[s] = NoCall
  BY DEF Answer, IInv, TypeOK
<1> QED
  BY <1>1, NoCallFits, FitsHandler

\* Without a change in tables and time a handler only needs its own next step.
LEMMA StillOnward ==
    ASSUME IInv, UNCHANGED <<timeVars, tableVars>>
    PROVE  Onward /\ today' \in Days
<1>1. today \in Days /\ today \in Int /\ today' = today
  BY DEF IInv, TypeOK, Days, timeVars
<1> QED
  BY <1>1 DEF Onward, tableVars

LEMMA BecomeFits ==
    ASSUME IInv, DeskInv, NEW s \in Slots, NEW step, Become(s, step), UNCHANGED <<timeVars, tableVars>>,
           \/ call[s].op # "createExplanation" /\ step # "recalculated"
           \/ Filing(call[s]) /\ step # "recalculated"
           \/ At(s, "createExplanation", "attendance") /\ step = "limit"
              /\ attendance[<<call[s].emp, call[s].day>>] = "checkin" /\ call[s].day < today
           \/ At(s, "approve", "approved") /\ step = "recalculated" /\ attendance[Key(call[s].row)] # "absent"
    PROVE  DeskInv'
<1>1. call' = [call EXCEPT ![s].step = step] /\ call[s] \in Call
  BY DEF Become, IInv, TypeOK
<1> DEFINE c == [call[s] EXCEPT !.step = step]
<1>2. call' = [call EXCEPT ![s] = c] /\ call'[s] = c
  BY <1>1 DEF IInv, TypeOK
<1>3. c.op = call[s].op /\ c.emp = call[s].emp /\ c.day = call[s].day /\ c.row = call[s].row /\ c.step = step
  BY <1>1 DEF Call
<1> HIDE DEF c
<1>4. CallFits(call[s])'
  BY <1>2, <1>3 DEF CallFits, Filing, Booking, At, Key, DeskInv, timeVars, tableVars
<1> QED
  BY <1>2, <1>4, StillOnward, FitsHandler

LEMMA StartFits ==
    ASSUME IInv, DeskInv, NEW s \in Slots, Start(s)
    PROVE  DeskInv'
<1>1. ASSUME NEW c, call' = [call EXCEPT ![s] = c], UNCHANGED <<timeVars, tableVars>>,
             c.step \in {"duplicate", "attendance", "request"},
             c.op = "createExplanation" => c.step = "attendance"
      PROVE  DeskInv'
  <2>1. call'[s] = c
    BY <1>1 DEF IInv, TypeOK
  <2>2. CallFits(call[s])'
    BY <1>1, <2>1 DEF CallFits, Filing, Booking
  <2> QED
    BY <1>1, <2>2, StillOnward, FitsHandler
<1>2. ASSUME NEW e \in Employees, NEW d \in Days, CreateOt(s, e, d) PROVE DeskInv'
  BY <1>1, <1>2 DEF CreateOt, NoCall
<1>3. ASSUME NEW e \in Employees, NEW d \in Days, NEW b \in BOOLEAN,
             CreateExplanation(s, e, d, b)
      PROVE  DeskInv'
  BY <1>1, <1>3 DEF CreateExplanation, NoCall
<1>4. ASSUME NEW op \in {"approve", "reject"}, NEW r \in Rows, Decide(s, op, r) PROVE DeskInv'
  BY <1>1, <1>4 DEF Decide, NoCall
<1> QED
  BY <1>2, <1>3, <1>4 DEF Start

LEMMA RequireFits ==
    ASSUME IInv, DeskInv, NEW s \in Slots, NEW condition, NEW step,
           Require(s, condition, step), UNCHANGED <<timeVars, tableVars>>,
           condition =>
             \/ call[s].op # "createExplanation" /\ step # "recalculated"
             \/ Filing(call[s]) /\ step # "recalculated"
             \/ At(s, "createExplanation", "attendance") /\ step = "limit"
                /\ attendance[<<call[s].emp, call[s].day>>] = "checkin" /\ call[s].day < today
             \/ At(s, "approve", "approved") /\ step = "recalculated"
                /\ attendance[Key(call[s].row)] # "absent"
    PROVE  DeskInv'
<1>1. CASE condition
  BY <1>1, BecomeFits DEF Require
<1>2. CASE ~condition
  BY <1>2, AnswerFits, StillOnward DEF Require
<1> QED
  BY <1>1, <1>2

LEMMA CreateFits ==
    ASSUME IInv, DeskInv, NEW s \in Slots, NEW type, Create(s, type)
    PROVE  DeskInv'
<1>1. today' \in Days /\ today' = today /\ today \in Int
  BY DEF Create, timeVars, IInv, TypeOK, Days
<1>2. \A r \in Rows : status[r] # "none" => request'[r] = request[r]
  BY DEF Create, IInv, TypeOK
<1>3. Answer(s) /\ attendance' = attendance
  BY DEF Create
<1> QED
  BY <1>1, <1>2, <1>3, AnswerFits DEF Onward

LEMMA DecisionFits ==
    ASSUME IInv, DeskInv, NEW s \in Slots, WriteDecision(s) \/ ChargeAndCommit(s)
    PROVE  DeskInv'
<1>1. today' \in Days /\ today' = today /\ today \in Int /\ request' = request
  BY DEF WriteDecision, ChargeAndCommit, timeVars, IInv, TypeOK, Days
<1>2. \A k \in Employees \X Days : attendance[k] # "absent" => attendance'[k] # "absent"
  BY DEF WriteDecision, ChargeAndCommit, IInv, TypeOK
<1>3. Answer(s)
  BY DEF WriteDecision, ChargeAndCommit
<1> QED
  BY <1>1, <1>2, <1>3, AnswerFits DEF Onward

LEMMA HandlerFits ==
    ASSUME IInv, DeskInv, NEW s \in Slots, Start(s) \/ Continue(s) \/ Fail(s)
    PROVE  DeskInv'
<1>1. CASE Start(s)
  BY <1>1, StartFits
<1>2. CASE Fail(s)
  BY <1>2, AnswerFits, StillOnward DEF Fail
<1>3. CASE FindPendingOt(s) \/ CheckLimit(s) \/ FindExplanation(s) \/ FindApprovedOt(s)
  <2>1. /\ call[s].op = "createOt" \/ Filing(call[s])
        /\ UNCHANGED <<timeVars, tableVars>>
    BY <1>3 DEF FindPendingOt, CheckLimit, FindExplanation, FindApprovedOt, At, Filing
  <2>2. PICK condition \in BOOLEAN, step \in {"create", "duplicate", "ot"} :
           Require(s, condition, step)
    <3>1. CASE FindPendingOt(s)
      BY <3>1 DEF FindPendingOt, Require, Exists
    <3>2. CASE CheckLimit(s)
      BY <3>2 DEF CheckLimit, Require
    <3>3. CASE FindExplanation(s)
      BY <3>3 DEF FindExplanation, Require, Exists
    <3>4. CASE FindApprovedOt(s)
      BY <3>4 DEF FindApprovedOt, Require, Exists
    <3> QED
      BY <1>3, <3>1, <3>2, <3>3, <3>4
  <2> QED
    BY <2>1, <2>2, RequireFits
<1>4. CASE CheckAttendance(s)
  BY <1>4, RequireFits DEF CheckAttendance
<1>5. CASE CreateOtRow(s) \/ CreateExplanationRow(s)
  BY <1>5, CreateFits DEF CreateOtRow, CreateExplanationRow
<1>6. CASE ReadRequest(s)
  <2>1. call[s].op # "createExplanation" /\ Require(s, Decidable(call[s].row), "decide")
        /\ UNCHANGED <<timeVars, tableVars>>
    BY <1>6 DEF ReadRequest
  <2> QED
    BY <2>1, RequireFits
<1>7. CASE WriteDecision(s) \/ ChargeAndCommit(s)
  BY <1>7, DecisionFits
<1>8. CASE ApproveInTransaction(s)
  BY <1>8, BecomeFits DEF ApproveInTransaction, At
<1>9. CASE Recalculate(s)
  BY <1>9, RequireFits DEF Recalculate
<1> QED
  BY <1>1, <1>2, <1>3, <1>4, <1>5, <1>6, <1>7, <1>8, <1>9 DEF Continue

\* A step of no handler.
LEMMA OthersFit ==
    ASSUME IInv, DeskInv, IInv', call' = call, request' = request, today' >= today,
           \A k \in Employees \X Days : attendance[k] # "absent" => attendance'[k] # "absent"
    PROVE  DeskInv'
<1>1. Onward /\ today' \in Days
  BY DEF Onward, IInv, TypeOK
<1> QED
  BY <1>1, FitsOnward DEF DeskInv

LEMMA DeskInvariance == Spec => []DeskInv
<1>1. Init => DeskInv
  BY DEF Init, DeskInv, CallFits, Filing, Booking, NoCall
<1>2. IInv /\ IInv' /\ DeskInv /\ [Next]_vars => DeskInv'
  <2> SUFFICES ASSUME IInv, IInv', DeskInv, [Next]_vars PROVE DeskInv'
    OBVIOUS
  <2>1. ASSUME NEW s \in Slots, Start(s) \/ Continue(s) \/ Fail(s) PROVE DeskInv'
    BY <2>1, HandlerFits
  <2>2. ASSUME NEW e \in Employees, Scan(e) PROVE DeskInv'
    <3>1. \A k \in Employees \X Days : attendance[k] # "absent" => attendance'[k] # "absent"
      BY <2>2 DEF Scan, AfterScan, IInv, TypeOK
    <3>2. call' = call /\ request' = request /\ today' >= today
      BY <2>2 DEF Scan, timeVars, IInv, TypeOK, Days
    <3> QED
      BY <3>1, <3>2, OthersFit
  <2>3. CASE AutoReject \/ Midnight \/ FourOClock \/ UNCHANGED vars
    <3>1. call' = call /\ request' = request /\ attendance' = attendance /\ today' >= today
      BY <2>3 DEF AutoReject, Midnight, FourOClock, vars, timeVars, tableVars, IInv, TypeOK, Days
    <3> QED
      BY <3>1, OthersFit
  <2> QED
    BY <2>1, <2>2, <2>3 DEF Next
<1> QED
  BY <1>1, <1>2, Invariance, PTL DEF Spec

LEMMA InitAtDesk == Init => Desk!DeskInit
<1> SUFFICES ASSUME Init PROVE Desk!DeskInit
  OBVIOUS
<1>1. {[d \in Days |-> Month(d)][x] : x \in Days} = Months
  BY DEF Months
<1>2. AtDesk = [k \in Employees \X Days |-> "empty"]
  BY DEF Init, AtDesk, DayAtDesk
<1> QED
  BY <1>1, <1>2 DEF Init, Desk!DeskInit

\* A day that is written in the table is written at the desk.
LEMMA DayWritten ==
    ASSUME IInv, NEW k \in Employees \X Days, NEW a,
           attendance' = [attendance EXCEPT ![k] = a]
    PROVE  AtDesk' = [AtDesk EXCEPT ![k] = DayAtDesk(a)]
BY DEF AtDesk, IInv, TypeOK

LEMMA DayRead ==
    ASSUME NEW k \in Employees \X Days
    PROVE  AtDesk[k] = DayAtDesk(attendance[k]) /\ (AtDesk[k] = "empty" <=> attendance[k] = "absent")
BY DEF AtDesk, DayAtDesk

LEMMA DaysUnwritten == ASSUME UNCHANGED attendance PROVE UNCHANGED AtDesk
BY DEF AtDesk

\* Handlers that start, look something up or give up change nothing there.
LEMMA QuietAtDesk ==
    ASSUME UNCHANGED <<today, tableVars, contested>>
    PROVE  UNCHANGED Desk!deskVars
BY DaysUnwritten DEF Desk!deskVars, tableVars

LEMMA CreateIsFile ==
    ASSUME IInv, DeskInv, NEW s \in Slots, CreateOtRow(s) \/ CreateExplanationRow(s)
    PROVE  Desk!DeskNext
<1>1. PICK type \in {"OT", "EXPLANATION"} :
        Create(s, type) /\ (type = "EXPLANATION" => Filing(call[s]))
  BY DEF CreateOtRow, CreateExplanationRow, At, Filing
<1>2. PICK r \in Rows :
        /\ status[r] = "none" /\ status' = [status EXCEPT ![r] = "PENDING"]
        /\ request' = [request EXCEPT ![r] =
             [emp |-> call[s].emp, type |-> type, day |-> call[s].day]]
        /\ UNCHANGED <<today, attendance, limit, contested>>
  BY <1>1 DEF Create, timeVars
<1>3. call[s].emp \in Employees /\ call[s].day \in Days
  BY DEF CreateOtRow, CreateExplanationRow, At, IInv, TypeOK, CallOK, Call
<1>4. type = "EXPLANATION" => call[s].day < today /\ AtDesk[<<call[s].emp, call[s].day>>] # "empty"
  BY <1>1, <1>3, DayRead DEF DeskInv, CallFits
<1>5. Desk!File(r, call[s].emp, type, call[s].day)
  BY <1>2, <1>4, DaysUnwritten DEF Desk!File
<1> QED
  BY <1>1, <1>3, <1>5 DEF Desk!DeskNext

LEMMA ReadIsDispute ==
    ASSUME IInv, NEW s \in Slots, ReadRequest(s)
    PROVE  Desk!DeskNext \/ UNCHANGED Desk!deskVars
<1> DEFINE r == call[s].row
<1>1. UNCHANGED <<today, tableVars>> /\ r \in Rows
  BY DecidedRow DEF ReadRequest, timeVars
<1>2. CASE contested' = contested
  BY <1>1, <1>2, QuietAtDesk
<1>3. CASE contested' # contested
  <2>1. status[r] = "PENDING" /\ contested' = contested \cup {r}
    BY <1>3 DEF ReadRequest, Decidable
  <2>2. Desk!Dispute(r)
    BY <1>1, <2>1, DaysUnwritten DEF Desk!Dispute, tableVars
  <2> QED
    BY <1>1, <2>2 DEF Desk!DeskNext
<1> QED
  BY <1>2, <1>3

LEMMA WriteIsJudge ==
    ASSUME IInv, BookedInv, NEW s \in Slots, WriteDecision(s)
    PROVE  Desk!DeskNext
<1> DEFINE r == call[s].row
<1>1. r \in Rows /\ Desk!Judged(r)
  BY WrittenWasPending DEF BookedInv, Desk!Judged
<1>2. PICK v \in {"APPROVED", "REJECTED"} :
        /\ v = "REJECTED" \/ request[r].type = "OT"
        /\ status' = [status EXCEPT ![r] = v]
  BY DEF WriteDecision
<1>3. UNCHANGED <<today, request, attendance, limit, contested>>
  BY DEF WriteDecision, timeVars
<1>4. Desk!Judge(r, v)
  BY <1>1, <1>2, <1>3, DaysUnwritten DEF Desk!Judge
<1> QED
  BY <1>1, <1>4 DEF Desk!DeskNext

LEMMA ChargeIsExplain ==
    ASSUME IInv, BookedInv, DeskInv, NEW s \in Slots, ChargeAndCommit(s)
    PROVE  Desk!DeskNext \/ UNCHANGED Desk!deskVars
<1> DEFINE r == call[s].row
           e == request[r].emp
           d == request[r].day
<1>1. r \in Rows /\ Desk!Judged(r) /\ status[r] # "none" /\ request[r].type = "EXPLANATION"
  BY WrittenWasPending DEF BookedInv, Desk!Judged, ChargeAndCommit, At, IInv, CallOK
<1>2. e \in Employees /\ d \in Days /\ request[r] = [emp |-> e, type |-> "EXPLANATION", day |-> d]
  BY <1>1 DEF IInv, TypeOK, RequestsOK
<1>3. UNCHANGED <<today, request, contested>>
  BY DEF ChargeAndCommit, timeVars
<1>4. CASE ~BelowLimit(r)
  BY <1>3, <1>4, QuietAtDesk DEF ChargeAndCommit, tableVars
<1>5. CASE BelowLimit(r)
  <2>1. /\ limit[<<e, Month(d)>>] < Limit
        /\ status' = [status EXCEPT ![r] = "APPROVED"]
        /\ attendance' = [attendance EXCEPT ![<<e, d>>] = "explained"]
        /\ limit' = [limit EXCEPT ![<<e, Month(d)>>] = @ + 1]
    BY <1>5 DEF ChargeAndCommit, BelowLimit, LimitKey, Key
  <2>2. [x \in Days |-> Month(x)][d] = Month(d)
    BY <1>2
  <2>3. AtDesk[<<e, d>>] # "empty"
    <3>1. attendance[<<e, d>>] # "absent"
      BY DEF ChargeAndCommit, At, DeskInv, CallFits, Booking, Key
    <3> QED
      BY <1>2, <3>1, DayRead
  <2>4. AtDesk' = [AtDesk EXCEPT ![<<e, d>>] = "closed"]
    <3>1. DayAtDesk("explained") = "closed"
      BY DEF DayAtDesk
    <3> QED
      BY <1>2, <2>1, <3>1, DayWritten
  <2>5. Desk!Explain(r, e, d)
    BY <1>1, <1>2, <1>3, <2>1, <2>2, <2>3, <2>4 DEF Desk!Explain
  <2> QED
    BY <1>1, <1>2, <2>5 DEF Desk!DeskNext
<1> QED
  BY <1>4, <1>5

LEMMA AutoRejectIsExpire ==
    ASSUME IInv, AutoReject
    PROVE  Desk!Expire
<1>1. Desk!Late = {r \in Rows : status[r] = "PENDING" /\ request[r].type = "OT" /\ Expired(r)}
  BY DEF Desk!Late, Expired
<1>2. status' = [r \in Rows |-> IF r \in Desk!Late THEN "REJECTED" ELSE status[r]]
  BY <1>1 DEF AutoReject
<1>3. contested' = contested \cup {r \in Desk!Late : \E s \in Slots : Deciding(s, r)}
  BY <1>1 DEF AutoReject
<1>4. UNCHANGED <<today, request, attendance, limit>>
  BY DEF AutoReject, timeVars
<1> QED
  BY <1>2, <1>3, <1>4, DaysUnwritten DEF Desk!Expire

LEMMA ScanIsScan ==
    ASSUME IInv, NEW e \in Employees, Scan(e)
    PROVE  Desk!DeskNext
<1> DEFINE d == IF early THEN today - 1 ELSE today
           k == <<e, d>>
<1>1. d \in Days /\ d \in {today - 1, today}
  BY CalendarAssumption DEF IInv, TypeOK, Days
<1>2. attendance' = [attendance EXCEPT ![k] = AfterScan(attendance[k])]
  BY DEF Scan
<1>3. DayAtDesk(AfterScan(attendance[k])) = IF AtDesk[k] = "empty" THEN "open" ELSE "closed"
  BY <1>1, DayRead DEF DayAtDesk, AfterScan
<1>4. AtDesk' = [AtDesk EXCEPT ![k] = IF AtDesk[k] = "empty" THEN "open" ELSE "closed"]
  BY <1>1, <1>2, <1>3, DayWritten
<1>5. Desk!Scan(e, d)
  BY <1>1, <1>4 DEF Desk!Scan, Scan, timeVars
<1> QED
  BY <1>1, <1>5 DEF Desk!DeskNext

LEMMA HandlerAtDesk ==
    ASSUME IInv, BookedInv, DeskInv, NEW s \in Slots, Start(s) \/ Continue(s) \/ Fail(s)
    PROVE  Desk!DeskNext \/ UNCHANGED Desk!deskVars
<1>1. CASE Start(s) \/ Fail(s)
  <2>1. UNCHANGED <<today, tableVars, contested>>
    BY <1>1 DEF Start, Fail, CreateOt, CreateExplanation, Decide, timeVars
  <2> QED
    BY <2>1, QuietAtDesk
<1>2. CASE \/ FindPendingOt(s) \/ CheckAttendance(s) \/ CheckLimit(s) \/ FindExplanation(s)
           \/ FindApprovedOt(s) \/ ApproveInTransaction(s) \/ Recalculate(s)
  <2>1. UNCHANGED <<today, tableVars, contested>>
    BY <1>2 DEF FindPendingOt, CheckAttendance, CheckLimit, FindExplanation, FindApprovedOt,
                ApproveInTransaction, Recalculate, timeVars
  <2> QED
    BY <2>1, QuietAtDesk
<1>3. CASE CreateOtRow(s) \/ CreateExplanationRow(s)
  BY <1>3, CreateIsFile
<1> QED
  BY <1>1, <1>2, <1>3, ReadIsDispute, WriteIsJudge, ChargeIsExplain DEF Continue

LEMMA NextAtDesk ==
    IInv /\ BookedInv /\ DeskInv /\ [Next]_vars => [Desk!DeskNext]_(Desk!deskVars)
<1> SUFFICES ASSUME IInv, BookedInv, DeskInv, [Next]_vars
             PROVE  Desk!DeskNext \/ UNCHANGED Desk!deskVars
  OBVIOUS
<1>1. ASSUME NEW s \in Slots, Start(s) \/ Continue(s) \/ Fail(s)
      PROVE  Desk!DeskNext \/ UNCHANGED Desk!deskVars
  BY <1>1, HandlerAtDesk
<1>2. CASE \E e \in Employees : Scan(e)
  BY <1>2, ScanIsScan
<1>3. CASE AutoReject
  BY <1>3, AutoRejectIsExpire DEF Desk!DeskNext
<1>4. CASE Midnight
  BY <1>4, DaysUnwritten DEF Midnight, tableVars, Desk!NextDay, Desk!DeskNext
<1>5. CASE FourOClock \/ UNCHANGED vars
  BY <1>5, QuietAtDesk DEF FourOClock, vars, tableVars
<1> QED
  BY <1>1, <1>2, <1>3, <1>4, <1>5 DEF Next

\* Handlers, transactions, the job and the scans implement the desk, for any
\* number of handlers, requests, employees and days.
THEOREM ImplementsDesk == Spec => DecidedAtTheDesk
BY InitAtDesk, NextAtDesk, Invariance, BookedInvariance, DeskInvariance, PTL
   DEF Spec, DecidedAtTheDesk, Desk!DeskSpec
=============================================================================
