--------------------------- MODULE CheckinProofs ---------------------------
(***************************************************************************)
(* What POST /checkin guarantees for every number of requests, terminals,  *)
(* credentials and employees and every clock bound: types, and the         *)
(* agreement between the check-in log and the attendance rows.             *)
(***************************************************************************)
EXTENDS Checkin, FiniteSetTheorems, TLAPS

(* A request that has passed a step of the handler has the data that step  *)
(* leaves behind.                                                          *)
FieldsSet ==
    \A r \in Req :
      /\ pc[r] # "idle" => dev[r] \in Devices /\ cred[r] \in Credentials /\ at[r] \in Times
      /\ pc[r] \in {"resolved", "duplicate", "ok"} \cup InTransaction => emp[r] \in Employees

(* A request inside the transaction owns its token: nobody has logged it   *)
(* and nobody else is about to.                                            *)
TokenOwned ==
    \A r \in Req : pc[r] \in InTransaction =>
      /\ \A l \in log : l.sync_hash # tx[r]
      /\ \A q \in Req \ {r} : pc[q] \in InTransaction => tx[q] # tx[r]

(* The branch "checkout" is only ever taken for a row that has a checkin.  *)
SawIsStable ==
    \A r \in Req : pc[r] \in {"read", "written"} /\ saw[r] =>
      attendance[RowOf(r)].checkin # NoTime

(* An answered scan is logged, and only an answered scan is shown as such. *)
AnsweredIsLogged ==
    \A r \in Req :
      /\ pc[r] = "ok" => NewLogRow(r) \in log
      /\ shown[r] = "success" => pc[r] = "ok"

IInv ==
    /\ TypeOK
    /\ FieldsSet
    /\ TokenOwned
    /\ SawIsStable
    /\ AnsweredIsLogged
    /\ TxLoggedOnce
    /\ LoggedScanHasAttendance
    /\ AttendanceComesFromLog
    /\ CheckoutNeedsCheckin

-----------------------------------------------------------------------------

(* Every captured instant falls on a day the attendance table has rows for. *)
LEMMA BusinessDateInDays == \A t \in Times : BusinessDate(t) \in Days
BY DEF Days

(* The initial state satisfies the inductive invariant: no request, no log  *)
(* row, no attendance.                                                      *)
LEMMA InitIInv == Init => IInv
<1> SUFFICES ASSUME Init PROVE IInv
  OBVIOUS
<1>1. TypeOK
  BY ClockAssumption DEF Init, TypeOK, Times, NoTime, Row
<1>2. FieldsSet /\ TokenOwned /\ SawIsStable /\ AnsweredIsLogged
  BY DEF Init, FieldsSet, TokenOwned, SawIsStable, AnsweredIsLogged, InTransaction
<1>3. TxLoggedOnce /\ LoggedScanHasAttendance /\ AttendanceComesFromLog /\ CheckoutNeedsCheckin
  BY DEF Init, TxLoggedOnce, LoggedScanHasAttendance, AttendanceComesFromLog, CheckoutNeedsCheckin
<1>4. QED
  BY <1>1, <1>2, <1>3 DEF IInv

(* A step that changes no committed row, no scan data and no saw flag and  *)
(* lets no request into the transaction keeps the inductive invariant as   *)
(* long as its own types and fields are right.                             *)
Quiescent ==
    /\ UNCHANGED <<log, attendance>>
    /\ \A r \in Req :
         /\ pc'[r] \in InTransaction \cup {"ok"} =>
              pc'[r] = pc[r] /\ tx'[r] = tx[r] /\ at'[r] = at[r] /\ emp'[r] = emp[r] /\ saw'[r] = saw[r]
         /\ pc[r] = "ok" => pc'[r] = "ok"
         /\ shown'[r] = "success" => shown[r] = "success" \/ pc[r] = "ok"

LEMMA QuiescentStep ==
  ASSUME IInv, Quiescent, TypeOK', FieldsSet'
  PROVE  IInv'
<1>1. TokenOwned'
  BY DEF IInv, Quiescent, TokenOwned
<1>2. SawIsStable'
  BY DEF IInv, Quiescent, SawIsStable, RowOf, InTransaction
<1>3. AnsweredIsLogged'
  BY DEF IInv, Quiescent, AnsweredIsLogged, NewLogRow
<1>4. TxLoggedOnce' /\ LoggedScanHasAttendance' /\ AttendanceComesFromLog' /\ CheckoutNeedsCheckin'
  BY DEF IInv, Quiescent, TxLoggedOnce, LoggedScanHasAttendance, AttendanceComesFromLog, CheckoutNeedsCheckin
<1>5. QED
  BY <1>1, <1>2, <1>3, <1>4 DEF IInv

-----------------------------------------------------------------------------
(* One lemma per action of the handler that enters the transaction or      *)
(* commits; the other actions are quiescent.                               *)

LEMMA InsertLogIInv ==
  ASSUME IInv, NEW r \in Req, InsertLog(r)
  PROVE  IInv'
<1>1. TypeOK'
  BY DEF IInv, TypeOK, InsertLog, dtoVars, Open, InTransaction
<1>2. FieldsSet'
  BY DEF IInv, TypeOK, FieldsSet, InsertLog, dtoVars, InTransaction
<1>3. TokenOwned'
  <2>1. CASE TokenCommitted(r)
    BY <2>1 DEF IInv, TypeOK, TokenOwned, InsertLog, dtoVars, InTransaction
  <2>2. CASE ~TokenCommitted(r)
    <3>1. \A q \in Req \ {r} : pc[q] \in InTransaction => tx[q] # tx[r]
      BY DEF InsertLog, TokenPending
    <3>2. \A l \in log : l.sync_hash # tx[r]
      BY <2>2 DEF TokenCommitted
    <3>3. /\ pc' = [pc EXCEPT ![r] = "logged"]
          /\ tx' = tx /\ log' = log
      BY <2>2 DEF InsertLog, dtoVars
    <3>4. QED
      BY <3>1, <3>2, <3>3 DEF IInv, TypeOK, TokenOwned, InTransaction
  <2>3. QED
    BY <2>1, <2>2
<1>4. SawIsStable'
  BY DEF IInv, TypeOK, SawIsStable, InsertLog, dtoVars, RowOf
<1>5. AnsweredIsLogged'
  BY DEF IInv, TypeOK, AnsweredIsLogged, InsertLog, dtoVars, NewLogRow
<1>6. TxLoggedOnce' /\ LoggedScanHasAttendance' /\ AttendanceComesFromLog' /\ CheckoutNeedsCheckin'
  BY DEF IInv, InsertLog, TxLoggedOnce, LoggedScanHasAttendance, AttendanceComesFromLog, CheckoutNeedsCheckin
<1>7. QED
  BY <1>1, <1>2, <1>3, <1>4, <1>5, <1>6 DEF IInv

LEMMA ReadAttendanceIInv ==
  ASSUME IInv, NEW r \in Req, ReadAttendance(r)
  PROVE  IInv'
<1>1. TypeOK'
  BY DEF IInv, TypeOK, ReadAttendance, dtoVars, Open, InTransaction
<1>2. FieldsSet'
  BY DEF IInv, TypeOK, FieldsSet, ReadAttendance, dtoVars, InTransaction
<1>3. TokenOwned'
  BY DEF IInv, TypeOK, TokenOwned, ReadAttendance, dtoVars, InTransaction
<1>4. SawIsStable'
  BY DEF IInv, TypeOK, SawIsStable, ReadAttendance, dtoVars, RowOf
<1>5. AnsweredIsLogged'
  BY DEF IInv, TypeOK, AnsweredIsLogged, ReadAttendance, dtoVars, NewLogRow
<1>6. TxLoggedOnce' /\ LoggedScanHasAttendance' /\ AttendanceComesFromLog' /\ CheckoutNeedsCheckin'
  BY DEF IInv, ReadAttendance, TxLoggedOnce, LoggedScanHasAttendance, AttendanceComesFromLog, CheckoutNeedsCheckin
<1>7. QED
  BY <1>1, <1>2, <1>3, <1>4, <1>5, <1>6 DEF IInv

LEMMA WriteAttendanceIInv ==
  ASSUME IInv, NEW r \in Req, WriteAttendance(r)
  PROVE  IInv'
<1>1. TypeOK'
  BY DEF IInv, TypeOK, WriteAttendance, dtoVars, Open, InTransaction
<1>2. FieldsSet'
  BY DEF IInv, TypeOK, FieldsSet, WriteAttendance, dtoVars, InTransaction
<1>3. TokenOwned'
  BY DEF IInv, TypeOK, TokenOwned, WriteAttendance, dtoVars, InTransaction
<1>4. SawIsStable'
  BY DEF IInv, TypeOK, SawIsStable, WriteAttendance, dtoVars, RowOf
<1>5. AnsweredIsLogged'
  BY DEF IInv, TypeOK, AnsweredIsLogged, WriteAttendance, dtoVars, NewLogRow
<1>6. TxLoggedOnce' /\ LoggedScanHasAttendance' /\ AttendanceComesFromLog' /\ CheckoutNeedsCheckin'
  BY DEF IInv, WriteAttendance, TxLoggedOnce, LoggedScanHasAttendance, AttendanceComesFromLog, CheckoutNeedsCheckin
<1>7. QED
  BY <1>1, <1>2, <1>3, <1>4, <1>5, <1>6 DEF IInv

(* The row a committing request writes keeps the types, gets its instant   *)
(* in one column and loses no checkin.                                     *)
LEMMA CommittedRow ==
  ASSUME IInv, NEW r \in Req, pc[r] = "written"
  PROVE  /\ emp[r] \in Employees /\ at[r] \in Times
         /\ RowOf(r) \in Employees \X Days
         /\ NewLogRow(r) \in LogRow
         /\ NewRow(r) \in Row
         /\ NewRow(r).checkin # NoTime
         /\ NewRow(r).checkin \in {attendance[RowOf(r)].checkin, at[r]}
         /\ NewRow(r).checkout \in {attendance[RowOf(r)].checkout, at[r]}
<1>1. emp[r] \in Employees /\ at[r] \in Times
  BY DEF IInv, FieldsSet, InTransaction
<1>2. RowOf(r) \in Employees \X Days
  BY <1>1, BusinessDateInDays DEF RowOf
<1>3. NewLogRow(r) \in LogRow
  BY <1>1 DEF IInv, TypeOK, NewLogRow, LogRow
<1>4. attendance[RowOf(r)] \in Row
  BY <1>2 DEF IInv, TypeOK
<1>5. at[r] # NoTime
  BY <1>1, ClockAssumption DEF Times, NoTime
<1>6. saw[r] => attendance[RowOf(r)].checkin # NoTime
  BY DEF IInv, SawIsStable
<1>7. saw[r] \in BOOLEAN
  BY DEF IInv, TypeOK
<1>8. /\ NewRow(r) \in Row
      /\ NewRow(r).checkin # NoTime
      /\ NewRow(r).checkin \in {attendance[RowOf(r)].checkin, at[r]}
      /\ NewRow(r).checkout \in {attendance[RowOf(r)].checkout, at[r]}
  BY <1>1, <1>4, <1>5, <1>6, <1>7 DEF NewRow, Row
<1>9. QED
  BY <1>1, <1>2, <1>3, <1>8

(* The commit publishes the log row and the attendance row in one step,    *)
(* which is what keeps the two tables in agreement.                        *)
LEMMA CommitIInv ==
  ASSUME IInv, NEW r \in Req, Commit(r)
  PROVE  IInv'
<1> DEFINE k == RowOf(r)
           l0 == NewLogRow(r)
<1>1. /\ pc[r] = "written"
      /\ pc' = [pc EXCEPT ![r] = "ok"]
      /\ log' = log \cup {l0}
      /\ attendance' = [attendance EXCEPT ![k] = NewRow(r)]
      /\ UNCHANGED <<clock, status, owner, dev, cred, tx, at, emp, saw, shown, overlap>>
  BY DEF Commit, dtoVars
<1>2. /\ emp[r] \in Employees /\ at[r] \in Times
      /\ k \in Employees \X Days
      /\ l0 \in LogRow
      /\ NewRow(r) \in Row
      /\ NewRow(r).checkin # NoTime
      /\ NewRow(r).checkin \in {attendance[k].checkin, at[r]}
      /\ NewRow(r).checkout \in {attendance[k].checkout, at[r]}
  BY <1>1, CommittedRow
<1>3. /\ l0.sync_hash = tx[r] /\ l0.employee = emp[r] /\ l0.timestamp = at[r]
      /\ k = <<emp[r], BusinessDate(at[r])>>
  BY DEF NewLogRow, RowOf
<1>4. attendance \in [Employees \X Days -> Row] /\ pc \in [Req -> {"idle"} \cup Open \cup Final]
      /\ log \in SUBSET LogRow
  BY DEF IInv, TypeOK
<1> HIDE DEF k, l0
<1>5. \A j \in Employees \X Days :
        attendance'[j] = IF j = k THEN NewRow(r) ELSE attendance[j]
  BY <1>1, <1>4
<1>6. TypeOK'
  BY <1>1, <1>2 DEF IInv, TypeOK, Open, Final, InTransaction
<1>7. FieldsSet'
  BY <1>1, <1>2 DEF IInv, TypeOK, FieldsSet, InTransaction
<1>8. TokenOwned'
  <2>1. \A q \in Req \ {r} : pc[q] \in InTransaction => tx[q] # tx[r]
    BY <1>1 DEF IInv, TokenOwned, InTransaction
  <2>2. QED
    BY <1>1, <1>3, <2>1 DEF IInv, TypeOK, TokenOwned, InTransaction
<1>9. SawIsStable'
  <2> SUFFICES ASSUME NEW q \in Req, pc'[q] \in {"read", "written"}, saw'[q]
               PROVE  attendance'[RowOf(q)'].checkin # NoTime
    BY DEF SawIsStable
  <2>1. pc[q] \in {"read", "written"} /\ saw[q] /\ RowOf(q)' = RowOf(q)
    BY <1>1, <1>4 DEF RowOf
  <2>2. emp[q] \in Employees /\ at[q] \in Times
    BY <2>1 DEF IInv, FieldsSet, InTransaction
  <2>3. RowOf(q) \in Employees \X Days
    BY <2>2, BusinessDateInDays DEF RowOf
  <2>4. attendance[RowOf(q)].checkin # NoTime
    BY <2>1 DEF IInv, SawIsStable
  <2>5. QED
    BY <1>2, <1>5, <2>1, <2>3, <2>4
<1>10. AnsweredIsLogged'
  <2>1. \A q \in Req : NewLogRow(q)' = NewLogRow(q)
    BY <1>1 DEF NewLogRow
  <2>2. NewLogRow(r) \in log'
    BY <1>1 DEF l0
  <2>3. QED
    BY <1>1, <1>4, <2>1, <2>2 DEF IInv, AnsweredIsLogged
<1>11. TxLoggedOnce'
  <2>1. \A l \in log : l.sync_hash # tx[r]
    BY <1>1 DEF IInv, TokenOwned, InTransaction
  <2>2. QED
    BY <1>1, <1>3, <2>1 DEF IInv, TxLoggedOnce
<1>12. LoggedScanHasAttendance'
  <2> SUFFICES ASSUME NEW l \in log'
               PROVE  attendance'[<<l.employee, BusinessDate(l.timestamp)>>].checkin # NoTime
    BY DEF LoggedScanHasAttendance
  <2>1. CASE l = l0
    BY <1>2, <1>3, <1>5, <2>1
  <2>2. CASE l # l0
    <3>1. l \in log
      BY <1>1, <2>2
    <3>2. l.employee \in Employees /\ l.timestamp \in Times
      BY <1>4, <3>1 DEF LogRow
    <3>3. <<l.employee, BusinessDate(l.timestamp)>> \in Employees \X Days
      BY <3>2, BusinessDateInDays
    <3>4. attendance[<<l.employee, BusinessDate(l.timestamp)>>].checkin # NoTime
      BY <3>1 DEF IInv, LoggedScanHasAttendance
    <3>5. QED
      BY <1>2, <1>5, <3>3, <3>4
  <2>3. QED
    BY <2>1, <2>2
<1>13. AttendanceComesFromLog'
  <2> SUFFICES ASSUME NEW e \in Employees, NEW d \in Days,
                      NEW t \in {attendance'[<<e, d>>].checkin, attendance'[<<e, d>>].checkout} \ {NoTime}
               PROVE  \E l \in log' : l.employee = e /\ l.timestamp = t /\ BusinessDate(t) = d
    BY DEF AttendanceComesFromLog
  <2>1. <<e, d>> \in Employees \X Days
    OBVIOUS
  <2>2. CASE t \in {attendance[<<e, d>>].checkin, attendance[<<e, d>>].checkout}
    <3>1. \E l \in log : l.employee = e /\ l.timestamp = t /\ BusinessDate(t) = d
      BY <2>2 DEF IInv, AttendanceComesFromLog
    <3>2. QED
      BY <1>1, <3>1
  <2>3. CASE t \notin {attendance[<<e, d>>].checkin, attendance[<<e, d>>].checkout}
    <3>1. <<e, d>> = k /\ t = at[r]
      BY <1>2, <1>5, <2>1, <2>3
    <3>2. e = emp[r] /\ BusinessDate(t) = d
      BY <1>3, <3>1
    <3>3. l0 \in log'
      BY <1>1
    <3>4. QED
      BY <1>3, <3>1, <3>2, <3>3
  <2>4. QED
    BY <2>2, <2>3
<1>14. CheckoutNeedsCheckin'
  <2> SUFFICES ASSUME NEW e \in Employees, NEW d \in Days,
                      attendance'[<<e, d>>].checkout # NoTime
               PROVE  attendance'[<<e, d>>].checkin # NoTime
    BY DEF CheckoutNeedsCheckin
  <2>1. <<e, d>> \in Employees \X Days
    OBVIOUS
  <2>2. QED
    BY <1>2, <1>5, <2>1 DEF IInv, CheckoutNeedsCheckin
<1>15. QED
  BY <1>6, <1>7, <1>8, <1>9, <1>10, <1>11, <1>12, <1>13, <1>14 DEF IInv

-----------------------------------------------------------------------------
(* The other actions of a request. *)
LEMMA QuiescentRequestStep ==
  ASSUME IInv, NEW r \in Req,
         \/ LookupDevice(r) \/ ResolveCredential(r) \/ AnswerDuplicate(r)
         \/ Terminal(r) \/ Fail(r)
  PROVE  IInv'
<1> USE DEF IInv, TypeOK
<1>1. ASSUME NEW d \in Devices, NEW c \in Credentials, NEW q \in Req, Receive(r, d, c, q)
      PROVE  IInv'
  <2>1. TypeOK'
    BY <1>1 DEF Receive, Open, InTransaction, Times
  <2>2. FieldsSet'
    BY <1>1 DEF Receive, FieldsSet, InTransaction
  <2>3. Quiescent
    BY <1>1 DEF Receive, Quiescent, InTransaction
  <2>4. QED
    BY <2>1, <2>2, <2>3, QuiescentStep
<1>2. CASE LookupDevice(r)
  <2>1. TypeOK'
    BY <1>2 DEF LookupDevice, dtoVars, Open, Final
  <2>2. FieldsSet'
    BY <1>2 DEF LookupDevice, dtoVars, FieldsSet, InTransaction
  <2>3. Quiescent
    BY <1>2 DEF LookupDevice, dtoVars, Quiescent, InTransaction
  <2>4. QED
    BY <2>1, <2>2, <2>3, QuiescentStep
<1>3. CASE ResolveCredential(r)
  <2>1. cred[r] \in Credentials /\ owner[cred[r]] \in Employees \cup {NoOne}
    BY <1>3 DEF ResolveCredential, FieldsSet
  <2>2. TypeOK'
    BY <1>3, <2>1 DEF ResolveCredential, dtoVars, Open, Final
  <2>3. FieldsSet'
    BY <1>3, <2>1 DEF ResolveCredential, dtoVars, FieldsSet, InTransaction
  <2>4. Quiescent
    BY <1>3 DEF ResolveCredential, dtoVars, Quiescent, InTransaction
  <2>5. QED
    BY <2>2, <2>3, <2>4, QuiescentStep
<1>4. CASE AnswerDuplicate(r)
  <2>1. TypeOK'
    BY <1>4 DEF AnswerDuplicate, dtoVars, Final
  <2>2. FieldsSet'
    BY <1>4 DEF AnswerDuplicate, dtoVars, FieldsSet, InTransaction
  <2>3. Quiescent
    BY <1>4 DEF AnswerDuplicate, dtoVars, Quiescent, InTransaction
  <2>4. QED
    BY <2>1, <2>2, <2>3, QuiescentStep
<1>5. CASE \E d \in Devices, c \in Credentials : Scan(r, d, c)
  BY <1>1, <1>5 DEF Scan
<1>6. CASE \E q \in Req : Retry(r, q)
  <2>1. PICK q \in Req : Retry(r, q)
    BY <1>6
  <2>2. dev[q] \in Devices /\ cred[q] \in Credentials /\ tx[q] \in Req
    BY <2>1 DEF Retry, FieldsSet
  <2>3. QED
    BY <1>1, <2>1, <2>2 DEF Retry
<1>7. CASE Show(r)
  <2>1. TypeOK'
    BY <1>7 DEF Show, Displayed, dtoVars
  <2>2. FieldsSet'
    BY <1>7 DEF Show, dtoVars, FieldsSet, InTransaction
  <2>3. Quiescent
    BY <1>7 DEF Show, Displayed, dtoVars, Quiescent, InTransaction
  <2>4. QED
    BY <2>1, <2>2, <2>3, QuiescentStep
<1>8. CASE GiveUp(r)
  <2>1. TypeOK'
    BY <1>8 DEF GiveUp, dtoVars
  <2>2. FieldsSet'
    BY <1>8 DEF GiveUp, dtoVars, FieldsSet, InTransaction
  <2>3. Quiescent
    BY <1>8 DEF GiveUp, dtoVars, Quiescent, InTransaction
  <2>4. QED
    BY <2>1, <2>2, <2>3, QuiescentStep
<1>9. CASE Fail(r)
  <2>1. TypeOK'
    BY <1>9 DEF Fail, dtoVars, Final
  <2>2. FieldsSet'
    BY <1>9 DEF Fail, dtoVars, FieldsSet, InTransaction, Open
  <2>3. Quiescent
    BY <1>9 DEF Fail, dtoVars, Quiescent, InTransaction, Open
  <2>4. QED
    BY <2>1, <2>2, <2>3, QuiescentStep
<1>10. QED
  BY <1>2, <1>3, <1>4, <1>5, <1>6, <1>7, <1>8, <1>9 DEF Terminal

(* The clock, device administration and credential administration. *)
LEMMA EnvironmentIInv ==
  ASSUME IInv, Environment
  PROVE  IInv'
<1> USE DEF IInv, TypeOK
<1>1. TypeOK'
  <2>1. CASE Tick
    BY <2>1, ClockAssumption DEF Tick, dtoVars, Times
  <2>2. CASE \E d \in Devices, s \in {"ACTIVE", "INACTIVE"} : SetStatus(d, s)
    BY <2>2 DEF SetStatus, dtoVars
  <2>3. CASE \E c \in Credentials, e \in Employees \cup {NoOne} : SetOwner(c, e)
    BY <2>3 DEF SetOwner, dtoVars
  <2>4. QED
    BY <2>1, <2>2, <2>3 DEF Environment
<1>2. FieldsSet'
  BY DEF Environment, Tick, SetStatus, SetOwner, dtoVars, FieldsSet, InTransaction
<1>3. Quiescent
  BY DEF Environment, Tick, SetStatus, SetOwner, dtoVars, Quiescent, InTransaction
<1>4. QED
  BY <1>1, <1>2, <1>3, QuiescentStep

(* A stuttering step changes nothing. *)
LEMMA StutterIInv == IInv /\ UNCHANGED vars => IInv'
<1> SUFFICES ASSUME IInv, UNCHANGED vars PROVE IInv'
  OBVIOUS
<1>1. TypeOK' /\ FieldsSet'
  BY DEF vars, dtoVars, IInv, TypeOK, FieldsSet
<1>2. Quiescent
  BY DEF vars, dtoVars, Quiescent, IInv, TypeOK
<1>3. QED
  BY <1>1, <1>2, QuiescentStep

LEMMA NextIInv == IInv /\ [Next]_vars => IInv'
<1> SUFFICES ASSUME IInv, [Next]_vars PROVE IInv'
  OBVIOUS
<1>1. ASSUME NEW r \in Req, Handle(r) PROVE IInv'
  BY <1>1, QuiescentRequestStep, InsertLogIInv, ReadAttendanceIInv, WriteAttendanceIInv, CommitIInv DEF Handle
<1>2. ASSUME NEW r \in Req, Terminal(r) \/ Fail(r) PROVE IInv'
  BY <1>2, QuiescentRequestStep
<1>3. CASE Environment
  BY <1>3, EnvironmentIInv
<1>4. CASE UNCHANGED vars
  BY <1>4, StutterIInv
<1>5. QED
  BY <1>1, <1>2, <1>3, <1>4 DEF Next

(* The inductive invariant holds in every state of every behaviour. *)
THEOREM Invariance == Spec => []IInv
BY InitIInv, NextIInv, PTL DEF Spec

(* Every variable keeps its type. *)
THEOREM TypeCorrect == Spec => []TypeOK
<1>1. IInv => TypeOK
  BY DEF IInv
<1>2. QED
  BY Invariance, <1>1, PTL

(* The DTO's promise: no client_tx_id is ever logged twice, however many   *)
(* requests carry it and however they interleave.                          *)
THEOREM LoggedAtMostOnce == Spec => []TxLoggedOnce
<1>1. IInv => TxLoggedOnce
  BY DEF IInv
<1>2. QED
  BY Invariance, <1>1, PTL

(* The two tables agree: a logged scan has an attendance row with a checkin. *)
THEOREM LoggedIsAttended == Spec => []LoggedScanHasAttendance
<1>1. IInv => LoggedScanHasAttendance
  BY DEF IInv
<1>2. QED
  BY Invariance, <1>1, PTL

(* Every attendance time is a logged scan of that employee and that         *)
(* business date.                                                          *)
THEOREM AttendedIsLogged == Spec => []AttendanceComesFromLog
<1>1. IInv => AttendanceComesFromLog
  BY DEF IInv
<1>2. QED
  BY Invariance, <1>1, PTL

(* No row has a checkout alone, although the branch is chosen on a stale    *)
(* read.                                                                   *)
THEOREM NoLoneCheckout == Spec => []CheckoutNeedsCheckin
<1>1. IInv => CheckoutNeedsCheckin
  BY DEF IInv
<1>2. QED
  BY Invariance, <1>1, PTL

(* Log and attendance tell the same story: the four facts together. *)
THEOREM LogAndAttendanceStayAgreed == Spec => []LogAndAttendanceAgree
BY LoggedAtMostOnce, LoggedIsAttended, AttendedIsLogged, NoLoneCheckout, PTL
   DEF LogAndAttendanceAgree

(* A scan the terminal showed as successful is in the log. *)
THEOREM SuccessIsLogged == Spec => []ShownSuccessIsLogged
<1>1. IInv => ShownSuccessIsLogged
  BY DEF IInv, AnsweredIsLogged, ShownSuccessIsLogged, NewLogRow
<1>2. QED
  BY Invariance, <1>1, PTL

-----------------------------------------------------------------------------
(* The refinement: commits are the steps of the abstract book, everything   *)
(* else stutters.                                                          *)

LEMMA InitRefines == Init => Book!BookInit
BY DEF Init, Book!BookInit, Days, Book!Days

(* Only a commit writes the two tables. *)
LEMMA OthersStutter ==
  ASSUME [Next]_vars, \A r \in Req : ~Commit(r)
  PROVE  UNCHANGED <<log, attendance>>
<1>1. ASSUME NEW r \in Req, Handle(r) PROVE UNCHANGED <<log, attendance>>
  BY <1>1 DEF Handle, LookupDevice, ResolveCredential, InsertLog, AnswerDuplicate, ReadAttendance,
              WriteAttendance
<1>2. ASSUME NEW r \in Req, Terminal(r) \/ Fail(r) PROVE UNCHANGED <<log, attendance>>
  BY <1>2 DEF Terminal, Scan, Retry, Receive, Show, GiveUp, Fail
<1>3. CASE Environment
  BY <1>3 DEF Environment, Tick, SetStatus, SetOwner
<1>4. CASE UNCHANGED vars
  BY <1>4 DEF vars
<1>5. QED
  BY <1>1, <1>2, <1>3, <1>4 DEF Next

(* A commit enters the request's scan under its token. *)
LEMMA CommitEnters ==
  ASSUME IInv, NEW r \in Req, Commit(r)
  PROVE  Book!Enter(tx[r], emp[r], at[r])
<1> DEFINE Entry(l) == [token |-> l.sync_hash, employee |-> l.employee, time |-> l.timestamp]
           scans == {Entry(l) : l \in log}
           k == <<emp[r], BusinessDate(at[r])>>
<1>1. /\ pc[r] = "written"
      /\ log' = log \cup {NewLogRow(r)}
      /\ attendance' = [attendance EXCEPT ![k] = NewRow(r)]
  BY DEF Commit, RowOf
<1>2. emp[r] \in Employees /\ at[r] \in Times
  BY <1>1, CommittedRow
<1>3. [t \in Times |-> BusinessDate(t)][at[r]] = BusinessDate(at[r])
  BY <1>2
<1>4. \A s \in scans : s.token # tx[r]
  BY <1>1 DEF IInv, TokenOwned, InTransaction
<1>5. {Entry(l) : l \in log'} = scans \cup {[token |-> tx[r], employee |-> emp[r], time |-> at[r]]}
  <2> DEFINE new == NewLogRow(r)
  <2>1. Entry(new) = [token |-> tx[r], employee |-> emp[r], time |-> at[r]]
    BY DEF NewLogRow
  <2>2. log' = log \cup {new}
    BY <1>1
  <2>3. {Entry(l) : l \in log \cup {new}} = scans \cup {Entry(new)}
    <3> HIDE DEF Entry, new
    <3>1. QED
      OBVIOUS
  <2>4. QED
    BY <2>1, <2>2, <2>3
<1>6. \/ attendance' = [attendance EXCEPT ![k] = [attendance[k] EXCEPT !.checkin = at[r]]]
      \/ /\ attendance[k].checkin # NoTime
         /\ attendance' = [attendance EXCEPT ![k] = [attendance[k] EXCEPT !.checkout = at[r]]]
  BY <1>1 DEF NewRow, RowOf, IInv, SawIsStable
<1>7. QED
  BY <1>3, <1>4, <1>5, <1>6 DEF Book!Enter

LEMMA NextRefines == IInv /\ [Next]_vars => [Book!BookNext]_(Book!bookVars)
<1> SUFFICES ASSUME IInv, [Next]_vars PROVE [Book!BookNext]_(Book!bookVars)
  OBVIOUS
<1>1. CASE \A r \in Req : ~Commit(r)
  BY <1>1, OthersStutter DEF Book!bookVars
<1>2. ASSUME NEW r \in Req, Commit(r) PROVE Book!BookNext
  <2>1. tx[r] \in Req /\ emp[r] \in Employees /\ at[r] \in Times
    BY <1>2, CommittedRow DEF Commit, IInv, TypeOK
  <2>2. PICK k \in Req, e \in Employees, t \in Times : k = tx[r] /\ e = emp[r] /\ t = at[r]
    BY <2>1
  <2>3. Book!Enter(tx[r], emp[r], at[r])
    BY <1>2, CommitEnters
  <2>4. Book!Enter(k, e, t)
    BY <2>2, <2>3 DEF Book!Enter
  <2>5. QED
    BY <2>4 DEF Book!BookNext
<1>3. QED
  BY <1>1, <1>2

(* The check-in endpoint implements the abstract book, for any number of    *)
(* requests, terminals, credentials and employees.                         *)
THEOREM ImplementsBook == Spec => EntersScansInBook
BY InitRefines, NextRefines, Invariance, PTL DEF Spec, EntersScansInBook, Book!BookSpec

-----------------------------------------------------------------------------
(* The exactness of a quiet day: an employee's scans that were not in       *)
(* progress together were received, read and committed one after the other. *)

Committed == {r \in Req : pc[r] = "ok"}

(* The log holds the scans of the committed requests, and no others.        *)
LogIsCommitted ==
    /\ log = {NewLogRow(r) : r \in Committed}
    /\ IsFiniteSet(Committed)

(* Instants are taken from a clock that does not go back.                   *)
TakenFromClock == \A r \in Req : pc[r] # "idle" => at[r] <= clock

(* Requests that are open at once have overlapped.                          *)
OpenTogether ==
    \A q, r \in Req : q # r /\ pc[q] \in Open /\ pc[r] \in Open =>
      <<q, r>> \in overlap \/ <<r, q>> \in overlap

(* A request that overlapped none that has committed came after it, and has *)
(* read what it wrote.                                                     *)
ComesAfter ==
    \A q, r \in Req :
      /\ pc[q] = "ok" /\ pc[r] \in Open
      /\ <<q, r>> \notin overlap /\ <<r, q>> \notin overlap
      => /\ at[q] <= at[r]
         /\ pc[r] \in {"read", "written"} /\ RowOf(q) = RowOf(r) => saw[r]

(* The row of a quiet day, from its first scan to its last.                 *)
FirstOf(done, f) == f \in done /\ \A q \in done : at[f] <= at[q]
LastOf(done, g) == g \in done /\ \A q \in done : at[q] <= at[g]
QuietRow ==
    \A e \in Employees, d \in Days :
      LET done == CommittedOn(e, d)
          row  == attendance[<<e, d>>]
      IN  Quiet(e, d) /\ done # {} =>
            /\ \E f \in Req : FirstOf(done, f) /\ row.checkin = at[f]
            /\ \/ row.checkout = NoTime /\ \E f \in Req : done = {f}
               \/ \E g \in Req : LastOf(done, g) /\ row.checkout = at[g] /\ \E q \in done : q # g

OrderInv == LogIsCommitted /\ TakenFromClock /\ OpenTogether /\ ComesAfter /\ QuietRow

(* A step other than a commit: the tables, the committed requests and what  *)
(* the open ones have captured stay, an arriving request takes its instant  *)
(* from the clock and overlaps whoever is open, and a read sees the table.  *)
Arrives(r) ==
    /\ pc[r] = "idle" /\ pc'[r] = "received" /\ at'[r] = clock
    /\ \A q \in Req \ {r} : pc'[q] = pc[q] /\ (pc[q] \in Open => <<q, r>> \in overlap')

Steady ==
    /\ UNCHANGED <<log, attendance>>
    /\ clock <= clock' /\ overlap \subseteq overlap'
    /\ \A r \in Req :
         /\ pc'[r] = "ok" <=> pc[r] = "ok"
         /\ pc'[r] # "idle" => Arrives(r) \/ (pc[r] # "idle" /\ at'[r] = at[r])
         /\ pc'[r] \in Open => Arrives(r) \/ pc[r] \in Open
         /\ pc[r] = "ok" => tx'[r] = tx[r] /\ emp'[r] = emp[r]
         /\ pc'[r] \in {"read", "written"} =>
              /\ emp'[r] = emp[r]
              /\ \/ pc[r] \in {"read", "written"} /\ saw'[r] = saw[r]
                 \/ saw'[r] = (attendance[RowOf(r)].checkin # NoTime)

(* Of a step other than a commit: whatever is not about open requests.      *)
LEMMA SteadyKeepsCommitted ==
  ASSUME IInv, OrderInv, Steady
  PROVE  LogIsCommitted' /\ QuietRow'
<1>1. /\ Committed' = Committed
      /\ \A r \in Committed : at'[r] = at[r] /\ tx'[r] = tx[r] /\ emp'[r] = emp[r]
      /\ overlap \subseteq overlap' /\ log' = log /\ attendance' = attendance
  BY DEF Steady, Committed, Arrives
<1>2. \A r \in Committed : NewLogRow(r)' = NewLogRow(r)
  BY <1>1 DEF NewLogRow
<1>3. LogIsCommitted'
  <2>1. {NewLogRow(r) : r \in Committed}' = {NewLogRow(r) : r \in Committed}
    BY <1>1, <1>2
  <2> QED
    BY <1>1, <2>1 DEF OrderInv, LogIsCommitted
<1>4. \A e, d : CommittedOn(e, d)' = CommittedOn(e, d) /\ CommittedOn(e, d) \subseteq Committed
  BY <1>1 DEF CommittedOn, Committed
<1>5. QuietRow'
  <2> SUFFICES ASSUME NEW e \in Employees, NEW d \in Days,
                      Quiet(e, d)', CommittedOn(e, d)' # {}
               PROVE  /\ \E f \in Req : FirstOf(CommittedOn(e, d), f)' /\ attendance'[<<e, d>>].checkin = at'[f]
                      /\ \/ attendance'[<<e, d>>].checkout = NoTime /\ \E f \in Req : CommittedOn(e, d)' = {f}
                         \/ \E g \in Req : /\ LastOf(CommittedOn(e, d), g)'
                                           /\ attendance'[<<e, d>>].checkout = at'[g]
                                           /\ \E q \in CommittedOn(e, d)' : q # g
    BY DEF QuietRow
  <2>1. Quiet(e, d) /\ CommittedOn(e, d) # {}
    BY <1>1, <1>4 DEF Quiet
  <2>2. \A f : /\ FirstOf(CommittedOn(e, d), f) => FirstOf(CommittedOn(e, d), f)' /\ at'[f] = at[f]
               /\ LastOf(CommittedOn(e, d), f) => LastOf(CommittedOn(e, d), f)' /\ at'[f] = at[f]
    BY <1>1, <1>4 DEF FirstOf, LastOf
  <2> QED
    BY <1>1, <1>4, <2>1, <2>2 DEF OrderInv, QuietRow
<1> QED
  BY <1>3, <1>5

(* Of a step other than a commit: the order among the open requests. *)
LEMMA SteadyKeepsOrder ==
  ASSUME IInv, TypeOK', OrderInv, Steady
  PROVE  TakenFromClock' /\ OpenTogether' /\ ComesAfter'
<1> USE DEF OrderInv, Steady
<1>1. /\ clock \in Int /\ clock' \in Int
      /\ \A r \in Req : pc[r] \in Open \cup {"ok"} => pc[r] # "idle" /\ at[r] \in Int
  BY ClockAssumption DEF IInv, TypeOK, FieldsSet, Times, Open, InTransaction
<1>2. \A r \in Req : at[r] \in Int
  BY ClockAssumption DEF IInv, TypeOK, Times, NoTime
<1>3. TakenFromClock'
  BY <1>1, <1>2 DEF TakenFromClock, Arrives
<1>4. OpenTogether'
  <2> SUFFICES ASSUME NEW q \in Req, NEW r \in Req, q # r, pc'[q] \in Open, pc'[r] \in Open
               PROVE  <<q, r>> \in overlap' \/ <<r, q>> \in overlap'
    BY DEF OpenTogether
  <2>1. CASE pc[q] \in Open /\ pc[r] \in Open
    BY <2>1 DEF OpenTogether
  <2>2. CASE Arrives(r)
    BY <2>2 DEF Arrives
  <2>3. CASE Arrives(q)
    BY <2>3 DEF Arrives
  <2> QED
    BY <2>1, <2>2, <2>3
<1>5. ComesAfter'
  <2> SUFFICES ASSUME NEW q \in Req, NEW r \in Req, pc'[q] = "ok", pc'[r] \in Open,
                      <<q, r>> \notin overlap', <<r, q>> \notin overlap'
               PROVE  /\ at'[q] <= at'[r]
                      /\ pc'[r] \in {"read", "written"} /\ RowOf(q)' = RowOf(r)' => saw'[r]
    BY DEF ComesAfter
  <2>1. /\ pc[q] = "ok" /\ at'[q] = at[q] /\ emp'[q] = emp[q] /\ tx'[q] = tx[q]
        /\ <<q, r>> \notin overlap /\ <<r, q>> \notin overlap
    BY DEF Arrives
  <2>2. CASE Arrives(r)
    BY <2>1, <2>2 DEF Arrives, TakenFromClock
  <2>3. CASE ~Arrives(r)
    <3>1. pc[r] \in Open /\ at'[r] = at[r]
      BY <1>1, <2>3 DEF Open, InTransaction
    <3>2. at[q] <= at[r] /\ (pc[r] \in {"read", "written"} /\ RowOf(q) = RowOf(r) => saw[r])
      BY <2>1, <3>1 DEF ComesAfter
    <3>3. ASSUME pc'[r] \in {"read", "written"}, RowOf(q)' = RowOf(r)'
          PROVE  saw'[r]
      <4>1. emp'[r] = emp[r] /\ RowOf(q) = RowOf(r)
        BY <2>1, <3>1, <3>3 DEF RowOf
      <4>2. NewLogRow(q) \in log
        BY <2>1 DEF IInv, AnsweredIsLogged
      <4>3. attendance[RowOf(q)].checkin # NoTime
        BY <4>2 DEF IInv, LoggedScanHasAttendance, NewLogRow, RowOf
      <4> QED
        BY <3>2, <3>3, <4>1, <4>3
    <3> QED
      BY <2>1, <3>1, <3>2, <3>3
  <2> QED
    BY <2>2, <2>3
<1> QED
  BY <1>3, <1>4, <1>5

(* Every step other than a commit is steady. *)
LEMMA OthersAreSteady ==
  ASSUME IInv, [Next]_vars, \A r \in Req : ~Commit(r)
  PROVE  Steady
<1>1. clock \in Int
  BY ClockAssumption DEF IInv, TypeOK, Times
<1>2. pc \in [Req -> {"idle"} \cup Open \cup Final]
  BY DEF IInv, TypeOK
<1>3. saw \in [Req -> BOOLEAN] /\ emp \in [Req -> Employees \cup {NoOne}]
      /\ tx \in [Req -> Req] /\ at \in [Req -> Times \cup {NoTime}]
  BY DEF IInv, TypeOK
<1>4. ASSUME NEW r \in Req, NEW d, NEW c, NEW token, Receive(r, d, c, token)
      PROVE  Steady
  <2>1. Arrives(r) /\ \A q \in Req \ {r} : pc'[q] = pc[q] /\ at'[q] = at[q] /\ tx'[q] = tx[q]
    BY <1>2, <1>3, <1>4 DEF Receive, Arrives
  <2>2. UNCHANGED <<log, attendance, clock, emp, saw>> /\ overlap \subseteq overlap' /\ pc[r] = "idle"
    BY <1>4 DEF Receive
  <2>3. pc'[r] = "received" /\ at'[r] = clock
    BY <2>1 DEF Arrives
  <2>4. ASSUME NEW q \in Req
        PROVE  /\ pc'[q] = "ok" <=> pc[q] = "ok"
               /\ pc'[q] # "idle" => Arrives(q) \/ (pc[q] # "idle" /\ at'[q] = at[q])
               /\ pc'[q] \in Open => Arrives(q) \/ pc[q] \in Open
               /\ pc[q] = "ok" => tx'[q] = tx[q] /\ emp'[q] = emp[q]
               /\ pc'[q] \in {"read", "written"} => pc[q] \in {"read", "written"}
    <3>1. CASE q = r
      <4>1. Arrives(q) /\ pc'[q] = "received" /\ pc[q] = "idle"
        BY <2>1, <2>2, <2>3, <3>1
      <4> QED
        BY <4>1
    <3>2. CASE q # r
      BY <2>1, <2>2, <3>2
    <3> QED
      BY <3>1, <3>2
  <2> QED
    BY <1>1, <2>2, <2>4 DEF Steady
<1>5. ASSUME NEW r \in Req, Handle(r) PROVE Steady
  <2>1. CASE LookupDevice(r)
    BY <1>1, <1>2, <2>1 DEF LookupDevice, dtoVars, Steady, Open, InTransaction
  <2>2. CASE ResolveCredential(r)
    BY <1>1, <1>2, <1>3, <2>2 DEF ResolveCredential, dtoVars, Steady, Open, InTransaction
  <2>3. CASE InsertLog(r)
    BY <1>1, <1>2, <2>3 DEF InsertLog, dtoVars, Steady, Open, InTransaction
  <2>4. CASE AnswerDuplicate(r)
    BY <1>1, <1>2, <2>4 DEF AnswerDuplicate, dtoVars, Steady, Open, InTransaction
  <2>5. CASE ReadAttendance(r)
    BY <1>1, <1>2, <1>3, <2>5 DEF ReadAttendance, dtoVars, Steady, Open, InTransaction
  <2>6. CASE WriteAttendance(r)
    BY <1>1, <1>2, <2>6 DEF WriteAttendance, dtoVars, Steady, Open, InTransaction
  <2> QED
    BY <1>5, <2>1, <2>2, <2>3, <2>4, <2>5, <2>6 DEF Handle
<1>6. ASSUME NEW r \in Req, Terminal(r) PROVE Steady
  <2>1. CASE Show(r) \/ GiveUp(r)
    BY <1>1, <2>1 DEF Show, GiveUp, dtoVars, Steady
  <2> QED
    BY <1>4, <1>6, <2>1 DEF Terminal, Scan, Retry
<1>7. ASSUME NEW r \in Req, Fail(r) PROVE Steady
  BY <1>1, <1>2, <1>7 DEF Fail, dtoVars, Steady, Open, InTransaction
<1>8. CASE Environment
  <2>1. CASE Tick
    BY <1>1, <2>1 DEF Tick, dtoVars, Steady
  <2>2. CASE \E d \in Devices, s \in {"ACTIVE", "INACTIVE"} : SetStatus(d, s)
    BY <1>1, <2>2 DEF SetStatus, dtoVars, Steady
  <2>3. CASE \E c \in Credentials, e \in Employees \cup {NoOne} : SetOwner(c, e)
    BY <1>1, <2>3 DEF SetOwner, dtoVars, Steady
  <2> QED
    BY <1>8, <2>1, <2>2, <2>3 DEF Environment
<1>9. CASE UNCHANGED vars
  BY <1>1, <1>9 DEF vars, Steady
<1> QED
  BY <1>5, <1>6, <1>7, <1>8, <1>9 DEF Next

(* A commit: the open requests that are left have overlapped the one that   *)
(* commits, so their order among the committed ones is as before.          *)
LEMMA CommitKeepsOrder ==
  ASSUME IInv, OrderInv, NEW r \in Req, Commit(r)
  PROVE  LogIsCommitted' /\ TakenFromClock' /\ OpenTogether' /\ ComesAfter'
<1>1. /\ pc[r] = "written" /\ pc' = [pc EXCEPT ![r] = "ok"]
      /\ log' = log \cup {NewLogRow(r)}
      /\ UNCHANGED <<clock, tx, at, emp, saw, overlap>>
      /\ pc \in [Req -> {"idle"} \cup Open \cup Final]
  BY DEF Commit, dtoVars, IInv, TypeOK
<1>2. \A q \in Req : /\ NewLogRow(q)' = NewLogRow(q) /\ RowOf(q)' = RowOf(q)
                     /\ pc'[q] = IF q = r THEN "ok" ELSE pc[q]
  BY <1>1 DEF NewLogRow, RowOf
<1>3. LogIsCommitted'
  <2>1. Committed' = Committed \cup {r} /\ r \in Req
    BY <1>1, <1>2 DEF Committed
  <2>2. {NewLogRow(q) : q \in Committed}' = {NewLogRow(q) : q \in Committed \cup {r}}
    BY <1>2, <2>1 DEF Committed
  <2>3. log' = {NewLogRow(q) : q \in Committed} \cup {NewLogRow(r)}
    BY <1>1 DEF OrderInv, LogIsCommitted
  <2>4. IsFiniteSet(Committed \cup {r})
    BY FS_AddElement DEF OrderInv, LogIsCommitted
  <2> QED
    BY <2>1, <2>2, <2>3, <2>4 DEF LogIsCommitted
<1>4. TakenFromClock'
  BY <1>1, <1>2 DEF OrderInv, TakenFromClock
<1>5. OpenTogether'
  BY <1>1, <1>2 DEF OrderInv, OpenTogether, Open, InTransaction
<1>6. ComesAfter'
  <2> SUFFICES ASSUME NEW p \in Req, NEW q \in Req, pc'[p] = "ok", pc'[q] \in Open,
                      <<p, q>> \notin overlap, <<q, p>> \notin overlap
               PROVE  /\ at[p] <= at[q]
                      /\ pc[q] \in {"read", "written"} /\ RowOf(p) = RowOf(q) => saw[q]
    BY <1>1, <1>2 DEF ComesAfter, Open, InTransaction
  <2>1. q # r /\ pc[q] \in Open /\ pc[r] \in Open
    BY <1>1, <1>2 DEF Open, InTransaction
  <2>2. p # r
    BY <2>1 DEF OrderInv, OpenTogether
  <2> QED
    BY <1>2, <2>1, <2>2 DEF OrderInv, ComesAfter
<1> QED
  BY <1>3, <1>4, <1>5, <1>6

(* A commit on a day that stays quiet: it is the first scan of the day or   *)
(* comes after all the others.                                             *)
LEMMA CommitKeepsQuietRow ==
  ASSUME IInv, OrderInv, NEW r \in Req, Commit(r)
  PROVE  QuietRow'
<1> DEFINE k == RowOf(r)
<1>1. /\ pc[r] = "written" /\ pc' = [pc EXCEPT ![r] = "ok"]
      /\ attendance' = [attendance EXCEPT ![k] = NewRow(r)]
      /\ UNCHANGED <<at, emp, overlap>>
      /\ pc \in [Req -> {"idle"} \cup Open \cup Final]
      /\ attendance \in [Employees \X Days -> Row]
      /\ k = <<emp[r], BusinessDate(at[r])>>
  BY DEF Commit, dtoVars, IInv, TypeOK, RowOf
<1>2. \A q \in Req : at[q] \in Int
  BY ClockAssumption DEF IInv, TypeOK, Times, NoTime
<1>3. \A e, d : CommittedOn(e, d)' = IF k = <<e, d>> THEN CommittedOn(e, d) \cup {r} ELSE CommittedOn(e, d)
  BY <1>1 DEF CommittedOn
<1>4. \A e, d : Quiet(e, d)' => Quiet(e, d)
  BY <1>1, <1>3 DEF Quiet
<1>5. \A e, d : r \notin CommittedOn(e, d) /\ CommittedOn(e, d) \subseteq Req
  BY <1>1 DEF CommittedOn
<1> SUFFICES ASSUME NEW e \in Employees, NEW d \in Days,
                    Quiet(e, d)', CommittedOn(e, d)' # {}
             PROVE  /\ \E f \in Req : FirstOf(CommittedOn(e, d)', f) /\ attendance'[<<e, d>>].checkin = at[f]
                    /\ \/ attendance'[<<e, d>>].checkout = NoTime /\ \E f \in Req : CommittedOn(e, d)' = {f}
                       \/ \E g \in Req : /\ LastOf(CommittedOn(e, d)', g)
                                         /\ attendance'[<<e, d>>].checkout = at[g]
                                         /\ \E q \in CommittedOn(e, d)' : q # g
  BY <1>1 DEF QuietRow, FirstOf, LastOf
<1>6. CASE k # <<e, d>>
  <2>1. CommittedOn(e, d)' = CommittedOn(e, d) /\ attendance'[<<e, d>>] = attendance[<<e, d>>]
    BY <1>1, <1>3, <1>6
  <2> QED
    BY <1>4, <2>1 DEF OrderInv, QuietRow
<1>7. CASE k = <<e, d>>
  <2>1. /\ CommittedOn(e, d)' = CommittedOn(e, d) \cup {r}
        /\ attendance'[<<e, d>>] = NewRow(r) /\ attendance[k] \in Row /\ k \in Employees \X Days
    BY <1>1, <1>3, <1>7
  <2>2. \A q \in CommittedOn(e, d) :
           pc[q] = "ok" /\ q # r /\ RowOf(q) = k /\ <<q, r>> \notin overlap /\ <<r, q>> \notin overlap
    BY <1>1, <1>5, <1>7, <2>1 DEF CommittedOn, Quiet, RowOf
  <2>3. \A q \in CommittedOn(e, d) : at[q] <= at[r] /\ saw[r]
    BY <1>1, <1>5, <2>2 DEF OrderInv, ComesAfter, Open, InTransaction
  <2>4. CASE CommittedOn(e, d) = {}
    <3>1. attendance[k].checkin = NoTime
      <4> SUFFICES ASSUME attendance[k].checkin # NoTime PROVE FALSE
        OBVIOUS
      <4>1. PICK l \in log : l.employee = e /\ BusinessDate(l.timestamp) = d
        BY <1>7 DEF IInv, AttendanceComesFromLog
      <4>2. PICK q \in Committed : l = NewLogRow(q)
        BY <4>1 DEF OrderInv, LogIsCommitted
      <4>3. q \in CommittedOn(e, d)
        BY <4>1, <4>2 DEF NewLogRow, Committed, CommittedOn
      <4> QED
        BY <2>4, <4>3
    <3>2. attendance[k].checkout = NoTime
      BY <1>7, <3>1 DEF IInv, CheckoutNeedsCheckin
    <3>3. ~saw[r]
      BY <1>1, <3>1 DEF IInv, SawIsStable
    <3>4. NewRow(r).checkin = at[r] /\ NewRow(r).checkout = NoTime
      BY <2>1, <3>2, <3>3 DEF NewRow, Row
    <3>5. CommittedOn(e, d)' = {r}
      BY <2>1, <2>4
    <3>6. FirstOf({r}, r)
      BY <1>2 DEF FirstOf
    <3> QED
      BY <2>1, <3>4, <3>5, <3>6
  <2>5. CASE CommittedOn(e, d) # {}
    <3>1. NewRow(r).checkin = attendance[k].checkin /\ NewRow(r).checkout = at[r]
      BY <2>1, <2>3, <2>5 DEF NewRow, Row
    <3>2. PICK f \in Req : FirstOf(CommittedOn(e, d), f) /\ attendance[k].checkin = at[f]
      BY <1>4, <1>7, <2>5 DEF OrderInv, QuietRow
    <3>3. FirstOf(CommittedOn(e, d)', f)
      BY <2>1, <2>3, <3>2 DEF FirstOf
    <3>4. LastOf(CommittedOn(e, d)', r)
      BY <1>2, <2>1, <2>3 DEF LastOf
    <3>5. f \in CommittedOn(e, d)' /\ f # r
      BY <2>1, <2>2, <3>2 DEF FirstOf
    <3> QED
      BY <2>1, <3>1, <3>2, <3>3, <3>4, <3>5
  <2> QED
    BY <2>4, <2>5
<1> QED
  BY <1>6, <1>7

LEMMA InitOrderInv == Init => OrderInv
<1> SUFFICES ASSUME Init PROVE OrderInv
  OBVIOUS
<1>1. Committed = {} /\ \A e, d : CommittedOn(e, d) = {}
  BY DEF Init, Committed, CommittedOn
<1>2. LogIsCommitted
  BY <1>1, FS_EmptySet DEF Init, LogIsCommitted
<1>3. TakenFromClock /\ OpenTogether /\ ComesAfter
  BY DEF Init, TakenFromClock, OpenTogether, ComesAfter, Open, InTransaction
<1>4. QuietRow
  BY <1>1 DEF QuietRow
<1> QED
  BY <1>2, <1>3, <1>4 DEF OrderInv

LEMMA NextOrderInv == IInv /\ OrderInv /\ [Next]_vars => OrderInv'
<1> SUFFICES ASSUME IInv, OrderInv, [Next]_vars PROVE OrderInv'
  OBVIOUS
<1>1. CASE \A r \in Req : ~Commit(r)
  <2>1. TypeOK'
    BY NextIInv DEF IInv
  <2>2. Steady
    BY <1>1, OthersAreSteady
  <2> QED
    BY <2>1, <2>2, SteadyKeepsCommitted, SteadyKeepsOrder DEF OrderInv
<1>2. ASSUME NEW r \in Req, Commit(r) PROVE OrderInv'
  BY <1>2, CommitKeepsOrder, CommitKeepsQuietRow DEF OrderInv
<1> QED
  BY <1>1, <1>2

(* The log's scans of a day are the instants of the requests that committed *)
(* on it.                                                                   *)
LEMMA ScansAreCommitted ==
  ASSUME LogIsCommitted, NEW e, NEW d
  PROVE  ScansOf(e, d) = {at[r] : r \in CommittedOn(e, d)}
<1>1. \A t \in ScansOf(e, d) : \E r \in CommittedOn(e, d) : t = at[r]
  <2> SUFFICES ASSUME NEW l \in log, l.employee = e, BusinessDate(l.timestamp) = d
               PROVE  \E r \in CommittedOn(e, d) : l.timestamp = at[r]
    BY DEF ScansOf
  <2>1. PICK r \in Committed : l = NewLogRow(r)
    BY DEF LogIsCommitted
  <2> QED
    BY <2>1 DEF NewLogRow, Committed, CommittedOn
<1>2. \A r \in CommittedOn(e, d) : at[r] \in ScansOf(e, d)
  <2> SUFFICES ASSUME NEW r \in CommittedOn(e, d) PROVE at[r] \in ScansOf(e, d)
    OBVIOUS
  <2>1. NewLogRow(r) \in log
    BY DEF LogIsCommitted, CommittedOn, Committed
  <2>2. NewLogRow(r).employee = e /\ NewLogRow(r).timestamp = at[r] /\ BusinessDate(at[r]) = d
    BY DEF NewLogRow, CommittedOn
  <2> QED
    BY <2>1, <2>2 DEF ScansOf
<1> QED
  BY <1>1, <1>2

(* The row of a quiet day runs from the earliest scan to the latest. *)
LEMMA QuietRowIsExact == IInv /\ OrderInv => QuietDayIsExact
<1> SUFFICES ASSUME IInv, OrderInv, NEW e \in Employees, NEW d \in Days,
                    Quiet(e, d), CommittedOn(e, d) # {}
             PROVE  /\ attendance[<<e, d>>].checkin = Earliest(ScansOf(e, d))
                    /\ attendance[<<e, d>>].checkout =
                         IF Cardinality(CommittedOn(e, d)) = 1 THEN NoTime ELSE Latest(ScansOf(e, d))
  BY DEF QuietDayIsExact
<1>1. ScansOf(e, d) = {at[r] : r \in CommittedOn(e, d)}
  BY ScansAreCommitted DEF OrderInv
<1>2. /\ CommittedOn(e, d) \subseteq Committed
      /\ \A r \in Req : at[r] \in Int
      /\ CommittedOn(e, d) \subseteq Req
  BY ClockAssumption DEF CommittedOn, Committed, IInv, TypeOK, Times, NoTime
<1>3. IsFiniteSet(CommittedOn(e, d))
  BY <1>2, FS_Subset DEF OrderInv, LogIsCommitted
<1>4. /\ \E f \in Req : FirstOf(CommittedOn(e, d), f) /\ attendance[<<e, d>>].checkin = at[f]
      /\ \/ attendance[<<e, d>>].checkout = NoTime /\ \E f \in Req : CommittedOn(e, d) = {f}
         \/ \E g \in Req : /\ LastOf(CommittedOn(e, d), g)
                           /\ attendance[<<e, d>>].checkout = at[g]
                           /\ \E q \in CommittedOn(e, d) : q # g
  BY DEF OrderInv, QuietRow
<1>5. \A f : FirstOf(CommittedOn(e, d), f) => Earliest(ScansOf(e, d)) = at[f]
  BY <1>1, <1>2 DEF FirstOf, Earliest
<1>6. \A g : LastOf(CommittedOn(e, d), g) => Latest(ScansOf(e, d)) = at[g]
  BY <1>1, <1>2 DEF LastOf, Latest
<1>7. Cardinality(CommittedOn(e, d)) = 1 <=> \E f : CommittedOn(e, d) = {f}
  BY <1>3, FS_Singleton
<1>8. CASE attendance[<<e, d>>].checkout = NoTime /\ \E f \in Req : CommittedOn(e, d) = {f}
  BY <1>4, <1>5, <1>7, <1>8
<1>9. CASE \E g \in Req : /\ LastOf(CommittedOn(e, d), g)
                          /\ attendance[<<e, d>>].checkout = at[g]
                          /\ \E q \in CommittedOn(e, d) : q # g
  <2>1. Cardinality(CommittedOn(e, d)) # 1
    BY <1>7, <1>9 DEF LastOf
  <2> QED
    BY <1>4, <1>5, <1>6, <1>9, <2>1
<1> QED
  BY <1>4, <1>8, <1>9

(* checkin.service.ts: the first scan of the day is the checkin and the     *)
(* checkout is always the latest.  That is exact on every day on which no   *)
(* two of the employee's scans were in progress together.                   *)
THEOREM QuietDays == Spec => []QuietDayIsExact
<1>1. IInv /\ OrderInv /\ [Next]_vars => OrderInv'
  BY NextOrderInv
<1>2. Spec => [](IInv /\ OrderInv)
  BY Invariance, InitOrderInv, <1>1, PTL DEF Spec
<1> QED
  BY <1>2, QuietRowIsExact, PTL
=============================================================================
