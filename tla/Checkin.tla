------------------------------ MODULE Checkin ------------------------------
(***************************************************************************)
(* POST /checkin: a terminal sends a scan, CheckinService.handle resolves  *)
(* the device and the credential, then a Read Committed transaction        *)
(* inserts the CheckInLog row, reads the DailyAttendance row and writes     *)
(* it.  Every await is a step of its own, so concurrent scans interleave   *)
(* wherever the code lets them.  PostgreSQL's part is what the handler     *)
(* relies on: a unique index on sync_hash, a row lock held from the write  *)
(* to the commit, reads that see committed rows only, and a transaction    *)
(* that answers nothing after a failed statement.                          *)
(***************************************************************************)
EXTENDS Integers, FiniteSets

CONSTANTS
    Req,          \* HTTP requests that may arrive
    Devices,      \* registered terminals
    Credentials,  \* RFID tags, or fingerprint slots of a terminal
    Employees,
    NoOne,        \* "no row": an unowned credential, an unset field
    MaxClock,     \* bound on the clock (CheckInLog.timestamp)
    DayTicks,     \* ticks of a calendar day
    GraceTicks    \* MIDNIGHT_GRACE_HOUR, in ticks

ASSUME ClockAssumption ==
    /\ MaxClock \in Nat /\ DayTicks \in Nat \ {0} /\ GraceTicks \in 0..(DayTicks - 1)
ASSUME NoOneAssumption ==
    NoOne \notin Employees /\ NoOne \notin Devices /\ NoOne \notin Credentials

VARIABLES
    clock,        \* wall clock of the backend
    status,       \* Device.status
    owner,        \* Credentials -> employee it resolves to
    pc,           \* where each request is in CheckinService.handle
    dev, cred,    \* dto.mac_addr and dto.fingerprint_id / dto.rfid_tag
    tx,           \* dto.client_tx_id
    at,           \* `now`, captured when the handler starts
    emp,          \* employeeId, once resolved
    saw,          \* attendance.checkin_time was set when it was read
    log,          \* committed CheckInLog rows
    attendance,   \* committed DailyAttendance rows
    shown,        \* what the terminal displayed for the request
    overlap       \* history: pairs of requests that were open together

vars == <<clock, status, owner, pc, dev, cred, tx, at, emp, saw, log,
          attendance, shown, overlap>>
dtoVars == <<dev, cred, tx, at>>

NoTime == -1
Times == 0..MaxClock

\* businessDateFromInstant(at, MIDNIGHT_GRACE_HOUR): a scan before the grace
\* hour belongs to the previous calendar day.
BusinessDate(t) ==
    IF t % DayTicks < GraceTicks THEN (t \div DayTicks) - 1 ELSE t \div DayTicks

Days == {BusinessDate(t) : t \in Times}
Row == [checkin: Times \cup {NoTime}, checkout: Times \cup {NoTime}]
LogRow == [log_id: Req, sync_hash: Req, employee: Employees, timestamp: Times]

InTransaction == {"logged", "read", "written"}
Open == {"received", "device", "resolved", "duplicate"} \cup InTransaction
Final == {"ok", "invalid", "rejected", "failed"}

TypeOK ==
    /\ clock \in Times
    /\ status \in [Devices -> {"ACTIVE", "INACTIVE"}]
    /\ owner \in [Credentials -> Employees \cup {NoOne}]
    /\ pc \in [Req -> {"idle"} \cup Open \cup Final]
    /\ dev \in [Req -> Devices \cup {NoOne}]
    /\ cred \in [Req -> Credentials \cup {NoOne}]
    /\ tx \in [Req -> Req]
    /\ at \in [Req -> Times \cup {NoTime}]
    /\ emp \in [Req -> Employees \cup {NoOne}]
    /\ saw \in [Req -> BOOLEAN]
    /\ log \in SUBSET LogRow
    /\ attendance \in [Employees \X Days -> Row]
    /\ shown \in [Req -> {"none", "success", "denied"}]
    /\ overlap \in SUBSET (Req \X Req)

Init ==
    /\ clock = 0
    /\ status = [d \in Devices |-> "ACTIVE"]
    /\ owner \in [Credentials -> Employees]
    /\ pc = [r \in Req |-> "idle"]
    /\ dev = [r \in Req |-> NoOne]
    /\ cred = [r \in Req |-> NoOne]
    /\ tx = [r \in Req |-> r]
    /\ at = [r \in Req |-> NoTime]
    /\ emp = [r \in Req |-> NoOne]
    /\ saw = [r \in Req |-> FALSE]
    /\ log = {}
    /\ attendance = [k \in Employees \X Days |-> [checkin |-> NoTime, checkout |-> NoTime]]
    /\ shown = [r \in Req |-> "none"]
    /\ overlap = {}

-----------------------------------------------------------------------------
(* The terminal. *)

\* A terminal blocks in sendCheckin/sendRfidCheckin until it has an answer or
\* gives up, so it has at most one request in flight on its side.
TerminalBusy(d) == \E q \in Req : dev[q] = d /\ pc[q] # "idle" /\ shown[q] = "none"

Receive(r, d, c, token) ==
    /\ pc[r] = "idle"
    /\ pc' = [pc EXCEPT ![r] = "received"]
    /\ dev' = [dev EXCEPT ![r] = d]
    /\ cred' = [cred EXCEPT ![r] = c]
    /\ tx' = [tx EXCEPT ![r] = token]
    /\ at' = [at EXCEPT ![r] = clock]
    /\ overlap' = overlap \cup {<<q, r>> : q \in {p \in Req : pc[p] \in Open}}
    /\ UNCHANGED <<clock, status, owner, emp, saw, log, attendance, shown>>

\* A scan: generateClientTxId draws a new token for every scan.
Scan(r, d, c) == ~TerminalBusy(d) /\ Receive(r, d, c, r)

\* A client that got no answer repeats the request with the same token.
Retry(r, q) ==
    /\ pc[q] # "idle" /\ shown[q] = "denied"
    /\ ~TerminalBusy(dev[q])
    /\ Receive(r, dev[q], cred[q], tx[q])

\* parseAndApply: only status "ok" is a success; invalid_credential arrives
\* with an HTTP success code too.
DisplayedAnyAnswer(r) == IF pc[r] \in {"ok", "invalid"} THEN "success" ELSE "denied"
Displayed(r) == IF pc[r] = "ok" THEN "success" ELSE "denied"

\* The response arrives while the terminal still waits for it.
Show(r) ==
    /\ pc[r] \in Final /\ shown[r] = "none"
    /\ shown' = [shown EXCEPT ![r] = Displayed(r)]
    /\ UNCHANGED <<clock, status, owner, pc, dtoVars, emp, saw, log, attendance, overlap>>

\* HTTP timeout or lost Wi-Fi: "Network failure while posting checkin".
GiveUp(r) ==
    /\ pc[r] # "idle" /\ shown[r] = "none"
    /\ shown' = [shown EXCEPT ![r] = "denied"]
    /\ UNCHANGED <<clock, status, owner, pc, dtoVars, emp, saw, log, attendance, overlap>>

-----------------------------------------------------------------------------
(* CheckinService.handle, one action per await. *)

LookupDevice(r) ==
    /\ pc[r] = "received"
    /\ pc' = [pc EXCEPT ![r] = IF status[dev[r]] = "ACTIVE" THEN "device" ELSE "rejected"]
    /\ UNCHANGED <<clock, status, owner, dtoVars, emp, saw, log, attendance, shown, overlap>>

ResolveCredential(r) ==
    /\ pc[r] = "device"
    /\ IF owner[cred[r]] = NoOne
         THEN pc' = [pc EXCEPT ![r] = "invalid"] /\ UNCHANGED emp
         ELSE /\ pc' = [pc EXCEPT ![r] = "resolved"]
              /\ emp' = [emp EXCEPT ![r] = owner[cred[r]]]
    /\ UNCHANGED <<clock, status, owner, dtoVars, saw, log, attendance, shown, overlap>>

RowOf(r) == <<emp[r], BusinessDate(at[r])>>

\* @unique sync_hash: a committed row with the token, or an uncommitted one
\* that the insert waits for.
TokenCommitted(r) == \E l \in log : l.sync_hash = tx[r]
CommittedTokensOnly(r) == FALSE
TokenPending(r) == \E q \in Req \ {r} : tx[q] = tx[r] /\ pc[q] \in InTransaction

InsertLog(r) ==
    /\ pc[r] = "resolved"
    /\ ~TokenPending(r)
    /\ pc' = [pc EXCEPT ![r] = IF TokenCommitted(r) THEN "duplicate" ELSE "logged"]
    /\ UNCHANGED <<clock, status, owner, dtoVars, emp, saw, log, attendance, shown, overlap>>

\* The catch block reads the original row inside the transaction that the
\* unique violation has just aborted: the read is refused and the handler
\* throws.
AnswerDuplicate(r) ==
    /\ pc[r] = "duplicate"
    /\ pc' = [pc EXCEPT ![r] = "failed"]
    /\ UNCHANGED <<clock, status, owner, dtoVars, emp, saw, log, attendance, shown, overlap>>

ReadAttendance(r) ==
    /\ pc[r] = "logged"
    /\ pc' = [pc EXCEPT ![r] = "read"]
    /\ saw' = [saw EXCEPT ![r] = attendance[RowOf(r)].checkin # NoTime]
    /\ UNCHANGED <<clock, status, owner, dtoVars, emp, log, attendance, shown, overlap>>

LockKeptAfterCommit(r) == \E q \in Req \ {r} : pc[q] \in {"written", "ok"} /\ RowOf(q) = RowOf(r)
RowLocked(r) == \E q \in Req \ {r} : pc[q] = "written" /\ RowOf(q) = RowOf(r)

WriteAttendance(r) ==
    /\ pc[r] = "read"
    /\ ~RowLocked(r)
    /\ pc' = [pc EXCEPT ![r] = "written"]
    /\ UNCHANGED <<clock, status, owner, dtoVars, emp, saw, log, attendance, shown, overlap>>

\* The branch was chosen by the earlier read; each branch writes one column.
BranchesSwapped(r) ==
    IF saw[r] THEN [attendance[RowOf(r)] EXCEPT !.checkin = at[r]]
              ELSE [attendance[RowOf(r)] EXCEPT !.checkout = at[r]]
CheckoutOnlyOnce(r) ==
    IF saw[r] THEN [attendance[RowOf(r)] EXCEPT !.checkout = IF @ = NoTime THEN at[r] ELSE @]
              ELSE [attendance[RowOf(r)] EXCEPT !.checkin = at[r]]
NewRow(r) ==
    IF saw[r] THEN [attendance[RowOf(r)] EXCEPT !.checkout = at[r]]
              ELSE [attendance[RowOf(r)] EXCEPT !.checkin = at[r]]

ShiftedByGrace(r) ==
    [log_id |-> r, sync_hash |-> tx[r], employee |-> emp[r], timestamp |-> at[r] - GraceTicks]
NewLogRow(r) ==
    [log_id |-> r, sync_hash |-> tx[r], employee |-> emp[r], timestamp |-> at[r]]

Commit(r) ==
    /\ pc[r] = "written"
    /\ pc' = [pc EXCEPT ![r] = "ok"]
    /\ log' = log \cup {NewLogRow(r)}
    /\ attendance' = [attendance EXCEPT ![RowOf(r)] = NewRow(r)]
    /\ UNCHANGED <<clock, status, owner, dtoVars, emp, saw, shown, overlap>>

\* A query fails, the interactive transaction times out, or the process
\* stops: an open transaction is rolled back.
Fail(r) ==
    /\ pc[r] \in Open \ {"duplicate"}
    /\ pc' = [pc EXCEPT ![r] = "failed"]
    /\ UNCHANGED <<clock, status, owner, dtoVars, emp, saw, log, attendance, shown, overlap>>

-----------------------------------------------------------------------------
(* The rest of the system, as far as this handler sees it. *)

Tick ==
    /\ clock < MaxClock
    /\ clock' = clock + 1
    /\ UNCHANGED <<status, owner, pc, dtoVars, emp, saw, log, attendance, shown, overlap>>

\* DevicesService.update and acknowledgeFactoryReset.
SetStatus(d, s) ==
    /\ status[d] # s
    /\ status' = [status EXCEPT ![d] = s]
    /\ UNCHANGED <<clock, owner, pc, dtoVars, emp, saw, log, attendance, shown, overlap>>

\* removeCredentialIdentifier and softDeleteEmployee take a credential away;
\* assignRfid and the mapping upserts give a free one to an employee.
SetOwner(c, e) ==
    /\ (owner[c] = NoOne) # (e = NoOne)
    /\ owner' = [owner EXCEPT ![c] = e]
    /\ UNCHANGED <<clock, status, pc, dtoVars, emp, saw, log, attendance, shown, overlap>>

Handle(r) ==
    \/ LookupDevice(r) \/ ResolveCredential(r) \/ InsertLog(r) \/ AnswerDuplicate(r)
    \/ ReadAttendance(r) \/ WriteAttendance(r) \/ Commit(r)

Terminal(r) ==
    \/ \E d \in Devices, c \in Credentials : Scan(r, d, c)
    \/ \E q \in Req : Retry(r, q)
    \/ Show(r)
    \/ GiveUp(r)

Environment ==
    \/ Tick
    \/ \E d \in Devices, s \in {"ACTIVE", "INACTIVE"} : SetStatus(d, s)
    \/ \E c \in Credentials, e \in Employees \cup {NoOne} : SetOwner(c, e)

Next ==
    \/ \E r \in Req : Handle(r) \/ Terminal(r) \/ Fail(r)
    \/ Environment

Spec == Init /\ [][Next]_vars

\* Node runs every continuation of an accepted request and Prisma settles
\* every query, so a handler that can move does; nothing else is promised.
FairSpec == Spec /\ \A r \in Req : WF_vars(Handle(r))

-----------------------------------------------------------------------------
(* Properties. *)

\* checkin.dto.ts: retries with the same client_tx_id must not create
\* duplicate CheckInLog rows, whatever the interleaving of the retries.
TxLoggedOnce == \A l, m \in log : l.sync_hash = m.sync_hash => l = m

\* The transaction is atomic: a logged scan always shows up on its
\* employee's attendance row for its business date.
LoggedScanHasAttendance ==
    \A l \in log : attendance[<<l.employee, BusinessDate(l.timestamp)>>].checkin # NoTime

\* An attendance time is always the time of a committed scan of that
\* employee on that business date, and never a rolled-back or foreign one.
AttendanceComesFromLog ==
    \A e \in Employees, d \in Days :
      \A t \in {attendance[<<e, d>>].checkin, attendance[<<e, d>>].checkout} \ {NoTime} :
        \E l \in log : l.employee = e /\ l.timestamp = t /\ BusinessDate(t) = d

\* No row has a checkout without a checkin, although the branch is chosen on
\* a read that may be stale by the time the row is written.
CheckoutNeedsCheckin ==
    \A e \in Employees, d \in Days :
      attendance[<<e, d>>].checkout # NoTime => attendance[<<e, d>>].checkin # NoTime

\* Log and attendance tell the same story, in every order of scans, retries,
\* give-ups and failures: tokens once, rows from scans, scans in rows.
LogAndAttendanceAgree ==
    /\ TxLoggedOnce
    /\ LoggedScanHasAttendance
    /\ AttendanceComesFromLog
    /\ CheckoutNeedsCheckin

\* A scan the employee saw succeed is in the log under that employee.
ShownSuccessIsLogged ==
    \A r \in Req : shown[r] = "success" =>
      \E l \in log : /\ l.log_id = r /\ l.sync_hash = tx[r]
                     /\ l.employee = emp[r] /\ l.timestamp = at[r]

ScansOf(e, d) == {l.timestamp : l \in {m \in log : m.employee = e /\ BusinessDate(m.timestamp) = d}}
CommittedOn(e, d) == {r \in Req : pc[r] = "ok" /\ emp[r] = e /\ BusinessDate(at[r]) = d}
Quiet(e, d) == \A r, q \in CommittedOn(e, d) : <<q, r>> \notin overlap
Earliest(S) == CHOOSE t \in S : \A u \in S : t <= u
Latest(S) == CHOOSE t \in S : \A u \in S : t >= u

\* checkin.service.ts: "First scan of the day = checkin; later scans overwrite
\* checkout_time so it always reflects the latest".  That is exact where no
\* two of an employee's scans were in progress together; otherwise the last
\* one to commit decides.
QuietDayIsExact ==
    \A e \in Employees, d \in Days :
      LET done == CommittedOn(e, d) IN
      Quiet(e, d) /\ done # {} =>
        /\ attendance[<<e, d>>].checkin = Earliest(ScansOf(e, d))
        /\ attendance[<<e, d>>].checkout =
             IF Cardinality(done) = 1 THEN NoTime ELSE Latest(ScansOf(e, d))

\* checkin.service.ts: "a retry from firmware with the same client_tx_id
\* short-circuits back to the original row", so its answer is ok.
RetryReturnsOriginal ==
    [][\A r \in Req : pc[r] = "duplicate" /\ pc'[r] \in Final => pc'[r] = "ok"]_vars

\* However requests interleave, fail and are repeated, the two tables go
\* through the steps of AttendanceBook: each scan is entered once, with its
\* log row and its attendance together, and a checkout only after a checkin.
Book == INSTANCE AttendanceBook WITH
    Tokens <- Req,
    DayOf  <- [t \in Times |-> BusinessDate(t)],
    scans  <- {[token |-> l.sync_hash, employee |-> l.employee, time |-> l.timestamp] : l \in log},
    book   <- attendance
EntersScansInBook == Book!BookSpec

\* Every accepted request is answered: waiting for a token or a row lock
\* never blocks a handler for ever.
EveryRequestAnswered == \A r \in Req : (pc[r] = "received") ~> (pc[r] \in Final)
=============================================================================
