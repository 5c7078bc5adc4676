# Timekeeping: a TLA+ model of the attendance system

This directory keeps a formal model of the Timekeeping system beside its code:
TLA+ modules, the TLC configurations that check them on small instances, and
theorems about them that TLAPS has checked. `PROJECT.json` is the index: the
components, the runs, the source lines each definition stands for, the hazards
of the code, and the theorems.

## 1. The system

Employees scan a finger or an RFID card at a terminal; the backend books the
scan, derives daily attendance, handles requests and publishes payrolls; people
see all of this in a web front end.

```
   ESP32 terminal  --- HTTP: /checkin, /credentials/*, /devices/* --->  NestJS backend  --- Prisma ---> PostgreSQL
        ^                                                                  |     |
        +---- MQTT: command topic per device, broadcast sync topic --------+     +--- socket.io ---> React front end
        +---- MQTT: retained status topic, last will ----------------------^           (HTTP the other way)
```

Paths below are relative to `src/`; `B` is `backend-nestjs/src`, `F` is
`firmware/src`, `W` is `frontend-react/web-js/src`.

| component | state | operations | what makes it correct | module |
|---|---|---|---|---|
| Check-in endpoint (`B/checkin`) | `CheckInLog`, `DailyAttendance` | `handle`: device, credential, transaction (log, read day, write day) | a token is logged once; log and day agree; first scan is the check-in, last one the checkout | `Checkin` |
| Fingerprint credentials (`B/credentials`) | `Employee.template_fingerprint`, `Mapping`, cached enrol intents | start enrolment, cache fingerprint, upsert mapping, bulk page, bulk acknowledgement | a template belongs to its employee; a mapping points at that employee's template | `CredentialSync`, `BulkSync` |
| Employees (`B/employees`) | `Employee` rows | create, update, credentials removal, soft delete, RFID, password reset | removal reaches every terminal | partly, in `CredentialSync`, `WebSession`, `ListPages` |
| Devices (`B/devices`) | `Device` rows | create, update, factory reset, remove, heartbeat | a heartbeat undoes no decision; status and clear reach the terminal | `DeviceLifecycle` |
| MQTT service (`B/mqtt`) | on-line map in memory | publish, status messages | the map follows the terminals | `Connectivity` |
| Requests (`B/requests`) | `Request`, `MonthlyLimit` | create, approve, reject, the 04:00 job | an uncontested decision is final; at most two explanations a month; no expired overtime request is left | `Requests` |
| Attendance (`B/attendance`) | none (pure functions over rows) | credit, missing minutes, window, summaries | credit is the counted time present; scanning later never costs | `AttendanceCompute`, `Payroll` |
| Payroll (`B/payroll`) | payroll rows, PDF files | publish, amounts | file and row agree; pay is what attendance and rate are worth; success covers everybody | `Payroll` |
| Notifications (`B/notifications`, `W/contexts/NotificationContext.tsx`) | rows, sockets, unread counter of the client | create, list, mark read, push | badge and list agree with the rows | `Notifications` |
| Authentication (`B/auth`, `W/contexts/AuthContext.tsx`) | account flags, token, session of the tab | login, change password, restore, guards | the session is that of the token | `WebSession` |
| Web pages (`W/pages`) | query, rows, loads on their way | load, search, filter, page, change | what a settled page shows is what it asks for | `ListPages`, `Connectivity` |
| Terminal loop (`F/app/App.cpp`) | phase, pending commands | boot, dispatch, gates between services | a command is not lost behind a gate; check-in opens again | `DeviceLifecycle` |
| Scan side (`F/services/CheckinService.cpp`, `RfidService.cpp`) | screen state, token | scan, post, ghost clean-up | only `ok` is shown as a success | `Checkin`, `CredentialSync` |
| Enrolment (`F/services/EnrollmentService.cpp`) | state, target slot, timers | state machine | what is stored is what was asked for | `CredentialSync`, `DeviceLifecycle` |
| Mapping callbacks (`F/services/SyncMappingService.cpp`) | queue of 10 entries with attempts | enqueue, tick, roll-back | every stored template is reported or deleted | `CredentialSync`, `BulkSync` |
| Bulk synchronisation (`F/services/BulkSyncService.cpp`) | state, page, pending acknowledgements, retries | fetch, store, acknowledge | rows and copies are explained; DONE means done; it ends while there is room | `BulkSync` |
| Registration (`F/services/DeviceRegistrationService.cpp`), MQTT mailbox (`MqttService.cpp`) | registration and remote status; one slot per command | heartbeat, status, last will | the terminal follows the backend's status | `DeviceLifecycle`, `Connectivity` |
| Drivers, portal, display | timers, settings | configuration, output | see section 7 | none |

**What is hard.** Every `await` in the backend is a point where another request
runs. PostgreSQL transactions are Read Committed, so a read made before a write
can be stale. The terminal is one loop that blocks in HTTP calls, so commands
pile up behind a call and an answer can be lost after the backend acted. MQTT
commands and HTTP callbacks overtake each other. Scans near midnight belong to
the day before until the grace hour. The web pages cancel no load and their
handlers keep the values of an earlier render. `PROJECT.json` lists each such
place with its line and the properties that would catch it going wrong.

## 2. Modules

| module | models | builds on |
|---|---|---|
| `AttendanceBook` | what the check-in promises: each scan entered once, in one step | |
| `Checkin` | `CheckinService.handle` with the terminal's scans, answers and repeats | implements `AttendanceBook` |
| `CredentialSync` | enrolment and its spread to all terminals, removal, scans, ghost clean-up | |
| `BulkSync` | the bulk synchronisation of one terminal, next to live traffic | |
| `RequestDesk` | what the requests promise: one verdict at a time, each booked in one step | |
| `Requests` | both kinds of request, approval, rejection, the 04:00 job, scans | implements `RequestDesk` |
| `DeviceLifecycle` | one terminal and its row: heartbeats, managers' commands, the main loop, restarts | |
| `Connectivity` | last wills, the retained topic, the on-line map, the board of the managers | |
| `ListPages` | the loads, filters and changes of the eight list pages | extends `Connectivity` |
| `WebSession` | sign-in, bootstrap, forced change of password, other tabs | |
| `Notifications` | rows, pushes, sockets, the bell | extends `WebSession` |
| `AttendanceCompute` | credit, effective checkout, missing minutes, status, window | |
| `Payroll` | the publication of a month and its readers | extends `AttendanceCompute` |
| `MCx` | the instance of module `x` that TLC checks | |
| `CheckinProofs`, `RequestsProofs`, `CredentialSyncProofs`, `BulkSyncProofs`, `DeviceLifecycleProofs`, `NotificationsProofs`, `ListPagesProofs` | theorems and proofs about their module | |
| `PayrollProofs` | theorems and proofs about `AttendanceCompute` and `Payroll` | |

Most modules also hold, next to some operators, a variant with a slip in it
(`CheckoutOnlyOnce` beside `NewRow`, `NeverCancels` beside `Cancels`, ...). The
model never uses them. Put in place of its neighbour, such a variant makes the
property it is listed with in `PROJECT.json` fail: the property would have
noticed that slip in the code.

### Checkin

`pc[r]` is where request `r` is in `handle`: one action per `await`
(`LookupDevice`, `ResolveCredential`, `InsertLog`, `AnswerDuplicate`,
`ReadAttendance`, `WriteAttendance`, `Commit`). `at[r]` is `now`, taken when the
handler starts. PostgreSQL contributes what the handler relies on: the insert of
a `sync_hash` waits while another open transaction holds it (`TokenPending`), a
row written stays locked until the commit (`RowLocked`), reads see committed
rows. After the unique violation the transaction is aborted, so the reads in the
`catch` block are refused and the handler throws (`AnswerDuplicate`). `Fail` is
any failed query, timeout or restart; it rolls back.

`Retry` repeats a token, as the DTO and the `catch` block foresee. The firmware
in the repository draws a new token for every scan, so retries come from a
client of the API as documented, not from that firmware.

`BusinessDate` is the conversion with the grace hour: a scan before it counts for
the previous day. `overlap` is a history variable: pairs of requests that were
open together. `QuietDayIsExact` uses it to say precisely when a day is exact.

`EntersScansInBook` is the refinement: `scans` are the rows of the committed log,
`book` is the committed attendance, and every step of the check-in is a step of
`AttendanceBook` or leaves both alone.

### CredentialSync

The finger's template is represented by the person. Each terminal has `sensor`,
`pending` (the callback queue), `enroll` (the session), `call` (the HTTP call the
loop is blocked in) and `inbox` (its MQTT commands in order). While `call` is not
`NoCall` the loop does nothing else, but the backend goes on: `request[d]` may
outlive the call (`GiveUp`). The backend's actions are the steps between awaits:
`HandleMapping`; `ReadIntent`, `WriteTemplate`, `WriteMapping`, `ClearIntent` and
`PublishSync` of `cacheFingerprint`; `HandleCheckin`. `startFingerprintEnroll` and the
removals write first (`StartEnroll`, `RemoveFingerprint`) and await the publication
afterwards: `unsent` are the commands (`Job`) the broker has not acknowledged, and
`PublishCommand` is their acknowledgement, in any order, with others in between.

Commands go out with QoS 1 (`mqtt.service.ts:112`) and the terminal subscribes with
QoS 1 and a clean session: at least once while both are connected. `RepeatCommand` and
`RepeatSync` forward a command that is still to be acknowledged once more;
`LoseCommand` is one for a terminal that was off line. `repeated` counts, for each
employee, the commands that could make a copy. The other `Faults` lose requests and
answers, expire intents and let MQTT or the sensor refuse.

Three history flags qualify the properties: `crossed`, an enrolment was started
while something was unfinished; `overrun`, the same terminal's enrolment was not
over; `undercut`, a fingerprint was removed while an enrolment was unfinished.

Simplifications: a terminal has at most one request inside the backend; terminals
stay ACTIVE and their sensors work, apart from `EnrollFails`; the loop takes one
MQTT packet per turn, so the mailbox of one command is the head of `inbox`.

### BulkSync

One terminal. `state`, `step`, `items`, `hasMore`, `pending` and `retryCount` are
the fields of the service and the place in `tick()`. A page is two reads of the
backend (`FetchPage`, then `CountTotal`, of which `has_more` is computed); whatever the
backend does may come between them. Meanwhile other terminals enrol people
(`EnrollElsewhere`), whose SYNC reaches this terminal (`SyncArrives`) and is reported
(`CallbackOk`, `CallbackRefused`) between two ticks, as the loop does one thing at a
time; and fingerprints are removed (`RemoveFingerprint`, as one step of the backend,
then `DeleteArrives`).

What was asked of the backend and not answered may still be carried out, at any time
or never: a report (`CallbackUnanswered` puts it into `late`, `CallbackLands` carries it
out) and an acknowledgement (`AckFails`, `lateAcks`, `AckLands`). After its last attempt
a report is rolled back whether the backend has it or not. `SyncRepeats` and
`DeleteRepeats` are QoS 1. `orphaned` records each template that the terminal takes
out while a row for it exists or is still asked for (`Vacate`); `owed`, `left` and `cut`
follow the last page: who was unmapped when it was read, who of it no longer was when
the rest was counted, and whether it was stored and booked whole.

### Requests

`call[s]` is a request the backend handles, with its `step`; every `await` is a
step. `WriteDecision` (rejection and overtime approval) writes by id alone.
An explanation is approved in a transaction: `ApproveInTransaction`,
`Recalculate`, `ChargeAndCommit`, with the row locks `RequestLocked` and
`AttendanceLocked`; the writes become visible at the commit.
`AutoReject` is the 04:00 job, `Midnight` and `FourOClock` the calendar. `Scan` is
what the check-in does to the day, as one step: its own interleavings are those of
`Checkin`. Attendance is abstracted to `absent`, `checkin`, `checkout` (by a scan)
and `explained` (by an approval). `contested` is the set of rows that two
handlers were deciding together.

`RequestDesk` is the promise, without handlers, awaits, transactions and locks:
a desk where a request is filed (`File`), decided (`Judge`), or approved, charged and
entered in its day in one step (`Explain`), where the job rejects what is late
(`Expire`) and scans fill the days. Only a request that several were deciding
together (`Dispute`) may be decided again. `Requests` implements it under a mapping
that forgets the calls and whether a closed day was closed by a scan or an approval
(`AtDesk`); explanations are filed for past days with a check-in.

### DeviceLifecycle

One `Device` row, one terminal. `call[c]` is a `registerHeartbeat` in the backend:
`ReadRow`, then `CreateRow` (the unique MAC address lets one of two first
heartbeats through) or `UpdateName`, which writes back the name it has read.
`mgr[m]` is an operation of a manager; `update`, `remove` and the commands write
first and then publish message by message, without waiting (`Publish`), into
`inbox` if the terminal has a session. An update that sends a status and a name
at once is taken as one or the other.

The terminal is `mode`, `t` (what `App` and its services keep in memory), the
request it is blocked on (`waiting`, `stage`) and the sensor. A pass of
`App::tick` is a composition of functions on `t`: the mailbox with one slot per
kind (`Received`), the gates (`AfterStatus`, `AfterEnroll`, `AfterBulk`,
`ClearRuns`, `CheckinAllowed`). `QuietPass` sends nothing, `RetryPass`, `BeatPass`
and `ShortPress` send a registration; `TakeAnswer` and `GiveUp` end the wait.
`Boot`, `PowerCut`, `RemoteWipe`, `FactoryReset`, `LoseWifi`, `LeavePortal`,
`LoseMqtt`, `Unplug` are the world around it: memory is lost, templates stay.

### Connectivity and ListPages

All terminals announce themselves on one retained topic, so the broker keeps the
last message of any of them (`Announce`). The backend's map lives in memory
(`LoseBackend` forgets it, `Subscribe` learns one message), changes are
pushed as events, and `DevicesPage` merges them with a snapshot it asks for.

In `ListPages` a page is one value of `kind`; `Page` holds what distinguishes the
pages in the code: what can be changed there, whether the search ignores an
unchanged word, what a failed load clears, whether an effect cancels the load
before it (the portal alone does). `fetch` are the loads on their way; each is
answered in any order. `shown.why` records why a page may show rows of another
query: `late` (an older answer overtook a newer one), `closure` (a handler loaded
with the values of an earlier render), `failed`. The page size is 1 and rows are
only counted; every change of the table has a stamp. `fresh` and `calm` are
history: that the last change is one of this page's own, and that nothing has
happened which would leave the user on a page that is not there (a change of
somebody else, a change or its reload whose answer is lost, a page number beyond
the rows; on `DevicesPage`, whose correction compares nothing with the page number of
the moment, also a page turned or loaded while a change is under way). `board` is `DevicesPage` with
terminals that come and go, `devices` the same page with a list that changes.

### WebSession and Notifications

`store` is the token in `localStorage`, shared with other tabs; `ctx` is what the
tab believes. `me`, `signin` and `change` are calls on their way; the backend's
guards (token, active account, then the scope) are in `Admitted`. `odd` collects
what the client does not expect: a sign-in submitted before the bootstrap had
ended (`hurried`), an answer after a logout (`late`), another tab (`shared`), a
change of password the tab did not hear of (`elsewhere`). A token expires an hour
after a sign-in, or ten minutes if it is for changing the password; `Expire` lets all
that have been issued expire at any time (`era`, `Lasts`), and the guards refuse them.

`Notifications` adds to every step of the session what the effect of
`NotificationProvider` does with it (`Effect`): fetch count and list, connect the
socket. The list is the newest `PageSize` (20 in the code) of the user's (`Newest`).
`Connect` is `handleConnection`, which disconnects a socket whose token has expired;
the client does not try again after that (`refused`). `Push` and `Receive` deliver; `MarkAsRead`, `MarkAllAsRead`, `ServeMark`
and `AnswerMark` count down. `missed` says whether count or list has missed
something, in which case nothing brings them up to date.

### AttendanceCompute and Payroll

`scanIn`, `scanOut`, `otApproved` and `isWeekend` describe a day on a timeline
that passes midnight; `Minute` is the number of ticks of a minute. Scans come in
order (`lastScan`). An approved explanation writes its end as the checkout without
looking at what is there (`Explain`): later or earlier than a scan, before the check-in,
or over another explanation.
`EffectiveCheckout`, `StandardCredit`, `Credit`, `MissingMinutes`, `Status` and
`WorkEnd` are the functions of `attendance.compute.ts`. Credit is kept in ticks:
the code's division by eight hours and its rounding to decimals do not change an
order between credits. The reference, `Counted`, is the set of ticks that count, one by
one; what counts is the code's word, not that of `Plan/Timekeeping.md` (section 6).

`Payroll` puts that day into a month of the employee `Live`; the day goes on while the
month is published (`DayStep`): later scans, approvals, explanations. A publication reads
staff and rates (`Begin`), attendance (`ReadRows`), overtime (`ReadOt`) and then
goes through the employees in the order of their ids (`Current` of those left in
`todo`): `OpenPdf` and `ClosePdf` (the file is written in
place), `SaveRow`, `Notify`; `FailPublication` stops it anywhere. Amounts carry the
code's roundings: days in 1/10000, hours and money in 1/100. The payslip page and
the monthly summary read at the same time.

## 3. Runs

State counts are those of the complete search; times are with two workers.

| run | instance | distinct states | time | shows |
|---|---|---|---|---|
| `checkin_safety` | 3 requests, one terminal, credential and employee | 2.34 M | 1:45 | tokens once, log and day agree, quiet days exact |
| `checkin_owners` | 2 requests, 1 terminal, 1 credential that passes between 2 employees | 202 k | 0:45 | what was shown is logged, every request is answered, the endpoint implements `AttendanceBook` |
| `sync_safety` | 2 terminals with 2 slots, a queue of 1 and 2 attempts, 2 employees of whom one may be removed, 1 fault | 3.07 M | 1:45 | no foreign template without overlapping enrolments, copies are explained, fingers stay with their owners when undisturbed |
| `sync_progress` | the same without the removal and enrolments at one terminal only | 80 k | 2:05 | callbacks are resolved; an enrolment reaches every terminal with room |
| `requests_safety` | 2 handlers, 2 rows, 2 employees, limit 1 | 1.13 M | 1:20 | limit, counter, recalculated day, uncontested decisions |
| `requests_progress` | 2 handlers, 1 row, 3 days | 28 k | 0:20 | calls are answered; expired overtime requests are decided; the requests implement `RequestDesk` |
| `bulk` | 2 employees of whom one may be removed, 3 slots, pages of 1, 2 retries, 1 start, 2 faults | 809 k | 1:20 | rows point at own templates or are orphaned, copies are explained, DONE is complete, a synchronisation ends |
| `devices` | 2 registrations in the backend, 1 manager with 2 operations, 1 fault | 138 k | 0:30 | heartbeats undo no decision; the terminal follows the backend; what becomes of a clear; scans are taken again |
| `pages` | 8 pages, 2 search words, 2 choices, 2 rows, 2 steps; 2 terminals | 199 k | 1:30 | what settled pages and the board show; spinners stop |
| `web` | 2 users, of whom one is new, 2 notifications, a list of 1, 2 steps | 114 k | 0:25 | session, badge, list and subscription |
| `payroll` | both sides of every limit of the code, in half minutes; explanations to noon and midnight; 2 employees, 2 publications, 2 events | 277 k | 2:20 | credit equals the reference; nothing earned is lost by scanning later; roundings agree; files, rows and pay agree |

`checkin_retry` is the counterexample of section 6.

Several properties are conjunctions of named parts that share their conditions,
such as `LogAndAttendanceAgree` or `SettledPageFits`; each part is stated and
explained where it is defined.

**Why the bounds are enough.**

- *Check-in.* A lost update needs two writers; the third request of
  `checkin_safety` sees the outcome of the first two, or repeats a token. The clock
  of three ticks with a day of two and a grace of one reaches both sides of
  midnight and of the grace hour. One terminal is enough for two scans at once,
  because it may give up on the first; one credential that is taken away and given
  to the other employee is the case where they could be mixed up.
- *Requests.* Limit 1 with two rows is the smallest case where a limit can be
  passed; two handlers are the smallest race, and the job is a third party. In
  `requests_progress` two handlers approve the same row, so the limit is at stake
  there too, and three days with two to a month reach late requests and a second month.
- *Enrolment and its spread.* Two employees are what a slot can be taken by. One
  fault is enough for the longest way round: a mapping callback is lost, a scan of the
  finger is answered as a ghost and empties the slot, the retry of the callback maps it
  all the same, the next employee's SYNC takes that
  slot, its mapping is refused (`SlotTaken`) until the two attempts are exhausted, and the
  template is rolled back. One fault is also one repeat of a command. A queue of one is
  full at once.
- *Bulk synchronisation.* Pages of one with two employees need a second page; the third
  slot holds a duplicate. Two faults are a fault and what it is confused with: a
  page given up and its acknowledgement that lands later, an unanswered report that
  is rolled back and one that lands, a repeat. One removal between page and count
  lowers the count.
- *Devices.* Two registrations are one the terminal gave up on and its successor;
  that a manager's operation overlaps either of them needs one manager, and an
  undone decision two operations. One fault is each of: a lost answer, session or
  command, a denied request, a restart, the portal, an unplugged sensor, a factory
  reset. Deadlock is checked here: the terminal always has a pass to make.
- *Pages.* Two steps are a change and a load, or two loads, that cross; the page
  size of 1 makes every removal empty a page; two terminals are what one retained
  message cannot hold.
- *Session and bell.* Two steps are, for instance, a reset during a sign-in, a
  logout before an answer, two clicks, or a token that expires and a connection that
  drops; the second user is the one whose data the first must not see. A list of one
  is shorter than the two notifications.
- *Payroll.* The long day of the instance (08:30 to 20:30 on a weekday) has lunch,
  dinner and overtime; explanations that move its checkout to midnight, or back to noon,
  change it between the reads of a publication and after it. Two publications with two employees write
  the same files in any order.

`Removable`, `MaxEnrolls`, `MaxStarts`, `MaxChanges`, `MaxSteps`, `MaxEvents`,
`MaxFaults`, `MaxClock` and `MaxDay` bound what the environment may do in one
behaviour. Where those bounds let the system come to rest, deadlock is not
reported. Symmetry is used in runs without liveness only, and never where ids are
ordered (`BulkSync`).

## 4. Fairness

- `Checkin`: weak fairness of each handler. Node runs the continuation of a
  settled promise and Prisma settles every query. Terminals, managers and the
  clock owe nothing.
- `CredentialSync`: weak fairness of the backend, of the broker's acknowledgements
  (`Publish`) and of the end of a call; strong
  fairness of taking an MQTT command and of retrying a callback. Each turn of the
  loop polls MQTT and the retry queue before it looks at the sensor, so scans
  cannot starve them, but a blocked call disables them now and then. Nobody is
  obliged to put a finger on the sensor.
- `Requests`: strong fairness of each handler, since PostgreSQL serves the queue
  of a row lock in order while newcomers keep taking it; weak fairness of 04:00
  and of the job. Midnight is not owed to anybody.
- `BulkSync`: weak fairness of `tick()`, which the loop calls on every turn; faults,
  live traffic, removals and late answers are not fair.
- `DeviceLifecycle`: weak fairness of the backend's handlers, of boot, leaving the
  portal and taking an answer, and of the registrations that fall due (the timers
  of `tick()`); strong fairness of the ends of an enrolment and of its result screen,
  which have time limits but are disabled while a registration blocks the loop. The end
  of a bulk synchronisation is owed by nothing: it has no time limit, and with a full
  sensor it does not come. No manager, command or reconnection of MQTT is owed.
- `ListPages`: weak fairness of the answers to loads, of heartbeats of connected
  terminals and of the delivery of status messages. Users owe nothing.
- `Notifications`: weak fairness of the backend's answers and of delivery, the
  reconnection of socket.io included, which the gateway may refuse. Axios gives up
  after 15 s, so a call on its way ends.
- `Payroll` and `AttendanceCompute` state safety only.

## 5. Proofs

The theorems hold for every value of the constants, under the assumptions named
in each module: sizes are naturals, `NoOne` is no member of the other sets, and the
sets that are counted (rows in `Requests`, employees in `BulkSync`) are finite.

**`CheckinProofs`.** `TypeOK` and the properties are not inductive alone: whether a
commit may log a token depends on who else holds it. The invariant `IInv` adds
that no two open transactions hold the same token, that an open transaction's
token is not yet in the log, that what a request knows (`emp`, `at`, `dev`) is set
from the step where it is set, that `saw` is only true of a row that has a check-in,
and that a request that ended as `ok` is in the log. From it: `TypeCorrect`,
`LogAndAttendanceStayAgreed` (from a theorem for each of its four parts) and
`SuccessIsLogged`. `ImplementsBook` maps the initial states to the empty book, a
commit to `Enter` (its guard, that the token is new, is a part of `IInv`), and every
other step to a stutter. `QuietDays` needs the order of the scans: `OrderInv` says
that the log is exactly the scans of the committed requests, that instants do not
run ahead of the clock, that requests open at once have overlapped, and that a
request which overlapped none of the committed ones came after it and, once it has
read the row they share, found its check-in. A commit on a day that stays quiet is
then the first of the day or later than all of them, and the row runs from the first
scan to the last (`QuietRow`); that this is the property's minimum, maximum and count
is a lemma of its own.

**`RequestsProofs`.** The limit alone is not inductive: it does not say which row a
commit approves. `IInv` adds that every existing row belongs to an employee, that a
handler that decides has an existing row, and that a handler inside the approval
transaction holds an explanation. A commit then adds at most that one row to the
approved ones of its month and one to the counter, under `BelowLimit`; no other
action approves an explanation. Cardinalities come from the finite set theorems.
From the invariant: `TypeCorrect` (with the counter between 0 and the limit) and
`LimitRespected`. What is booked depends on who decides: `SoleDecider` says that a
row that is not contested has at most one handler deciding it and is PENDING while
it has. With it, `BookedInv` is inductive and gives `BookingsAreComplete` (the
counter is the number of approved explanations; their days have a checkout) and
`DecisionsAreFinal`. `ImplementsDesk` needs one fact more, that what a handler has
looked at still holds when it uses it several awaits later: the explanation being
filed is for a past day with a check-in, and the day a transaction has read is not
empty (`DeskInv`, inductive because days only fill, filed requests stay as they are
and time passes: `Onward`). Then a row created is `File`, a decision written is
`Judge`, by `SoleDecider` one that is still open or disputed, a commit below the
limit is `Explain`, the job is `Expire`, and a roll-back changes nothing at the desk.

**`CredentialSyncProofs`.** Why does a template belong to its owner, when the
command to enrol names nobody and the intent is a cache entry per terminal? Because
whatever a terminal's enrolment is at, everything of it is one employee's (`ForOne`): the
commands still to be published or to arrive, of which there may be several since QoS 1
repeats them, the session, the request, and the intent, which is theirs or gone. That
holds until an enrolment overruns the one before. Most actions leave it alone
(`QuietStep`, `SessionKept`); the ones that do not are `StartEnroll`, `PublishCommand`,
`ReceiveEnroll`, `StoreFinger` and `ReadIntent`, which hand the enrolment on.
`AttemptsLeft` and `EntryIsNamed` keep the callback queue within its attempts. From it:
`TypeCorrect` and `EnrolmentIsOwn`, with any number of terminals, employees and faults.

That a terminal holds no more copies of a finger than its owner was enrolled and
commands were repeated (`CopiesAreExplained`) is an argument of counting. A *token* is a
place where a copy is or may still come from: a slot, a broadcast on its way, a report, a
session that chooses, a command to enrol, one that is still to be published. `Covered`
says that the tokens of a finger at a terminal inject into what is `Allowed`: the
enrolments started and the commands repeated. Every step moves at most one token
(`TokensMove`): a command that is published becomes one that arrives, that a session, a
session its slot and its report, the report a broadcast to the others. Only `StartEnroll`
and the two repeats make one, and pay for it (`TokensGrow`). A restart of a session or a
repeated callback makes none.

`OwnersKeepTheirFingers` is about terminals that are undisturbed: no fault, not
`crossed`, not `undercut`. `OwnersInv` has a part for each terminal (`Local`: a scan, a
report and a callback name the slot that holds their finger; a chosen slot is still free;
a ghost's slot is nobody's; a callback is never repeated), one for its enrolment, which is
at one thing at a time (`OnePhase`), and one about the commands (a DELETE_FINGER, sent or
not, is for a slot that nobody is mapped to and never meets an enrolment; a SYNC carries
its employee's own finger; an enrolment is alone until it is broadcast). `OwnedStep`
reduces each action to its own terminal. The proof has a
result for the model. Until it was tried, the property excepted removals in the
mappings only and promised the bookings whenever there was no fault and no crossing.
That is false, and the small instance hid it: with one terminal and three employees
a credential is removed during an enrolment, a ghost clean-up frees its slot, the
enrolment takes it, the late DELETE_FINGER empties it, the next enrolment takes it
again and its mapping is refused, and the third employee's scans are booked on the
second. `undercut` excepts it, and the mappings need no other exception.

**`BulkSyncProofs`.** That a row points at its template is not inductive: rows are still
to come from reports and acknowledgements that nobody awaits any more. `PromisesKept`
says it of all of them (`Promised`): each is about a template that is in its slot or
was taken out of it by the terminal itself. A removal makes no promise and takes none
back, and a store goes to a free slot, so it breaks none (`PromisesSurviveStore`,
`PromisesSurviveVacate`). `PageInHand` says that what is left of a page has not been
stored for it, that it fits the page, and that what is to be acknowledged is in the
sensor; a page has at most `PageSize` employees by an injection into its positions
(`PageFits`). `CopiesBound` is the inductive form of the bound on copies, in which an
employee's first copy is the one that has a row or is about to get one. From it:
`SyncIsExplained`.

For `CompletionIsReal`, `PageIsCounted` follows those who were unmapped when the page was
fetched and are neither mapped nor in hand. A page is whole or full. If it is full and
the count, taken after it, finds no more than a page, then those it has left out are at
most as many as those of the page that the count did not find (`RestIsSmall`, by counting
both sides of the page); afterwards nobody is added to them (`MissedShrinks`).

**`DeviceLifecycleProofs`.** `IInv` adds to `TypeOK` that an operation that publishes
has something to publish (`PublishHasOutput`), that a rename counted as quiet has
been seen by every heartbeat that will write a name (`RenameWasSeen`), and that an
answer carries a status (`AnswersCarryStatus`). From it: `TypeCorrect`, `RenameSticks`,
`HeartbeatsKeepStatus` and, of the two, `DecisionsAreKept`, for any number of open
registrations and managers.

**`NotificationsProofs`, the session.** In the specification that runs the
notifications beside it. `IInv` adds that calls on their way have an
owner (`CallsAreOwned`), that the page follows the session (`PathFollows`), that a
bootstrap is alone with its token and a sign-in or change belongs to the session it
was made in (`CallsBelong`), that a loaded tab is signed in exactly with a token
(`SignedInProperly`), and that whoever holds a token for changing the password owes
the change (`ChangeIsOwed`), whatever has expired, the last three under the exceptions that `odd` collects.
From it: `TokenIsFollowed`.

**`NotificationsProofs`, the bell.** `BellIsExact`, for any number of notifications,
fetches at once and sign-ins. `BellInv` says what the client knows while it is signed
in. Of the table it has `Seen`: what is made but not on its way. The badge counts the
unread of that (`CountFits`), with one more while the answer to a mark is out; the
list shows the newest of it (`ListFits`): what a list leaves out of a set is older than
all it shows, and then it fills a page (`ShowsPage`, `LeavesOut`), which pushes and marks
preserve. A fetch that nothing has crossed belongs to this sign-in
and its answer is the table as it still is (`LoadFits`); a mark belongs to this
sign-in, and what is on its way is unread (`MarkFits`); the socket carries its owner's
pushes, each once (`WireFits`). Signing in starts from `missed = Both`, so only the two
fetches have to fit, and these carry the token that the session lemmas
(`SignsIn`, `StaysSigned`) tie to the profile. After a step under which the table
looks the same to the client (`SameView`) nothing has to be shown again (`ViewKept`).
`Listed` chooses a sequence, so `FallingExists` first shows that every finite set of
numbers has one that falls, by the least size of a set without one; then `ListedShows`
says what the backend's answer is. The proof changed the model in two places: the
client's handling of an answer was a `CASE` whose guards overlapped, which TLC reads
from the top and TLA+ does not, and `QuietListIsExact` did not say which
notifications the list must show.

**`PayrollProofs`, the day.** `TypeCorrect`, and `NothingIsLost`: for every length
of a minute and every set of instants a later scan over a scanned checkout never lowers
the credit nor adds missing minutes (`NeverCostsToStay`), and an approved overtime request
never lowers the credit, nor adds missing minutes on a weekday (`OtIsFree`). The lemmas
follow the arithmetic: the value of
a time of day (`TimeOfDayValue`), of the effective checkout past midnight
(`EffectiveCheckoutValue`), that a later end credits more (`LaterEndCreditsMore`),
that the dinner break lies after the hours that count without overtime
(`OtCreditsMore`), and that rounding is monotone (`DivisionIsMonotone`,
`MoreCreditMissesLess`). `CreditIsExact` counts, for any checkout a scan or an explanation
leaves: the ticks of a span (`SpanLength`),
those it shares with another (`SharedTicks`), and those that remain outside both
breaks (`OutsideBreaks`) add up to the formula; a checkout before the check-in is worth
nothing on either side. `RoundingIsHarmless` puts the rounded
quotient between two bounds (`DivisionBounds`, `RoundedValue`) to compare minutes with
ticks.

**`PayrollProofs`, the month.** Any staff, rates and number of publications at once,
with scans, decisions, dismissals and failures in between. `PayInv` follows one
publication through its employees: whoever it is through with has been told
(`PaidInTurn`), a file is there before its row and a row before its message
(`PaidBeforeTold`), a publication that nobody has crossed writes alone and has
written what it is about to save, and any other has marked what it writes as torn
(`WritesAlone`), and what it has read still holds for all whom nothing has moved
(`ReadIsCurrent`). A row counted as fresh is one that nobody writes
(`FreshIsUntouched`); `PayslipLoads` and `SummaryLoads` say what a reader holds half way.
`todo` loses its least id, so that facts about finite sets are enough for the order. From it: `RowsMatchFiles`, `PaidExactly` and `EverybodyIsPaid`.
`RoundingsAgree` bounds the payslip's hours and the summary's days around the same
exact quotient. What is decided during and after the publication are steps of
`AttendanceCompute`, so its theorems hold in the month (`MonthCreditsTime`): that credit
is exact for the checkout an explanation has put in place of a published one as well.

**`ListPagesProofs`.** Loads are a sequence of any length and are answered in any
order. `Overtakes` is the heart: whoever has been answered has made the loads before
it late, so an answer that still fits the page is that of the last load, or the last
load is still to come (`AnswerShows`). With `LastFits` (the last load was sent for
what the page asks for) and `LastIsFresh` (it sees the last change) that gives
`SettledPages`, and the first half of `OwnChanges`. The second half, that nobody is
left on an empty page, follows the page number: on `EmployeesPage` only a removal that
is not answered may have emptied the page (`EmployeesStay`), on `DevicesPage` only one
whose reload is on its way, and that reload reads the table as it is
(`DevicesStay`). The lemmas on lists (`WithoutShape`, `OvertakenShape`, `LoadShape`,
`OvertakenKeeps`, `WithoutKeeps`, `LoadKeeps`) carry the loads through every handler.
That proof had a result for the model: `calm` did not exclude a removal whose answer
is lost, which leaves the user on an empty page, and instances with two steps are too
small to show it. For the board, `ConInv` says that the last message about a
terminal in each of the two queues carries what its receiver is about to know
(`BackendHears`, `PageHears`) unless it is counted as missed or crossed. From it:
`LastWords`.

**Only model-checked.** All liveness properties (fairness and `ENABLED` are beyond
the prover), among them that a device returns to what the backend decided, that callbacks are
resolved and that a bulk synchronisation ends. No module
uses a `RECURSIVE` operator.

## 6. Where the code and its words disagree

`checkin_retry` ends in a counterexample to a comment: `checkin.service.ts:123`
says that a retry "short-circuits back to the original row"; the unique violation
aborts the transaction, so the look-up of the original row is refused. The run
rests on a fact of PostgreSQL: after an error inside a transaction every further
statement is refused until it ends.

Other words that the code does not keep, seen while modelling and left without a
run:

- `SyncMappingService.h:17` says that a roll-back keeps the sensor in sync with the
  backend. When only the answers were lost, the template is deleted and the mapping
  stays (`SyncMappingService.cpp:57`): an orphaned row of `BulkSync`.
- `Plan/Timekeeping.md:51-54` (3.1) credits the time from the check-in on, as does the
  head of `attendance.compute.ts`; the code starts at 08:00 on a weekday without approved
  overtime. `Plan/Timekeeping.md:63` (3.2) credits at most the overtime that was
  registered; the code has no such limit. `Counted` follows the code in both, so the
  passing `CreditIsTimePresent` says nothing for the plan.
- `requests.service.ts:268` and `:421` let only PENDING requests be decided. An
  approval and a rejection that both read PENDING overwrite each other (`:275`
  writes by id alone).
- `BulkSyncService` gives up after three failed acknowledgements
  (`BulkSyncService.cpp:82`), but every fetched page resets the counter (`:68`).
- `attendance.service.ts:352` says that the sum is rounded once; `:387` adds values
  that each row has rounded already.

The passing properties say what holds, and their conditions say where it stops:

- `QuietDayIsExact` asks that the employee's scans of the day do not overlap: of
  two that do, the last to commit writes its column, the later scan or not.
- `SequentialEnrolmentIsOwn` asks that enrolments at one terminal do not overlap: a
  second one replaces the intent while the first finger is on its way.
- `SlotsAreExplained` of the enrolments allows a copy for each command that QoS 1
  repeats: nothing in the terminal recognises a SYNC or ENROLL it has had already.
- `FingersStayWithOwners` asks for no fault, no crossing and no removal during an
  enrolment: a callback that is on its way then creates the mapping again, and a
  late DELETE_FINGER may empty a slot that has a new owner (section 5).
- `UncontestedDecisionIsFinal` and `ChargedExactly` set contested decisions aside.
- `ApprovedDayHasCheckout` promises a checkout, not that a scanned one is kept: the
  approval writes it without looking. Two creations at once leave two pending
  requests of a day; nothing promises otherwise.
- `SyncEnds` needs a free slot: with a full sensor, or one that stores nothing, the same
  page is fetched for ever and check-in stays closed. `BackInService` and
  `PendingClearRuns` excuse a synchronisation that never ends (`SyncsForEver`).
- `MappingPointsAtOwnTemplate` excepts rows whose template the terminal has taken out
  itself (`orphaned`): a roll-back after an unanswered report that the backend has or
  will have, and a DELETE_FINGER for an earlier owner of the slot. An employee who is
  removed between the storing of a template and its report or acknowledgement is
  mapped again by it.
- `DoneIsComplete` allows DONE to come too early, by as many as left the page between
  the two queries of `getBulkSyncPage` (`credentials.service.ts:161` and `:178`): the page
  is full, the count is smaller, and whoever came after the page is left out until the next
  START_BULK_SYNC.
- `QuietRenameSticks` asks that no heartbeat had read the old name: one that had
  writes it back.
- `PendingClearRuns` excepts an enrolment frozen by the status that came with the
  clear: it is not ticked while the device is not ACTIVE, and the clear waits
  behind it. A clear that finds no sensor, or is overtaken by a restart, is gone; nothing
  repeats it.
- `BoardShowsLastWord` excepts a last will the backend has missed, since one
  retained message stands for all terminals, and a snapshot that overtakes an
  event. `ConnectedIsShown` says that the next heartbeat heals both.
- `SettledRowsFit` excepts answers that crossed and handlers that load the values
  of an earlier render; the employee portal, which cancels, has no exception.
  `SummaryFits` excepts a filter that changed while the total was computed. Saving
  a device writes the status of the draft, which may be older than the row.
- `SignedInAsTokenOwner` excepts a sign-in submitted before the bootstrap had ended,
  whose token a failed bootstrap removes, answers after a logout, and other tabs.
- A manager's reset during a change of password is overwritten by it, password and flag
  (`auth.service.ts:92`; `UpdatePassword` in `WebSession` does so). No property promises
  that a reset survives.
- `QuietBellIsExact` excepts what was lost or crossed. A click on a notification
  that is read already lowers the badge, and a tab that signs in for a forced
  change has its first fetches refused and does not repeat them. The list holds the
  newest 20 (`NotificationContext.tsx:40`); older ones are not asked for.
- `StaysSubscribed` ends with the token the socket was made with: the gateway disconnects
  an expired one (`notifications.gateway.ts:44`), the client does not try again after a
  disconnect by the server, and a tab that is still signed in hears no more pushes.
- `PayslipMatchesFile` excepts employees torn by a failure, or by two publications
  that write them together; the next publication repairs them.
- `SummaryMatchesPayslip` allows 0.04 hours: the summary rounds days to two
  decimals, the payslip hours.
- `CreditIsTimePresent` leaves out a check-in between 00:00 and 04:00 with a checkout that
  is not later, by a scan in the same second or by an explanation: the code takes it for
  one of the next day and credits up to 24 hours (`Displaced`).
- `StayingNeverCosts` is about scans over scanned checkouts. An explanation sets the
  checkout whatever the row has (`requests.service.ts:311`), so it may lower the credit,
  and a scan after it may as well. `OtNeverCosts` is about weekdays as far as minutes go: a
  weekend has no missing minutes until its overtime is approved, and then misses what
  lacks to eight hours. `StayingToTheWindowsEnd` allows the minute that the window's
  start loses by rounding.

## 7. Not modelled, and what could follow

| part | reason |
|---|---|
| Buttons, buzzer, RFID hold-off, display | timing and output of one actor; the button's effect is in `DeviceLifecycle` |
| Configuration portal's pages, NVS | I/O; the portal is one mode of `DeviceLifecycle` |
| PDF layout, form contents, dialogs, profile page | no protocol state |
| `findMissingCheckoutDays`, birthdays, names and e-mail conflicts | reads and single writes |
| Password hashes; tokens that expire one after the other | data; in `WebSession` all that have been issued expire together |
| Seed data, migrations, build files | not behaviour |

What could be proved next: a book of templates that `CredentialSync` and `BulkSync`
implement, as `Checkin` does `AttendanceBook` and `Requests` does `RequestDesk`.

## 8. Running it

```
tlc -workers 2 -config MCCheckin_safety.cfg MCCheckin
tlapm CheckinProofs.tla
```

`PROJECT.json` pairs every configuration with its module and says whether TLC is
expected to find the property violated.
