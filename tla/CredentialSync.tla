--------------------------- MODULE CredentialSync ---------------------------
(***************************************************************************)
(* Fingerprint credentials, end to end: CredentialsService and the removal *)
(* paths of EmployeesService in the backend, the MQTT commands to each     *)
(* terminal, and in the terminal the sensor slots, EnrollmentService,      *)
(* SyncMappingService and the ghost clean-up of CheckinService.            *)
(*                                                                         *)
(* A template is represented by the person whose finger it is.  The        *)
(* firmware is one loop, so a terminal does nothing else while an HTTP     *)
(* call blocks it; the backend meanwhile serves everybody.  At most one    *)
(* request of a terminal is inside the backend at a time, but it may       *)
(* outlive the call that sent it.                                          *)
(***************************************************************************)
EXTENDS Integers, Sequences, FiniteSets

CONSTANTS
    Devices,       \* terminals, all ACTIVE with a working sensor
    Employees,
    NoOne,         \* null template, free slot, no intent
    MaxSlot,       \* kMaxTemplateId
    MaxPending,    \* SyncMappingService::kMaxPending
    MaxAttempts,   \* kSyncMappingMaxAttempts
    \* Bounds on the environment of a behaviour.
    EnrollAt,      \* terminals at which the manager starts enrolments
    Removable,     \* employees whose fingerprint may be removed, once each
    MaxEnrolls,    \* enrolments the manager starts per employee
    MaxFaults      \* losses, repeats, give-ups, expiries, failures

ASSUME SizeAssumption ==
    /\ MaxSlot \in Nat \ {0} /\ MaxPending \in Nat \ {0} /\ MaxAttempts \in Nat \ {0}
    /\ MaxEnrolls \in Nat /\ MaxFaults \in Nat
    /\ EnrollAt \subseteq Devices /\ Removable \subseteq Employees
ASSUME NoOneAssumption == NoOne \notin Employees /\ NoOne \notin Devices

VARIABLES
    \* backend
    template,   \* Employee.template_fingerprint
    mapping,    \* Mapping(device_id, employee_id).fingerprint_id, 0 if no row
    intent,     \* cache entry enroll_intent_<device>
    request,    \* the request of each terminal inside the backend
    unsent,     \* the handlers' commands that the broker has not acknowledged
    \* network
    inbox,      \* MQTT commands on their way to each terminal, in order
    \* terminal
    sensor,     \* slot -> stored template
    pending,    \* SyncMappingService::pending_
    enroll,     \* EnrollmentService: state_, targetId_, person at the sensor
    call,       \* the HTTP call the loop is blocked in, and its answer
    \* history
    misbooked,  \* <<finger, employee>>: accepted scans booked on somebody else
    started,    \* enrolments the manager started for each employee
    repeated,   \* ENROLL and SYNC commands of theirs that arrived once more
    removed,    \* employees whose fingerprint was removed
    crossed,    \* an enrolment was started while anything was unfinished
    undercut,   \* a fingerprint was removed while an enrolment was unfinished
    overrun,    \* ... while the same terminal's enrolment was unfinished
    faults

backendVars == <<template, mapping, intent, request, unsent>>
deviceVars == <<sensor, pending, enroll, call>>
historyVars == <<misbooked, started, repeated, removed, crossed, undercut, overrun, faults>>
vars == <<template, mapping, intent, request, unsent, inbox, sensor, pending, enroll, call,
          misbooked, started, repeated, removed, crossed, undercut, overrun, faults>>

Slots == 1..MaxSlot
Entries == 1..MaxPending
Person == Employees \cup {NoOne}
Command == [cmd: {"ENROLL", "SYNC", "DELETE"}, emp: Person, finger: Person,
            source: Devices \cup {NoOne}, slot: 0..MaxSlot]
\* A command of a handler, told from every other: the nth enrolment started
\* for emp, or the removal of emp, who had this slot.
Job == [cmd: {"ENROLL"}, emp: Employees, nth: 1..MaxEnrolls, slot: {0}]
         \cup [cmd: {"DELETE"}, emp: Employees, nth: {0}, slot: 0..MaxSlot]
Entry == [emp: Person, slot: 0..MaxSlot, attempts: 0..MaxAttempts]
Request == [kind: {"none", "mapping", "fingerprint", "checkin"},
            step: {"received", "template", "mapping", "clear", "publish"},
            emp: Person, finger: Person, slot: 0..MaxSlot]
Call == [kind: {"none", "mapping", "fingerprint", "checkin"}, entry: 0..MaxPending,
         slot: 0..MaxSlot, answer: {"none", "ok", "fail", "ghost"}]
Enroll == [state: {"IDLE", "FIND_EMPTY_SLOT", "WAIT_FINGER", "CALLING", "RESULT"},
           slot: 0..MaxSlot, person: Person]

NoEntry == [emp |-> NoOne, slot |-> 0, attempts |-> 0]
NoRequest == [kind |-> "none", step |-> "received", emp |-> NoOne, finger |-> NoOne, slot |-> 0]
NoCall == [kind |-> "none", entry |-> 0, slot |-> 0, answer |-> "none"]
NotEnrolling == [state |-> "IDLE", slot |-> 0, person |-> NoOne]

TypeOK ==
    /\ template \in [Employees -> Person]
    /\ mapping \in [Devices -> [Employees -> 0..MaxSlot]]
    /\ intent \in [Devices -> Person]
    /\ request \in [Devices -> Request]
    /\ unsent \in [Devices -> SUBSET Job]
    /\ inbox \in [Devices -> Seq(Command)]
    /\ sensor \in [Devices -> [Slots -> Person]]
    /\ pending \in [Devices -> [Entries -> Entry]]
    /\ enroll \in [Devices -> Enroll]
    /\ call \in [Devices -> Call]
    /\ misbooked \subseteq Employees \X Employees
    /\ started \in [Employees -> 0..MaxEnrolls]
    /\ repeated \in [Employees -> Nat]
    /\ removed \subseteq Employees
    /\ crossed \in BOOLEAN /\ undercut \in BOOLEAN /\ overrun \in BOOLEAN
    /\ faults \in 0..MaxFaults

Init ==
    /\ template = [e \in Employees |-> NoOne]
    /\ mapping = [d \in Devices |-> [e \in Employees |-> 0]]
    /\ intent = [d \in Devices |-> NoOne]
    /\ request = [d \in Devices |-> NoRequest]
    /\ unsent = [d \in Devices |-> {}]
    /\ inbox = [d \in Devices |-> <<>>]
    /\ sensor = [d \in Devices |-> [s \in Slots |-> NoOne]]
    /\ pending = [d \in Devices |-> [i \in Entries |-> NoEntry]]
    /\ enroll = [d \in Devices |-> NotEnrolling]
    /\ call = [d \in Devices |-> NoCall]
    /\ misbooked = {}
    /\ started = [e \in Employees |-> 0]
    /\ repeated = [e \in Employees |-> 0]
    /\ removed = {}
    /\ crossed = FALSE /\ undercut = FALSE /\ overrun = FALSE
    /\ faults = 0

-----------------------------------------------------------------------------
(* The manager. *)

\* Something of an enrolment is still on its way ...
EnrolmentOpen(d) ==
    \/ intent[d] # NoOne \/ enroll[d] # NotEnrolling
    \/ \E j \in unsent[d] : j.cmd = "ENROLL"
    \/ \E i \in DOMAIN inbox[d] : inbox[d][i].cmd # "DELETE"
    \/ request[d].kind \in {"mapping", "fingerprint"} \/ call[d].kind \in {"mapping", "fingerprint"}
    \/ \E i \in Entries : pending[d][i] # NoEntry

\* ... or of a removal or a scan.
Unfinished(d) ==
    \/ EnrolmentOpen(d) \/ unsent[d] # {} \/ inbox[d] # <<>>
    \/ request[d] # NoRequest \/ call[d] # NoCall

\* The enrolment at this terminal has not reached its result, or its
\* callback is still inside the backend.
SessionOpen(d) ==
    \/ enroll[d].state \notin {"IDLE", "RESULT"} \/ request[d].kind = "fingerprint"
    \/ \E j \in unsent[d] : j.cmd = "ENROLL"
    \/ \E i \in DOMAIN inbox[d] : inbox[d][i].cmd = "ENROLL"

EnrollCommand(e) ==
    [cmd |-> "ENROLL", emp |-> e, finger |-> NoOne, source |-> NoOne, slot |-> 0]
SyncCommand(d, e, f) ==
    [cmd |-> "SYNC", emp |-> e, finger |-> f, source |-> d, slot |-> 0]
DeleteCommand(s) ==
    [cmd |-> "DELETE", emp |-> NoOne, finger |-> NoOne, source |-> NoOne, slot |-> s]

EnrollJob(e, n) == [cmd |-> "ENROLL", emp |-> e, nth |-> n, slot |-> 0]
DeleteJob(e, s) == [cmd |-> "DELETE", emp |-> e, nth |-> 0, slot |-> s]
CommandOf(j) == IF j.cmd = "ENROLL" THEN EnrollCommand(j.emp) ELSE DeleteCommand(j.slot)

\* startFingerprintEnroll up to its second await: the intent is overwritten
\* without looking; the command, still to be published, names no employee.
KeepOldIntent(d, e) == IF intent[d] = NoOne THEN e ELSE intent[d]
NewIntent(d, e) == e

StartEnroll(d, e) ==
    /\ d \in EnrollAt /\ started[e] < MaxEnrolls
    /\ intent' = [intent EXCEPT ![d] = NewIntent(d, e)]
    /\ unsent' = [unsent EXCEPT ![d] = @ \cup {EnrollJob(e, started[e] + 1)}]
    /\ started' = [started EXCEPT ![e] = @ + 1]
    /\ crossed' = (crossed \/ \E x \in Devices : Unfinished(x))
    /\ overrun' = (overrun \/ SessionOpen(d))
    /\ UNCHANGED <<template, mapping, request, inbox, deviceVars, misbooked, repeated,
                   removed, undercut, faults>>

\* removeCredentialIdentifier(FINGERPRINT) and softDeleteEmployee: one
\* transaction, and one DELETE_FINGER to publish per snapshotted mapping.
RemoveFingerprint(e) ==
    /\ e \in Removable \ removed
    /\ mapping' = [d \in Devices |-> [mapping[d] EXCEPT ![e] = 0]]
    /\ template' = [template EXCEPT ![e] = NoOne]
    /\ unsent' = [d \in Devices |->
         IF mapping[d][e] = 0 THEN unsent[d] ELSE unsent[d] \cup {DeleteJob(e, mapping[d][e])}]
    /\ removed' = removed \cup {e}
    /\ undercut' = (undercut \/ \E x \in Devices : EnrolmentOpen(x))
    /\ UNCHANGED <<intent, request, inbox, deviceVars, misbooked, started, repeated,
                   crossed, overrun, faults>>

\* The broker acknowledges a handler's publish, whichever of those under way.
PublishCommand(d, j) ==
    /\ j \in unsent[d]
    /\ inbox' = [inbox EXCEPT ![d] = Append(@, CommandOf(j))]
    /\ unsent' = [unsent EXCEPT ![d] = @ \ {j}]
    /\ UNCHANGED <<template, mapping, intent, request, deviceVars, historyVars>>

-----------------------------------------------------------------------------
(* The backend, one action per await. *)

\* The HTTP answer reaches the terminal only while it still waits for it.
Finish(d, answer) ==
    /\ request' = [request EXCEPT ![d] = NoRequest]
    /\ call' = IF call[d].kind # "none" /\ call[d].answer = "none"
                 THEN [call EXCEPT ![d].answer = answer]
                 ELSE call

\* @@unique([device_id, fingerprint_id])
SlotTaken(d, e, s) == \E o \in Employees \ {e} : mapping[d][o] = s

\* upsertSyncMapping
HandleMapping(d) ==
    LET r == request[d] IN
    /\ r.kind = "mapping"
    /\ IF SlotTaken(d, r.emp, r.slot)
         THEN Finish(d, "fail") /\ UNCHANGED mapping
         ELSE Finish(d, "ok") /\ mapping' = [mapping EXCEPT ![d][r.emp] = r.slot]
    /\ UNCHANGED <<template, intent, unsent, inbox, sensor, pending, enroll, historyVars>>

\* cacheFingerprint: read the intent ...
ReadIntent(d) ==
    /\ request[d].kind = "fingerprint" /\ request[d].step = "received"
    /\ IF intent[d] = NoOne
         THEN Finish(d, "fail")
         ELSE /\ request' = [request EXCEPT ![d].emp = intent[d], ![d].step = "template"]
              /\ UNCHANGED call
    /\ UNCHANGED <<template, mapping, intent, unsent, inbox, sensor, pending, enroll, historyVars>>

\* ... write the master template ...
WriteTemplate(d) ==
    LET r == request[d] IN
    /\ r.kind = "fingerprint" /\ r.step = "template"
    /\ template' = [template EXCEPT ![r.emp] = r.finger]
    /\ request' = [request EXCEPT ![d].step = "mapping"]
    /\ UNCHANGED <<mapping, intent, unsent, inbox, deviceVars, historyVars>>

\* ... upsert this terminal's mapping ...
WriteMapping(d) ==
    LET r == request[d] IN
    /\ r.kind = "fingerprint" /\ r.step = "mapping"
    /\ IF SlotTaken(d, r.emp, r.slot)
         THEN Finish(d, "fail") /\ UNCHANGED mapping
         ELSE /\ mapping' = [mapping EXCEPT ![d][r.emp] = r.slot]
              /\ request' = [request EXCEPT ![d].step = "clear"]
              /\ UNCHANGED call
    /\ UNCHANGED <<template, intent, unsent, inbox, sensor, pending, enroll, historyVars>>

\* ... drop the intent, whoever it now is for ...
ClearIntent(d) ==
    /\ request[d].kind = "fingerprint" /\ request[d].step = "clear"
    /\ intent' = [intent EXCEPT ![d] = NoOne]
    /\ request' = [request EXCEPT ![d].step = "publish"]
    /\ UNCHANGED <<template, mapping, unsent, inbox, deviceVars, historyVars>>

\* ... and broadcast the template to every terminal, the source included.
CommandTopicOnly(d) == {d}
Subscribers(d) == Devices

Publishing(d) == request[d].kind = "fingerprint" /\ request[d].step = "publish"
Broadcast(d) ==
    inbox' = [x \in Devices |->
      IF x \in Subscribers(d)
        THEN Append(inbox[x], SyncCommand(d, request[d].emp, request[d].finger))
        ELSE inbox[x]]

PublishSync(d) ==
    /\ Publishing(d) /\ Broadcast(d)
    /\ Finish(d, "ok")
    /\ UNCHANGED <<template, mapping, intent, unsent, sensor, pending, enroll, historyVars>>

\* CheckinService.handle, as far as credentials go.
HandleCheckin(d) ==
    LET r == request[d]
        owners == {e \in Employees : mapping[d][e] = r.slot}
    IN
    /\ r.kind = "checkin"
    /\ Finish(d, IF owners = {} THEN "ghost" ELSE "ok")
    /\ misbooked' = misbooked \cup {<<r.finger, e>> : e \in owners \ {r.finger}}
    /\ UNCHANGED <<template, mapping, intent, unsent, inbox, sensor, pending, enroll,
                   started, repeated, removed, crossed, undercut, overrun, faults>>

-----------------------------------------------------------------------------
(* The terminal's loop. *)

EverySlot(d) == Slots
FreeSlots(d) == {s \in Slots : sensor[d][s] = NoOne}
FirstFree(d) ==
    IF FreeSlots(d) = {} THEN 0
    ELSE CHOOSE s \in FreeSlots(d) : \A t \in FreeSlots(d) : s <= t

FreeEntries(d) == {i \in Entries : pending[d][i] = NoEntry}
FirstFreeEntry(d) == CHOOSE i \in FreeEntries(d) : \A j \in FreeEntries(d) : i <= j

Idle(d) == call[d] = NoCall
Enrolling(d) == enroll[d].state # "IDLE"

\* A blocking POST: the loop waits, and the backend has the request.
Send(d, kind, entry, slot, emp, finger) ==
    /\ request[d] = NoRequest
    /\ call' = [call EXCEPT ![d] = [kind |-> kind, entry |-> entry, slot |-> slot, answer |-> "none"]]
    /\ request' = [request EXCEPT ![d] =
         [kind |-> kind, step |-> "received", emp |-> emp, finger |-> finger, slot |-> slot]]

NextCommand(d, cmd) == Idle(d) /\ inbox[d] # <<>> /\ Head(inbox[d]).cmd = cmd
Consume(d) == inbox' = [inbox EXCEPT ![d] = Tail(@)]

\* consumeEnrollCommand, startIfAllowed: a session in progress is restarted.
ReceiveEnroll(d) ==
    /\ NextCommand(d, "ENROLL") /\ Consume(d)
    /\ enroll' = [enroll EXCEPT ![d] =
         [state |-> "FIND_EMPTY_SLOT", slot |-> 0, person |-> Head(inbox[d]).emp]]
    /\ UNCHANGED <<backendVars, sensor, pending, call, historyVars>>

\* A SYNC that stores nothing: from this terminal, or no free slot.
NoSelfCheck(d, m) == FreeSlots(d) = {}
Ignored(d, m) == m.source = d \/ FreeSlots(d) = {}

IgnoreSync(d) ==
    /\ NextCommand(d, "SYNC") /\ Ignored(d, Head(inbox[d])) /\ Consume(d)
    /\ UNCHANGED <<backendVars, deviceVars, historyVars>>

\* enqueue() with its result ignored, then syncMappingService_.tick drives
\* the first entry that is due: the new one, or an older one before it.
StoreSync(d) ==
    LET m == Head(inbox[d])
        s == FirstFree(d)
        new == [emp |-> m.emp, slot |-> s, attempts |-> 0]
    IN
    /\ NextCommand(d, "SYNC") /\ ~Ignored(d, m) /\ Consume(d)
    /\ sensor' = [sensor EXCEPT ![d][s] = m.finger]
    /\ IF FreeEntries(d) = {}
         THEN UNCHANGED <<pending, call, request>>
         ELSE LET j == FirstFreeEntry(d)
                  queue == [pending[d] EXCEPT ![j] = new]
              IN \E i \in 1..j :
                   /\ pending' = [pending EXCEPT ![d] = [queue EXCEPT ![i].attempts = @ + 1]]
                   /\ Send(d, "mapping", i, queue[i].slot, queue[i].emp, NoOne)
    /\ UNCHANGED <<template, mapping, intent, unsent, enroll, historyVars>>

\* SyncMappingService::tick once retryIntervalMs has passed.
NeverDueAgain(e) == e # NoEntry /\ e.attempts = 0
Due(e) == e # NoEntry

RetryMapping(d, i) ==
    LET e == pending[d][i] IN
    /\ Idle(d) /\ Due(e)
    /\ pending' = [pending EXCEPT ![d][i].attempts = @ + 1]
    /\ Send(d, "mapping", i, e.slot, e.emp, NoOne)
    /\ UNCHANGED <<template, mapping, intent, unsent, inbox, sensor, enroll, historyVars>>

Answered(d, kind) == call[d].kind = kind /\ call[d].answer # "none"
Exhausted(e) == e.attempts >= MaxAttempts

\* The rest of the tick: done, rolled back, or left for the next interval.
MappingAnswered(d) ==
    LET i == call[d].entry
        e == pending[d][i]
        ok == call[d].answer = "ok"
    IN
    /\ Answered(d, "mapping")
    /\ pending' = IF ok \/ Exhausted(e) THEN [pending EXCEPT ![d][i] = NoEntry] ELSE pending
    /\ sensor' = IF ~ok /\ Exhausted(e) THEN [sensor EXCEPT ![d][e.slot] = NoOne] ELSE sensor
    /\ call' = [call EXCEPT ![d] = NoCall]
    /\ UNCHANGED <<backendVars, inbox, enroll, historyVars>>

\* DELETE_FINGER is dropped during an enrolment.
ReceiveDelete(d) ==
    /\ NextCommand(d, "DELETE") /\ Consume(d)
    /\ sensor' = IF Enrolling(d) THEN sensor
                 ELSE [sensor EXCEPT ![d][Head(inbox[d]).slot] = NoOne]
    /\ UNCHANGED <<backendVars, pending, enroll, call, historyVars>>

\* EnrollmentService::tick, FIND_EMPTY_SLOT.
FindSlot(d) ==
    /\ Idle(d) /\ enroll[d].state = "FIND_EMPTY_SLOT"
    /\ enroll' = [enroll EXCEPT ![d].slot = FirstFree(d),
                                ![d].state = IF FirstFree(d) = 0 THEN "RESULT" ELSE "WAIT_FINGER"]
    /\ UNCHANGED <<backendVars, inbox, sensor, pending, call, historyVars>>

\* WAIT_FINGER_2: the model goes to the slot chosen when the session began,
\* and only then is the backend told.
StoreFinger(d) ==
    LET n == enroll[d] IN
    /\ Idle(d) /\ n.state = "WAIT_FINGER"
    /\ sensor' = [sensor EXCEPT ![d][n.slot] = n.person]
    /\ enroll' = [enroll EXCEPT ![d].state = "CALLING"]
    /\ Send(d, "fingerprint", 0, n.slot, NoOne, n.person)
    /\ UNCHANGED <<template, mapping, intent, unsent, inbox, pending, historyVars>>

\* Success and failure show their screen; neither touches the slot.
FingerAnswered(d) ==
    /\ Answered(d, "fingerprint")
    /\ call' = [call EXCEPT ![d] = NoCall]
    /\ enroll' = [enroll EXCEPT ![d].state = "RESULT"]
    /\ UNCHANGED <<backendVars, inbox, sensor, pending, historyVars>>

\* The session ends 1.5 s after its result.
EnrollEnds(d) ==
    /\ Idle(d) /\ enroll[d].state = "RESULT"
    /\ enroll' = [enroll EXCEPT ![d] = NotEnrolling]
    /\ UNCHANGED <<backendVars, inbox, sensor, pending, call, historyVars>>

\* A stored finger is scanned while check-in is allowed.
ScanFinger(d, s) ==
    /\ Idle(d) /\ ~Enrolling(d) /\ sensor[d][s] # NoOne
    /\ Send(d, "checkin", 0, s, NoOne, sensor[d][s])
    /\ UNCHANGED <<template, mapping, intent, unsent, inbox, sensor, pending, enroll, historyVars>>

\* parseAndApply: FORCE_DELETE_LOCAL empties the slot.
CheckinAnswered(d) ==
    /\ Answered(d, "checkin")
    /\ sensor' = IF call[d].answer = "ghost" THEN [sensor EXCEPT ![d][call[d].slot] = NoOne]
                 ELSE sensor
    /\ call' = [call EXCEPT ![d] = NoCall]
    /\ UNCHANGED <<backendVars, inbox, pending, enroll, historyVars>>

-----------------------------------------------------------------------------
(* What goes wrong, at most MaxFaults times. *)

Fault == faults < MaxFaults /\ faults' = faults + 1
SameHistory == UNCHANGED <<misbooked, started, removed, crossed, undercut, overrun>>

\* The terminal is off-line (clean session): the command is gone.
LoseCommand(d) ==
    /\ Fault /\ inbox[d] # <<>> /\ Consume(d)
    /\ SameHistory /\ UNCHANGED <<backendVars, deviceVars, repeated>>

\* QoS 1: a publish that was forwarded but not acknowledged before the
\* connection broke is sent, and forwarded, again.
RepeatCommand(d, j) ==
    /\ Fault /\ j \in unsent[d]
    /\ inbox' = [inbox EXCEPT ![d] = Append(@, CommandOf(j))]
    /\ repeated' = IF j.cmd = "ENROLL" THEN [repeated EXCEPT ![j.emp] = @ + 1] ELSE repeated
    /\ SameHistory /\ UNCHANGED <<backendVars, deviceVars>>

RepeatSync(d) ==
    /\ Fault /\ Publishing(d) /\ Broadcast(d)
    /\ repeated' = [repeated EXCEPT ![request[d].finger] = @ + 1]
    /\ SameHistory /\ UNCHANGED <<backendVars, deviceVars>>

\* mqttService.publish rejects: the handler reports or logs it, and what it
\* wrote before stays.
PublishCommandFails(d, j) ==
    /\ Fault /\ j \in unsent[d]
    /\ unsent' = [unsent EXCEPT ![d] = @ \ {j}]
    /\ SameHistory /\ UNCHANGED <<template, mapping, intent, request, inbox, deviceVars, repeated>>

PublishSyncFails(d) ==
    /\ Fault /\ Publishing(d)
    /\ Finish(d, "fail")
    /\ SameHistory
    /\ UNCHANGED <<template, mapping, intent, unsent, inbox, sensor, pending, enroll, repeated>>

\* The request never reaches the backend.
LoseRequest(d) ==
    /\ Fault /\ request[d].kind # "none" /\ request[d].step = "received"
    /\ Finish(d, "fail")
    /\ SameHistory
    /\ UNCHANGED <<template, mapping, intent, unsent, inbox, sensor, pending, enroll, repeated>>

\* HTTP timeout or lost answer: the backend carries on without the caller.
GiveUp(d) ==
    /\ Fault /\ call[d].kind # "none" /\ call[d].answer # "fail"
    /\ call' = [call EXCEPT ![d].answer = "fail"]
    /\ SameHistory /\ UNCHANGED <<backendVars, inbox, sensor, pending, enroll, repeated>>

\* FINGERPRINT_CACHE_TTL_MS
ExpireIntent(d) ==
    /\ Fault /\ intent[d] # NoOne
    /\ intent' = [intent EXCEPT ![d] = NoOne]
    /\ SameHistory /\ UNCHANGED <<template, mapping, request, unsent, inbox, deviceVars, repeated>>

\* kEnrollTimeoutMs, a bad image or two different fingers.
EnrollFails(d) ==
    /\ Fault /\ Idle(d) /\ enroll[d].state \in {"FIND_EMPTY_SLOT", "WAIT_FINGER"}
    /\ enroll' = [enroll EXCEPT ![d].state = "RESULT"]
    /\ SameHistory /\ UNCHANGED <<backendVars, inbox, sensor, pending, call, repeated>>

-----------------------------------------------------------------------------
Backend(d) ==
    \/ HandleMapping(d) \/ ReadIntent(d) \/ WriteTemplate(d) \/ WriteMapping(d)
    \/ ClearIntent(d) \/ PublishSync(d) \/ HandleCheckin(d)

\* Everything the loop does of its own accord.
Loop(d) ==
    \/ ReceiveEnroll(d) \/ IgnoreSync(d) \/ StoreSync(d) \/ ReceiveDelete(d)
    \/ \E i \in Entries : RetryMapping(d, i)
    \/ MappingAnswered(d) \/ FingerAnswered(d) \/ CheckinAnswered(d)
    \/ FindSlot(d) \/ EnrollEnds(d)

\* What people do at the terminal.
AtSensor(d) == StoreFinger(d) \/ \E s \in Slots : ScanFinger(d, s)

Manager ==
    \/ \E d \in Devices, e \in Employees : StartEnroll(d, e)
    \/ \E e \in Employees : RemoveFingerprint(e)

Faults ==
    \E d \in Devices :
      \/ LoseCommand(d) \/ LoseRequest(d) \/ GiveUp(d) \/ ExpireIntent(d)
      \/ RepeatSync(d) \/ PublishSyncFails(d) \/ EnrollFails(d)
      \/ \E j \in unsent[d] : RepeatCommand(d, j) \/ PublishCommandFails(d, j)

\* The handlers whose commands are on their way to the broker.
Publish(d) == \E j \in unsent[d] : PublishCommand(d, j)

Next ==
    \/ \E d \in Devices : Backend(d) \/ Publish(d) \/ Loop(d) \/ AtSensor(d)
    \/ Manager
    \/ Faults

Spec == Init /\ [][Next]_vars

Receive(d) == ReceiveEnroll(d) \/ IgnoreSync(d) \/ StoreSync(d) \/ ReceiveDelete(d)
Answer(d) == MappingAnswered(d) \/ FingerAnswered(d) \/ CheckinAnswered(d)

\* The backend always goes on.  Every iteration of the loop polls MQTT and
\* the retry queue before it looks at the sensor, so scans cannot starve
\* them: strong fairness, because a blocked loop disables both for a while.
Fairness ==
    \A d \in Devices :
      /\ WF_vars(Backend(d)) /\ WF_vars(Publish(d)) /\ WF_vars(Answer(d))
      /\ SF_vars(Receive(d)) /\ SF_vars(\E i \in Entries : RetryMapping(d, i))

FairSpec == Spec /\ Fairness

-----------------------------------------------------------------------------
(* Properties. *)

\* credentials.service.ts caches the intent "so we know WHO is enrolling on
\* THIS device": an employee's master template is their own finger, whatever
\* is lost, delayed or repeated, left-over intents and other terminals'
\* enrolments included, as long as the manager starts an enrolment only when
\* the previous one at that terminal is over.
SequentialEnrolmentIsOwn == overrun \/ \A e \in Employees : template[e] \in {NoOne, e}

\* One enrolment puts at most one copy of a finger on a terminal, although
\* the source terminal receives its own broadcast and callbacks are retried.
\* Each command that the broker forwards once more may add one.
Copies(d, p) == Cardinality({s \in Slots : sensor[d][s] = p})
OneCopyPerEnrolment == \A d \in Devices, p \in Employees : Copies(d, p) <= started[p] + repeated[p]

\* What a sensor holds is explained by the enrolments, within its slots.
SlotsAreExplained == TypeOK /\ OneCopyPerEnrolment

\* Nothing failed, and the manager waited: an enrolment was started when
\* nothing was unfinished, a removal when no enrolment was.
Undisturbed == ~crossed /\ ~undercut /\ faults = 0

\* Undisturbed, a mapped slot holds its employee's finger.  (A DELETE_FINGER
\* that arrives after a ghost clean-up freed the slot and a new enrolment took
\* it empties the new owner's slot.)
MappedSlotHoldsOwner ==
    \A d \in Devices, e \in Employees :
      Undisturbed /\ mapping[d][e] # 0 => sensor[d][mapping[d][e]] = e

\* Undisturbed, an accepted scan is booked on the employee whose finger it
\* was.  (The emptied slot is the next enrolment's, and still mapped.)
ScanIsBookedOnItsOwner == Undisturbed => misbooked = {}

\* Undisturbed, fingers stay with their owners: in the mappings and in what
\* is booked, live enrolments, removals, callbacks and scans in any order.
FingersStayWithOwners == MappedSlotHoldsOwner /\ ScanIsBookedOnItsOwner

\* A pending callback is always resolved, by success or by roll-back.
CallbackResolved ==
    \A d \in Devices, i \in Entries :
      (pending[d][i] # NoEntry) ~> (pending[d][i] = NoEntry)

\* An enrolled employee is eventually mapped on every terminal, unless the
\* enrolment was crossed or undone or a fault interfered.
EnrolmentSpreads ==
    \A d \in Devices, e \in Employees :
      (template[e] # NoOne) ~>
        (mapping[d][e] # 0 \/ crossed \/ e \in removed \/ faults > 0 \/ FreeSlots(d) = {})
=============================================================================
