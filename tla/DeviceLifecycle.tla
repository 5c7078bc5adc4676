-------------------------- MODULE DeviceLifecycle --------------------------
(***************************************************************************)
(* One terminal from its first heartbeat to its removal: DevicesService on *)
(* the backend, with every await of a heartbeat and every fire-and-forget  *)
(* command a step of its own, and on the terminal the main loop, which     *)
(* blocks while a registration is on its way, the mailbox of commands, the *)
(* gates between enrolment, bulk synchronisation and the clearing of the   *)
(* sensor, restarts and the configuration portal.                          *)
(***************************************************************************)
EXTENDS Naturals, Sequences

CONSTANTS
    Calls,        \* registration requests the backend may hold at once
    Managers,     \* requests of managers that may be open at once
    NoCall,       \* the terminal waits for no answer
    MaxChanges,   \* bound on the operations of managers
    MaxFaults     \* bound on lost answers, connections, sensors and restarts

ASSUME CallsAssumption == NoCall \notin Calls
ASSUME BoundsAssumption == MaxChanges \in Nat /\ MaxFaults \in Nat

VARIABLES
    row,       \* the Device row: status ("NONE" before it exists) and name
    rename,    \* history: a manager's rename, quiet or overlapped by a heartbeat
    call,      \* registerHeartbeat, one record per request
    mgr,       \* update, remove and the command endpoints, one record each
    changes,   \* operations of managers so far
    faults,
    mode,      \* the terminal: "boot", "run" or "portal"
    up,        \* its MQTT session
    inbox,     \* commands on their way to it, in order
    waiting,   \* the request its loop is blocked on
    stage,     \* where in the loop that request was sent
    t,         \* what the terminal keeps in memory
    wired,     \* the sensor answers
    sensor     \* what the sensor holds

backend == <<row, rename, call, mgr, changes>>
terminal == <<mode, up, inbox, waiting, stage, t, sensor>>
vars == <<row, rename, call, mgr, changes, faults, mode, up, inbox, waiting, stage, t, wired, sensor>>

Status == {"ACTIVE", "INACTIVE", "MAINTENANCE"}
Answer == Status \cup {"error", "denied"}
Message == [kind: {"STATUS_UPDATE"}, status: Status]
             \cup [kind: {"ENROLL", "BULK", "CLEAR"}, status: {"none"}]

Idle == [pc |-> "idle", status |-> "NONE", name |-> "own"]
Quiet == [pc |-> "idle", out |-> <<>>]

\* App and its services after a restart; the sensor keeps its templates.
Fresh == [reg |-> "PENDING", remote |-> "UNKNOWN", box |-> "none", enroll |-> FALSE,
          bulk |-> FALSE, clear |-> FALSE, session |-> "none", syncing |-> FALSE, ready |-> FALSE]

Row == [status: {"NONE"} \cup Status, name: {"own", "renamed"}]
Request == [pc: {"idle", "received", "create", "update", "answered"},
            status: {"NONE"} \cup Answer, name: {"own", "renamed"}]
Operation == [pc: {"idle", "remove", "publish"}, out: Seq(Message)]
Memory == [reg: {"PENDING", "FAILED", "SUCCESS"}, remote: {"UNKNOWN"} \cup Status,
           box: {"none"} \cup Status, enroll: BOOLEAN, bulk: BOOLEAN, clear: BOOLEAN,
           session: {"none", "running", "result"}, syncing: BOOLEAN, ready: BOOLEAN]

TypeOK ==
    /\ row \in Row
    /\ rename \in {"no", "quiet", "raced"}
    /\ call \in [Calls -> Request] /\ mgr \in [Managers -> Operation]
    /\ changes \in 0..MaxChanges /\ faults \in 0..MaxFaults
    /\ mode \in {"boot", "run", "portal"} /\ up \in BOOLEAN
    /\ inbox \in Seq(Message)
    /\ waiting \in Calls \cup {NoCall}
    /\ stage \in {"boot", "retry", "beat"}
    /\ t \in Memory
    /\ wired \in BOOLEAN /\ sensor \in {"empty", "used"}

Init ==
    /\ row = [status |-> "NONE", name |-> "own"] /\ rename = "no"
    /\ call = [c \in Calls |-> Idle] /\ mgr = [m \in Managers |-> Quiet]
    /\ changes = 0 /\ faults = 0
    /\ mode = "boot" /\ up = FALSE /\ inbox = <<>>
    /\ waiting = NoCall /\ stage = "boot" /\ t = Fresh
    /\ wired = TRUE /\ sensor = "empty"

Fault == faults < MaxFaults /\ faults' = faults + 1

-----------------------------------------------------------------------------
(* registerHeartbeat on the backend. *)

ReadRow(c) ==
    /\ call[c].pc = "received"
    /\ call' = [call EXCEPT ![c] =
         CASE row.status = "NONE"   -> [@ EXCEPT !.pc = "create"]
           [] row.status = "ACTIVE" -> [@ EXCEPT !.pc = "update", !.name = row.name]
           [] OTHER                 -> [@ EXCEPT !.pc = "answered", !.status = row.status]]
    /\ UNCHANGED <<row, rename, mgr, changes, faults, wired, terminal>>

\* mac_addr is unique: of two first heartbeats one creates the row.
CreateRow(c) ==
    /\ call[c].pc = "create"
    /\ IF row.status = "NONE"
         THEN /\ row' = [status |-> "ACTIVE", name |-> "own"]
              /\ call' = [call EXCEPT ![c].pc = "answered", ![c].status = "ACTIVE"]
         ELSE call' = [call EXCEPT ![c].pc = "answered", ![c].status = "error"] /\ UNCHANGED row
    /\ UNCHANGED <<rename, mgr, changes, faults, wired, terminal>>

\* The update writes the name the earlier read found and nothing else; its
\* answer is the row as it is then.
AsReadEarlier(c) == [status |-> "ACTIVE", name |-> call[c].name]
Refreshed(c) == [row EXCEPT !.name = call[c].name]

UpdateName(c) ==
    /\ call[c].pc = "update"
    /\ row' = Refreshed(c)
    /\ call' = [call EXCEPT ![c].pc = "answered", ![c].status = row.status]
    /\ UNCHANGED <<rename, mgr, changes, faults, wired, terminal>>

\* A query fails, or the answer comes from a server that denies the request.
SpoilCall(c) ==
    /\ call[c].pc \in {"received", "create", "update"} /\ Fault
    /\ \E a \in {"error", "denied"} :
         call' = [call EXCEPT ![c].pc = "answered", ![c].status = a]
    /\ UNCHANGED <<row, rename, mgr, changes, wired, terminal>>

\* Nobody waits for the answer any more.
DropAnswer(c) ==
    /\ call[c].pc = "answered" /\ waiting # c
    /\ call' = [call EXCEPT ![c] = Idle]
    /\ UNCHANGED <<row, rename, mgr, changes, faults, wired, terminal>>

-----------------------------------------------------------------------------
(* Managers. *)

Open(m) ==
    /\ mgr[m].pc = "idle" /\ row.status # "NONE"
    /\ changes < MaxChanges /\ changes' = changes + 1

\* update with a status: the new status is published once the row is written.
SetStatus(m, s) ==
    /\ Open(m)
    /\ row' = [row EXCEPT !.status = s]
    /\ mgr' = [mgr EXCEPT ![m] = [pc |-> "publish",
                                  out |-> <<[kind |-> "STATUS_UPDATE", status |-> s]>>]]
    /\ UNCHANGED <<rename, call, faults, wired, terminal>>

\* update with a name only: nothing is published.
Rename(m) ==
    /\ Open(m) /\ rename = "no"
    /\ row' = [row EXCEPT !.name = "renamed"]
    /\ rename' = IF \E c \in Calls : call[c].pc = "update" THEN "raced" ELSE "quiet"
    /\ UNCHANGED <<call, mgr, faults, wired, terminal>>

\* remove: a device that was read as INACTIVE is left as it is.
ReadForRemoval(m) ==
    /\ Open(m) /\ row.status # "INACTIVE"
    /\ mgr' = [mgr EXCEPT ![m].pc = "remove"]
    /\ UNCHANGED <<row, rename, call, faults, wired, terminal>>

Remove(m) ==
    /\ mgr[m].pc = "remove"
    /\ row' = [row EXCEPT !.status = "INACTIVE"]
    /\ mgr' = [mgr EXCEPT ![m] = [pc |-> "publish", out |->
                 <<[kind |-> "STATUS_UPDATE", status |-> "INACTIVE"], [kind |-> "CLEAR", status |-> "none"]>>]]
    /\ UNCHANGED <<rename, call, changes, faults, wired, terminal>>

\* triggerBulkSync wants an ACTIVE device, startFingerprintEnroll does not.
Command(m, k) ==
    /\ Open(m) /\ (k = "BULK" => row.status = "ACTIVE")
    /\ mgr' = [mgr EXCEPT ![m] = [pc |-> "publish", out |-> <<[kind |-> k, status |-> "none"]>>]]
    /\ UNCHANGED <<row, rename, call, faults, wired, terminal>>

\* The broker keeps nothing for a terminal without a session.
Publish(m) ==
    /\ mgr[m].pc = "publish"
    /\ inbox' = IF up THEN Append(inbox, Head(mgr[m].out)) ELSE inbox
    /\ mgr' = [mgr EXCEPT ![m] = IF Len(@.out) = 1 THEN Quiet ELSE [@ EXCEPT !.out = Tail(mgr[m].out)]]
    /\ UNCHANGED <<row, rename, call, changes, faults, mode, up, waiting, stage, t, sensor, wired>>

-----------------------------------------------------------------------------
(* One pass of App::tick, as functions on the terminal's memory. *)

\* driver_.loop() reads one message: one mailbox slot per kind, a newer
\* command replaces the one that waits there.
Received(u) ==
    IF inbox = <<>> THEN u ELSE
    LET m == Head(inbox) IN
    CASE m.kind = "STATUS_UPDATE" -> [u EXCEPT !.box = m.status]
      [] m.kind = "ENROLL"        -> [u EXCEPT !.enroll = TRUE]
      [] m.kind = "BULK"          -> [u EXCEPT !.bulk = TRUE]
      [] m.kind = "CLEAR"         -> [u EXCEPT !.clear = TRUE]

AfterStatus(u) == IF u.box = "none" THEN u ELSE [u EXCEPT !.remote = u.box, !.box = "none"]
AfterSensor(u) == [u EXCEPT !.ready = @ \/ wired]

\* startIfAllowed: a sensor that does not answer fails the enrolment before
\* the device's status is looked at.
AfterEnroll(u) ==
    CASE ~u.enroll             -> u
      [] u.enroll /\ ~wired    -> [u EXCEPT !.enroll = FALSE, !.ready = FALSE, !.session = "result"]
      [] OTHER                 -> [u EXCEPT !.enroll = FALSE, !.ready = TRUE,
                                   !.session = IF u.remote = "ACTIVE" THEN "running" ELSE @]

AfterBulk(u) == [u EXCEPT !.bulk = FALSE, !.syncing = @ \/ u.bulk]

\* CLEAR_FINGERPRINT_DATABASE waits for enrolment and bulk synchronisation.
OnlyWhileActive(u) == u.clear /\ u.session = "none" /\ ~u.syncing /\ u.remote = "ACTIVE"
ClearRuns(u) == u.clear /\ u.session = "none" /\ ~u.syncing
AfterClear(u) == IF ClearRuns(u) THEN [u EXCEPT !.clear = FALSE, !.ready = @ \/ wired] ELSE u
Emptied(u) == ClearRuns(u) /\ wired   \* whatever its readiness was found to be

\* The lower part of a pass, from the sensor check on.
Rest(u) ==
    LET v == AfterBulk(AfterEnroll(AfterSensor(u)))
    IN  /\ t' = AfterClear(v)
        /\ sensor' = IF Emptied(v) THEN "empty" ELSE sensor

CheckinAllowed == t.reg = "SUCCESS" /\ t.remote = "ACTIVE" /\ t.session = "none" /\ ~t.syncing /\ t.ready

Looping == mode = "run" /\ waiting = NoCall
NextInbox == IF inbox = <<>> THEN <<>> ELSE Tail(inbox)

\* A pass that sends no registration.
QuietPass ==
    /\ Looping
    /\ inbox' = NextInbox
    /\ Rest(AfterStatus(Received(t)))
    /\ UNCHANGED <<mode, up, waiting, stage, backend, faults, wired>>

Send(s) ==
    \E c \in Calls :
      /\ call[c].pc = "idle"
      /\ call' = [call EXCEPT ![c].pc = "received"]
      /\ waiting' = c /\ stage' = s

\* A FAILED registration is retried before the pending status is applied...
RetryPass ==
    /\ Looping /\ t.reg = "FAILED"
    /\ inbox' = NextInbox /\ t' = Received(t)
    /\ Send("retry")
    /\ UNCHANGED <<row, rename, mgr, changes, faults, mode, up, sensor, wired>>

\* ... and the heartbeat of a registered terminal is sent after it.
NeverBeat == FALSE
BeatDue == t.reg = "SUCCESS"
RegisterLate ==
    /\ inbox' = NextInbox /\ t' = AfterSensor(AfterStatus(Received(t)))
    /\ Send("beat")
    /\ UNCHANGED <<row, rename, mgr, changes, faults, mode, up, sensor, wired>>
BeatPass == Looping /\ BeatDue /\ RegisterLate

\* A short press of BOOT retries a FAILED registration, at that place too.
ShortPress == Looping /\ t.reg = "FAILED" /\ RegisterLate

\* runNow with its answer, and what is left of the pass.
AnyAnswer(u, a) == [u EXCEPT !.reg = "SUCCESS", !.remote = a]
Registered(u, a) ==
    IF a = "error" THEN [u EXCEPT !.reg = "FAILED", !.remote = "UNKNOWN"]
                   ELSE [u EXCEPT !.reg = "SUCCESS", !.remote = a]

Resume(a) ==
    LET u == Registered(t, a) IN
    CASE stage = "boot"  -> t' = u /\ UNCHANGED sensor
      [] stage = "retry" -> Rest(AfterStatus(u))
      [] stage = "beat"  -> Rest(u)

TakeAnswer ==
    /\ waiting # NoCall /\ call[waiting].pc = "answered" /\ call[waiting].status # "denied"
    /\ Resume(call[waiting].status)
    /\ call' = [call EXCEPT ![waiting] = Idle]
    /\ waiting' = NoCall
    /\ UNCHANGED <<row, rename, mgr, changes, faults, mode, up, inbox, stage, wired>>

\* The HTTP client gives up; the backend goes on.
GiveUp ==
    /\ waiting # NoCall /\ Fault
    /\ Resume("error")
    /\ waiting' = NoCall
    /\ UNCHANGED <<backend, mode, up, inbox, stage, wired>>

-----------------------------------------------------------------------------
(* EnrollmentService::tick and the end of a bulk synchronisation. *)

EnrollTicked == Looping /\ t.reg = "SUCCESS" /\ t.remote = "ACTIVE"

\* The second finger is stored and announced, or the session fails or times out.
EndEnroll ==
    /\ EnrollTicked /\ t.session = "running"
    /\ t' = [t EXCEPT !.session = "result"]
    /\ sensor' \in {sensor, "used"}
    /\ UNCHANGED <<mode, up, inbox, waiting, stage, backend, faults, wired>>

NeverHidden == FALSE
ResultShown == t.session = "result"
HideResult ==
    /\ EnrollTicked /\ ResultShown
    /\ t' = [t EXCEPT !.session = "none"]
    /\ UNCHANGED <<mode, up, inbox, waiting, stage, sensor, backend, faults, wired>>

\* Pages of templates are stored until nobody is left, which nothing bounds in
\* time: with a full sensor, or one that stores nothing, this never comes.
EndBulk ==
    /\ Looping /\ t.syncing
    /\ t' = [t EXCEPT !.syncing = FALSE] /\ sensor' \in {sensor, "used"}
    /\ UNCHANGED <<mode, up, inbox, waiting, stage, backend, faults, wired>>

-----------------------------------------------------------------------------
(* Connections, restarts, portal. *)

\* begin(): the sensor, Wi-Fi, MQTT, then the first registration.  Cleared
\* settings come back as valid defaults.
Boot ==
    /\ mode = "boot"
    /\ mode' = "run" /\ up' \in BOOLEAN
    /\ inbox' = <<>> /\ sensor' = sensor
    /\ t' = [Fresh EXCEPT !.ready = wired]
    /\ Send("boot")
    /\ UNCHANGED <<row, rename, mgr, changes, faults, wired>>

Restart ==
    /\ mode' = "boot" /\ up' = FALSE /\ inbox' = <<>> /\ waiting' = NoCall
    /\ t' = Fresh /\ UNCHANGED <<stage, sensor>>

PowerCut == mode = "run" /\ Fault /\ Restart /\ UNCHANGED <<backend, wired>>

\* 403 or 404: performRemoteWipeAndReboot.
RemoteWipe ==
    /\ waiting # NoCall /\ call[waiting].pc = "answered" /\ call[waiting].status = "denied"
    /\ call' = [call EXCEPT ![waiting] = Idle]
    /\ Restart
    /\ UNCHANGED <<row, rename, mgr, changes, faults, wired>>

\* The BOOT button held: the backend is told, or not, and settings are cleared.
FactoryReset ==
    /\ Looping /\ Fault
    /\ row' \in {row, [row EXCEPT !.status = IF @ = "NONE" THEN @ ELSE "INACTIVE"]}
    /\ Restart
    /\ UNCHANGED <<rename, call, mgr, changes, wired>>

\* No network, at the start or later: the configuration portal is opened.
LoseWifi ==
    /\ Looping \/ mode = "boot"
    /\ Fault
    /\ mode' = "portal" /\ up' = FALSE /\ inbox' = <<>> /\ t' = Fresh
    /\ UNCHANGED <<waiting, stage, sensor, backend, wired>>

\* The saved network is seen again, or new settings are saved.
LeavePortal == mode = "portal" /\ Restart /\ UNCHANGED <<backend, faults, wired>>

LoseMqtt ==
    /\ up /\ Fault
    /\ up' = FALSE /\ inbox' = <<>>
    /\ UNCHANGED <<mode, waiting, stage, t, sensor, backend, wired>>

ConnectMqtt ==
    /\ Looping /\ ~up
    /\ up' = TRUE
    /\ UNCHANGED <<mode, inbox, waiting, stage, t, sensor, backend, faults, wired>>

Unplug == wired /\ Fault /\ wired' = FALSE /\ UNCHANGED <<backend, terminal>>
Replug == ~wired /\ wired' = TRUE /\ UNCHANGED <<backend, faults, terminal>>

-----------------------------------------------------------------------------
Heartbeat(c) == ReadRow(c) \/ CreateRow(c) \/ UpdateName(c) \/ DropAnswer(c)
Manage(m) ==
    \/ \E s \in Status : SetStatus(m, s)
    \/ Rename(m) \/ ReadForRemoval(m)
    \/ \E k \in {"ENROLL", "BULK"} : Command(m, k)
Finish(m) == Remove(m) \/ Publish(m)

Next ==
    \/ \E c \in Calls : Heartbeat(c) \/ SpoilCall(c)
    \/ \E m \in Managers : Manage(m) \/ Finish(m)
    \/ QuietPass \/ RetryPass \/ BeatPass \/ ShortPress \/ TakeAnswer \/ GiveUp
    \/ EndEnroll \/ HideResult \/ EndBulk
    \/ Boot \/ PowerCut \/ RemoteWipe \/ FactoryReset \/ LoseWifi \/ LeavePortal
    \/ LoseMqtt \/ ConnectMqtt \/ Unplug \/ Replug

Spec == Init /\ [][Next]_vars

LoopOn == Boot \/ LeavePortal \/ TakeAnswer \/ RemoteWipe
TimedPass == RetryPass \/ BeatPass
TimedEnd == EndEnroll \/ HideResult

\* Node runs its handlers on.  The terminal boots, takes answers and sends a
\* registration when it is due; an enrolment times out and its result is hidden
\* although registrations keep the loop busy in between.  A bulk synchronisation
\* may go on for ever.
FairSpec ==
    /\ Spec
    /\ \A c \in Calls : WF_vars(Heartbeat(c))
    /\ \A m \in Managers : WF_vars(Finish(m))
    /\ WF_vars(LoopOn) /\ WF_vars(TimedPass) /\ SF_vars(TimedEnd)

-----------------------------------------------------------------------------
(* Properties. *)

\* registerHeartbeat never gives an existing device another status, however
\* old the row it has read: a removed or suspended device stays so until a
\* manager or a factory reset changes it.
RemovalSticks ==
    [][row.status # "NONE" /\ call' # call => row'.status = row.status]_vars

\* A manager's rename that no heartbeat overlapped is never undone by one.
QuietRenameSticks == rename = "quiet" => row.name = "renamed"

\* Heartbeats, of any age and number, undo no decision of a manager.
HeartbeatsKeepDecisions == []QuietRenameSticks /\ RemovalSticks

\* The terminal comes back from failures, restarts and lost or late commands
\* with the status the backend holds, and stays with it.
FollowsBackend == <>[](t.reg = "SUCCESS" /\ t.remote = row.status)

Frozen == t.session # "none" /\ t.remote # "ACTIVE"
SyncsForEver == <>[]t.syncing

\* A CLEAR_FINGERPRINT_DATABASE leaves the mailbox by emptying the sensor, or
\* because there is no sensor, or with everything else in a restart; and it does
\* leave, unless a bulk synchronisation never ends or the command waits behind
\* an enrolment that the status before it has frozen: its timeout is not ticked.
PendingClearRuns ==
    /\ [][t.clear /\ ~t'.clear => sensor' = "empty" \/ ~wired \/ mode' # "run"]_vars
    /\ SyncsForEver \/ (t.clear ~> (~t.clear \/ Frozen))

\* A terminal that is ACTIVE again and has its sensor takes scans again,
\* whatever it was doing when the trouble began, a bulk synchronisation that
\* never ends apart.
BackInService == <>[](row.status = "ACTIVE" /\ wired) => SyncsForEver \/ <>[]CheckinAllowed
=============================================================================
