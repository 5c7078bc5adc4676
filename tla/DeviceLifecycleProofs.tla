----------------------- MODULE DeviceLifecycleProofs -----------------------
(***************************************************************************)
(* Theorems about DeviceLifecycle, for any number of requests, managers,   *)
(* changes and faults.                                                     *)
(***************************************************************************)
EXTENDS DeviceLifecycle, SequenceTheorems, TLAPS

\* A manager that publishes has something to publish.
PublishHasOutput == \A m \in Managers : mgr[m].pc = "publish" => mgr[m].out # <<>>

\* Why a quiet rename sticks: the row exists for good, and each heartbeat
\* that is about to write a name has read the new one.
RenameWasSeen ==
    /\ rename # "no" => row.status # "NONE"
    /\ rename = "quiet" =>
         /\ row.name = "renamed"
         /\ \A c \in Calls : call[c].pc = "update" => call[c].name = "renamed"

\* A request that found the row leaves with a status of its own.
AnswersCarryStatus ==
    \A c \in Calls : /\ call[c].pc = "answered" => call[c].status # "NONE"
                     /\ call[c].pc = "update" => row.status # "NONE"

IInv == TypeOK /\ PublishHasOutput /\ RenameWasSeen /\ AnswersCarryStatus

-----------------------------------------------------------------------------
(* The steps of one pass keep the terminal's memory well typed. *)

LEMMA PassTypes ==
  ASSUME NEW u \in Memory, wired \in BOOLEAN, inbox \in Seq(Message)
  PROVE  /\ Received(u) \in Memory
         /\ AfterStatus(u) \in Memory
         /\ AfterSensor(u) \in Memory
         /\ AfterEnroll(u) \in Memory
         /\ AfterBulk(u) \in Memory
         /\ AfterClear(u) \in Memory
<1>1. Received(u) \in Memory
  <2>1. CASE inbox = <<>>
    BY <2>1 DEF Received
  <2>2. CASE inbox # <<>>
    <3>1. Head(inbox) \in Message
      BY <2>2
    <3>2. QED
      BY <2>2, <3>1 DEF Received, Memory, Message
  <2>3. QED
    BY <2>1, <2>2
<1>2. AfterStatus(u) \in Memory
  BY DEF AfterStatus, Memory
<1>3. AfterSensor(u) \in Memory
  BY DEF AfterSensor, Memory
<1>4. AfterEnroll(u) \in Memory
  BY DEF AfterEnroll, Memory
<1>5. AfterBulk(u) \in Memory
  BY DEF AfterBulk, Memory
<1>6. AfterClear(u) \in Memory
  BY DEF AfterClear, Memory
<1>7. QED
  BY <1>1, <1>2, <1>3, <1>4, <1>5, <1>6

LEMMA RestTypes ==
  ASSUME NEW u \in Memory, TypeOK, Rest(u)
  PROVE  t' \in Memory /\ sensor' \in {"empty", "used"}
<1>1. wired \in BOOLEAN /\ inbox \in Seq(Message)
  BY DEF TypeOK
<1> DEFINE v == AfterBulk(AfterEnroll(AfterSensor(u)))
<1>2. v \in Memory
  BY <1>1, PassTypes
<1>3. t' = AfterClear(v) /\ sensor' \in {"empty", sensor}
  BY DEF Rest
<1>4. QED
  BY <1>1, <1>2, <1>3, PassTypes DEF TypeOK

LEMMA RegisteredTypes ==
  ASSUME NEW u \in Memory, NEW a \in Status \cup {"error"}
  PROVE  Registered(u, a) \in Memory
BY DEF Registered, Memory, Status

LEMMA ResumeTypes ==
  ASSUME TypeOK, NEW a \in Status \cup {"error"}, Resume(a)
  PROVE  t' \in Memory /\ sensor' \in {"empty", "used"}
<1> DEFINE u == Registered(t, a)
<1>1. u \in Memory
  BY RegisteredTypes DEF TypeOK
<1>2. AfterStatus(u) \in Memory
  BY <1>1, PassTypes DEF TypeOK
<1>3. CASE stage = "boot"
  BY <1>1, <1>3 DEF Resume, TypeOK
<1>4. CASE stage = "retry"
  <2>1. Rest(AfterStatus(u))
    BY <1>4 DEF Resume
  <2>2. QED
    BY <1>2, <2>1, RestTypes
<1>5. CASE stage = "beat"
  <2>1. Rest(u)
    BY <1>5 DEF Resume
  <2>2. QED
    BY <1>1, <2>1, RestTypes
<1>6. QED
  BY <1>3, <1>4, <1>5 DEF TypeOK

LEMMA NextInboxType ==
  ASSUME inbox \in Seq(Message)
  PROVE  NextInbox \in Seq(Message)
BY DEF NextInbox

-----------------------------------------------------------------------------
LEMMA InitHolds == Init => IInv
<1> SUFFICES ASSUME Init PROVE IInv
  OBVIOUS
<1>1. Idle \in Request /\ row \in Row /\ t \in Memory
  BY DEF Init, Idle, Request, Row, Fresh, Memory, Answer, Status
<1>2. Quiet \in Operation
  BY DEF Quiet, Operation
<1>3. call \in [Calls -> Request] /\ mgr \in [Managers -> Operation]
  BY <1>1, <1>2 DEF Init
<1>4. inbox \in Seq(Message)
  BY DEF Init
<1>5. changes \in 0..MaxChanges /\ faults \in 0..MaxFaults
  BY BoundsAssumption DEF BoundsAssumption, Init
<1>6. /\ rename \in {"no", "quiet", "raced"} /\ mode \in {"boot", "run", "portal"}
      /\ up \in BOOLEAN /\ waiting \in Calls \cup {NoCall} /\ stage \in {"boot", "retry", "beat"}
      /\ wired \in BOOLEAN /\ sensor \in {"empty", "used"}
  BY DEF Init
<1>7. TypeOK
  BY <1>1, <1>3, <1>4, <1>5, <1>6 DEF TypeOK
<1>8. QED
  BY <1>7 DEF Init, IInv, PublishHasOutput, RenameWasSeen, AnswersCarryStatus, Idle, Quiet

\* A step that changes one heartbeat, and of the row at most its name.
LEMMA OneRequest ==
  ASSUME IInv, NEW c \in Calls, NEW e \in Request,
         call' = [call EXCEPT ![c] = e],
         row' \in Row, row.status # "NONE" => row'.status = row.status,
         e.pc = "answered" => e.status # "NONE",
         e.pc = "update" => e.name = row.name /\ row.status # "NONE",
         \/ row' = row
         \/ row.status = "NONE"
         \/ rename = "quiet" => row'.name = "renamed",
         faults' \in 0..MaxFaults,
         UNCHANGED <<rename, mgr, changes, wired, terminal>>
  PROVE  IInv'
<1>1. call' \in [Calls -> Request] /\ call'[c] = e
      /\ \A d \in Calls : d # c => call'[d] = call[d]
  BY DEF IInv, TypeOK
<1>2. TypeOK'
  BY <1>1 DEF IInv, TypeOK, terminal
<1>3. PublishHasOutput'
  BY DEF IInv, PublishHasOutput
<1>4. RenameWasSeen'
  <2>1. row'.status # "NONE" \/ rename = "no"
    BY DEF IInv, RenameWasSeen
  <2>2. rename = "quiet" => row'.name = "renamed" /\ row.name = "renamed"
    BY DEF IInv, RenameWasSeen
  <2>3. QED
    BY <1>1, <2>1, <2>2 DEF IInv, RenameWasSeen
<1>5. AnswersCarryStatus'
  BY <1>1 DEF IInv, AnswersCarryStatus
<1>6. QED
  BY <1>2, <1>3, <1>4, <1>5 DEF IInv

\* The steps of registerHeartbeat.
LEMMA HeartbeatSteps ==
  ASSUME IInv, NEW c \in Calls, Heartbeat(c) \/ SpoilCall(c)
  PROVE  IInv'
<1>1. call[c] \in Request /\ row \in Row /\ faults \in 0..MaxFaults
  BY DEF IInv, TypeOK
<1>2. CASE ReadRow(c)
  <2> DEFINE e == CASE row.status = "NONE"   -> [call[c] EXCEPT !.pc = "create"]
                    [] row.status = "ACTIVE" -> [call[c] EXCEPT !.pc = "update", !.name = row.name]
                    [] OTHER -> [call[c] EXCEPT !.pc = "answered", !.status = row.status]
  <2>1. e \in Request /\ (e.pc = "answered" => e.status # "NONE")
        /\ (e.pc = "update" => e.name = row.name /\ row.status # "NONE")
    BY <1>1 DEF Request, Row, Answer, Status
  <2>2. call' = [call EXCEPT ![c] = e] /\ row' = row /\ faults' = faults
        /\ UNCHANGED <<rename, mgr, changes, wired, terminal>>
    BY <1>2 DEF ReadRow
  <2>3. QED
    BY <1>1, <2>1, <2>2, OneRequest
<1>3. CASE CreateRow(c)
  <2> DEFINE a == IF row.status = "NONE" THEN "ACTIVE" ELSE "error"
             e == [call[c] EXCEPT !.pc = "answered", !.status = a]
  <2>1. e \in Request /\ e.pc = "answered" /\ e.status # "NONE"
    BY <1>1 DEF Request, Answer, Status
  <2>2. call' = [call EXCEPT ![c] = e]
    BY <1>1, <1>3 DEF CreateRow, Request, IInv, TypeOK
  <2>3. row' \in Row /\ (row.status # "NONE" => row' = row)
    BY <1>1, <1>3 DEF CreateRow, Row, Status
  <2>4. faults' = faults /\ UNCHANGED <<rename, mgr, changes, wired, terminal>>
    BY <1>3 DEF CreateRow
  <2>5. QED
    BY <1>1, <2>1, <2>2, <2>3, <2>4, OneRequest
<1>4. CASE UpdateName(c)
  <2> DEFINE e == [call[c] EXCEPT !.pc = "answered", !.status = row.status]
  <2>1. e \in Request /\ e.pc = "answered" /\ e.status = row.status /\ row.status # "NONE"
    BY <1>1, <1>4 DEF UpdateName, Request, Row, Answer, IInv, AnswersCarryStatus
  <2>2. call' = [call EXCEPT ![c] = e]
    BY <1>1, <1>4 DEF UpdateName, Request, IInv, TypeOK
  <2>3. row' \in Row /\ row'.status = row.status /\ row'.name = call[c].name
    BY <1>1, <1>4 DEF UpdateName, Refreshed, Row, Request
  <2>4. rename = "quiet" => row'.name = "renamed"
    BY <1>4, <2>3 DEF UpdateName, IInv, RenameWasSeen
  <2>5. faults' = faults /\ UNCHANGED <<rename, mgr, changes, wired, terminal>>
    BY <1>4 DEF UpdateName
  <2>6. QED
    BY <1>1, <2>1, <2>2, <2>3, <2>4, <2>5, OneRequest
<1>5. CASE DropAnswer(c)
  <2>1. Idle \in Request /\ Idle.pc = "idle"
    BY DEF Idle, Request
  <2>2. call' = [call EXCEPT ![c] = Idle] /\ row' = row /\ faults' = faults
        /\ UNCHANGED <<rename, mgr, changes, wired, terminal>>
    BY <1>5 DEF DropAnswer
  <2>3. QED
    BY <1>1, <2>1, <2>2, OneRequest
<1>6. CASE SpoilCall(c)
  <2>1. PICK a \in {"error", "denied"} :
          call' = [call EXCEPT ![c].pc = "answered", ![c].status = a]
    BY <1>6 DEF SpoilCall
  <2> DEFINE e == [call[c] EXCEPT !.pc = "answered", !.status = a]
  <2>2. e \in Request /\ e.pc = "answered" /\ e.status # "NONE"
    BY <1>1 DEF Request, Answer
  <2>3. call' = [call EXCEPT ![c] = e]
    BY <1>1, <2>1 DEF Request, IInv, TypeOK
  <2>4. faults' \in 0..MaxFaults /\ row' = row
        /\ UNCHANGED <<rename, mgr, changes, wired, terminal>>
    BY <1>1, <1>6, BoundsAssumption DEF SpoilCall, Fault
  <2>5. QED
    BY <1>1, <2>2, <2>3, <2>4, OneRequest
<1>7. QED
  BY <1>2, <1>3, <1>4, <1>5, <1>6 DEF Heartbeat

\* A step of one manager that leaves the heartbeats alone.
LEMMA OneOperation ==
  ASSUME IInv, NEW m \in Managers, NEW o \in Operation,
         mgr' = [mgr EXCEPT ![m] = o], o.pc = "publish" => o.out # <<>>,
         row' \in Row, row'.name = row.name, row.status # "NONE" => row'.status # "NONE",
         changes' \in 0..MaxChanges, inbox' \in Seq(Message),
         UNCHANGED <<rename, call, faults, mode, up, waiting, stage, t, sensor, wired>>
  PROVE  IInv'
<1>1. mgr' \in [Managers -> Operation] /\ mgr'[m] = o
      /\ \A n \in Managers : n # m => mgr'[n] = mgr[n]
  BY DEF IInv, TypeOK
<1>2. TypeOK'
  BY <1>1 DEF IInv, TypeOK
<1>3. PublishHasOutput'
  BY <1>1 DEF IInv, PublishHasOutput
<1>4. RenameWasSeen' /\ AnswersCarryStatus'
  BY DEF IInv, RenameWasSeen, AnswersCarryStatus
<1>5. QED
  BY <1>2, <1>3, <1>4 DEF IInv

\* The operations of managers and their publications.
LEMMA ManagerSteps ==
  ASSUME IInv, NEW m \in Managers, Manage(m) \/ Finish(m)
  PROVE  IInv'
<1>1. mgr[m] \in Operation /\ row \in Row /\ changes \in 0..MaxChanges /\ inbox \in Seq(Message)
  BY DEF IInv, TypeOK
<1>2. Open(m) => changes' \in 0..MaxChanges /\ row.status # "NONE"
  BY <1>1, BoundsAssumption DEF Open, BoundsAssumption
<1>3. ASSUME NEW s \in Status, SetStatus(m, s) PROVE IInv'
  <2> DEFINE o == [pc |-> "publish", out |-> <<[kind |-> "STATUS_UPDATE", status |-> s]>>]
  <2>1. [kind |-> "STATUS_UPDATE", status |-> s] \in Message
    BY DEF Message
  <2>2. o \in Operation /\ o.out # <<>>
    BY <2>1 DEF Operation
  <2>3. row' \in Row /\ row'.name = row.name /\ row'.status # "NONE"
    BY <1>1, <1>3 DEF SetStatus, Row, Status
  <2>4. mgr' = [mgr EXCEPT ![m] = o] /\ UNCHANGED <<rename, call, faults, wired, terminal>>
    BY <1>3 DEF SetStatus
  <2>5. changes' \in 0..MaxChanges
    BY <1>2, <1>3 DEF SetStatus
  <2> HIDE DEF o
  <2>6. QED
    BY <1>1, <2>2, <2>3, <2>4, <2>5, OneOperation DEF terminal
<1>4. CASE Rename(m)
  <2>1. row' \in Row /\ row'.name = "renamed" /\ row'.status = row.status
    BY <1>1, <1>4 DEF Rename, Row
  <2>2. changes' \in 0..MaxChanges /\ row.status # "NONE"
    BY <1>2, <1>4 DEF Rename
  <2>3. rename' \in {"raced", "quiet"}
        /\ (rename' = "quiet" => \A c \in Calls : call[c].pc # "update")
    BY <1>4 DEF Rename
  <2>4. UNCHANGED <<call, mgr, faults, wired, terminal>>
    BY <1>4 DEF Rename, Open
  <2>5. TypeOK'
    BY <2>1, <2>2, <2>3, <2>4 DEF IInv, TypeOK, terminal
  <2>6. PublishHasOutput' /\ RenameWasSeen' /\ AnswersCarryStatus'
    BY <2>1, <2>2, <2>3, <2>4 DEF IInv, PublishHasOutput, RenameWasSeen, AnswersCarryStatus
  <2>7. QED
    BY <2>5, <2>6 DEF IInv
<1>5. CASE ReadForRemoval(m)
  <2> DEFINE o == [mgr[m] EXCEPT !.pc = "remove"]
  <2>1. o \in Operation /\ o.pc = "remove"
    BY <1>1 DEF Operation
  <2>2. mgr' = [mgr EXCEPT ![m] = o]
    BY <1>1, <1>5 DEF ReadForRemoval
  <2>3. row' = row /\ changes' \in 0..MaxChanges /\ UNCHANGED <<rename, call, faults, wired, terminal>>
    BY <1>2, <1>5 DEF ReadForRemoval
  <2> HIDE DEF o
  <2>4. QED
    BY <1>1, <2>1, <2>2, <2>3, OneOperation DEF terminal
<1>6. CASE Remove(m)
  <2> DEFINE o == [pc |-> "publish", out |-> <<[kind |-> "STATUS_UPDATE", status |-> "INACTIVE"],
                                               [kind |-> "CLEAR", status |-> "none"]>>]
  <2>1. /\ [kind |-> "STATUS_UPDATE", status |-> "INACTIVE"] \in Message
        /\ [kind |-> "CLEAR", status |-> "none"] \in Message
    BY DEF Message, Status
  <2>2. o \in Operation /\ o.out # <<>>
    BY <2>1 DEF Operation
  <2>3. row' \in Row /\ row'.name = row.name /\ row'.status # "NONE"
    BY <1>1, <1>6 DEF Remove, Row, Status
  <2>4. mgr' = [mgr EXCEPT ![m] = o] /\ changes' = changes
        /\ UNCHANGED <<rename, call, faults, wired, terminal>>
    BY <1>6 DEF Remove
  <2> HIDE DEF o
  <2>5. QED
    BY <1>1, <2>2, <2>3, <2>4, OneOperation DEF terminal
<1>7. ASSUME NEW k \in {"ENROLL", "BULK"}, Command(m, k) PROVE IInv'
  <2> DEFINE o == [pc |-> "publish", out |-> <<[kind |-> k, status |-> "none"]>>]
  <2>1. [kind |-> k, status |-> "none"] \in Message
    BY DEF Message
  <2>2. o \in Operation /\ o.out # <<>>
    BY <2>1 DEF Operation
  <2>3. mgr' = [mgr EXCEPT ![m] = o] /\ row' = row
        /\ UNCHANGED <<rename, call, faults, wired, terminal>>
    BY <1>7 DEF Command
  <2>4. changes' \in 0..MaxChanges
    BY <1>2, <1>7 DEF Command
  <2> HIDE DEF o
  <2>5. QED
    BY <1>1, <2>2, <2>3, <2>4, OneOperation DEF terminal
<1>8. CASE Publish(m)
  <2> DEFINE out == mgr[m].out
  <2>1. out \in Seq(Message) /\ out # <<>> /\ mgr[m].pc = "publish"
    BY <1>1, <1>8 DEF Publish, Operation, IInv, PublishHasOutput
  <2>2. Head(out) \in Message /\ Tail(out) \in Seq(Message) /\ (Len(out) # 1 => Tail(out) # <<>>)
    <3>1. Head(out) \in Message /\ Tail(out) \in Seq(Message) /\ Len(Tail(out)) = Len(out) - 1
      <4> HIDE DEF out
      <4>1. QED
        BY <2>1, HeadTailProperties
    <3>2. Len(out) \in Nat /\ Len(<<>>) = 0
      BY <2>1
    <3>3. Tail(out) = <<>> => Len(out) = 1
      <4> SUFFICES ASSUME Tail(out) = <<>> PROVE Len(out) = 1
        OBVIOUS
      <4>1. Len(Tail(out)) = 0
        BY <3>2
      <4>2. QED
        BY <4>1, <3>1, <3>2
    <3>4. QED
      BY <3>1, <3>3
  <2>3. inbox' \in Seq(Message)
    <3>1. Append(inbox, Head(out)) \in Seq(Message)
      BY <1>1, <2>2
    <3>2. QED
      BY <1>1, <1>8, <3>1 DEF Publish
  <2>4. CASE Len(out) = 1
    <3>1. Quiet \in Operation /\ Quiet.pc = "idle"
      BY DEF Quiet, Operation
    <3>2. mgr' = [mgr EXCEPT ![m] = Quiet] /\ row' = row /\ changes' = changes
          /\ UNCHANGED <<rename, call, faults, mode, up, waiting, stage, t, sensor, wired>>
      BY <1>8, <2>4 DEF Publish
    <3>3. QED
      BY <1>1, <2>3, <3>1, <3>2, OneOperation
  <2>5. CASE Len(out) # 1
    <3> DEFINE e == [mgr[m] EXCEPT !.out = Tail(out)]
    <3>1. e \in Operation /\ e.out = Tail(out)
      BY <1>1, <2>2 DEF Operation
    <3>2. mgr' = [mgr EXCEPT ![m] = e] /\ row' = row /\ changes' = changes
          /\ UNCHANGED <<rename, call, faults, mode, up, waiting, stage, t, sensor, wired>>
      BY <1>8, <2>5 DEF Publish
    <3> HIDE DEF e
    <3>3. QED
      BY <1>1, <2>2, <2>3, <2>5, <3>1, <3>2, OneOperation
  <2>6. QED
    BY <2>4, <2>5
<1>9. QED
  BY <1>3, <1>4, <1>5, <1>6, <1>7, <1>8 DEF Manage, Finish

-----------------------------------------------------------------------------
\* A step of the terminal: requests are sent or forgotten, none is answered.
LEMMA TerminalStep ==
  ASSUME IInv, call' \in [Calls -> Request],
         \A c \in Calls : call'[c].pc \in {"update", "answered"} => call'[c] = call[c],
         row' \in Row, row'.name = row.name, row.status # "NONE" => row'.status # "NONE",
         UNCHANGED <<rename, mgr, changes>>,
         faults' \in 0..MaxFaults, mode' \in {"boot", "run", "portal"}, up' \in BOOLEAN,
         inbox' \in Seq(Message), waiting' \in Calls \cup {NoCall},
         stage' \in {"boot", "retry", "beat"}, t' \in Memory, wired' \in BOOLEAN,
         sensor' \in {"empty", "used"}
  PROVE  IInv'
<1>1. TypeOK'
  BY DEF IInv, TypeOK
<1>2. PublishHasOutput'
  BY DEF IInv, PublishHasOutput
<1>3. RenameWasSeen' /\ AnswersCarryStatus'
  BY DEF IInv, RenameWasSeen, AnswersCarryStatus
<1>4. QED
  BY <1>1, <1>2, <1>3 DEF IInv

LEMMA SendTypes ==
  ASSUME IInv, NEW s \in {"boot", "retry", "beat"}, Send(s)
  PROVE  /\ call' \in [Calls -> Request]
         /\ \A c \in Calls : call'[c].pc \in {"update", "answered"} => call'[c] = call[c]
         /\ waiting' \in Calls \cup {NoCall} /\ stage' \in {"boot", "retry", "beat"}
<1>1. PICK c \in Calls : call' = [call EXCEPT ![c].pc = "received"] /\ waiting' = c /\ stage' = s
  BY DEF Send
<1>2. call[c] \in Request
  BY DEF IInv, TypeOK
<1> DEFINE e == [call[c] EXCEPT !.pc = "received"]
<1>3. e \in Request /\ e.pc = "received"
  BY <1>2 DEF Request
<1>4. call' = [call EXCEPT ![c] = e]
  BY <1>1, <1>2 DEF Request, IInv, TypeOK
<1> HIDE DEF e
<1>5. call' \in [Calls -> Request] /\ call'[c] = e /\ \A d \in Calls : d # c => call'[d] = call[d]
  BY <1>3, <1>4 DEF IInv, TypeOK
<1>6. QED
  BY <1>1, <1>3, <1>5

\* A request whose answer was taken.
LEMMA ForgottenTypes ==
  ASSUME IInv, waiting \in Calls, call' = [call EXCEPT ![waiting] = Idle]
  PROVE  /\ call' \in [Calls -> Request]
         /\ \A c \in Calls : call'[c].pc \in {"update", "answered"} => call'[c] = call[c]
<1>1. Idle \in Request /\ Idle.pc = "idle"
  BY DEF Idle, Request
<1>2. QED
  BY <1>1 DEF IInv, TypeOK

LEMMA FreshTypes == Fresh \in Memory /\ <<>> \in Seq(Message)
BY DEF Fresh, Memory

\* The passes of the loop.
LEMMA PassSteps ==
  ASSUME IInv, QuietPass \/ RetryPass \/ BeatPass \/ ShortPress \/ TakeAnswer \/ GiveUp
  PROVE  IInv'
<1>0. TypeOK
  BY DEF IInv
<1>1. /\ t \in Memory /\ wired \in BOOLEAN /\ inbox \in Seq(Message)
      /\ NextInbox \in Seq(Message)
  BY <1>0, NextInboxType DEF TypeOK
<1>2. Received(t) \in Memory
  BY <1>1, PassTypes
<1>3. AfterStatus(Received(t)) \in Memory
  BY <1>1, <1>2, PassTypes
<1>4. CASE QuietPass
  <2>1. t' \in Memory /\ sensor' \in {"empty", "used"}
    BY <1>0, <1>3, <1>4, RestTypes DEF QuietPass
  <2>2. QED
    BY <1>0, <1>1, <1>4, <2>1, TerminalStep DEF QuietPass, TypeOK, backend
<1>5. CASE RetryPass
  <2>1. Send("retry")
    BY <1>5 DEF RetryPass
  <2>2. QED
    BY <1>0, <1>1, <1>2, <1>5, <2>1, SendTypes, TerminalStep DEF RetryPass, TypeOK
<1>6. CASE BeatPass \/ ShortPress
  <2>1. RegisterLate
    BY <1>6 DEF BeatPass, ShortPress
  <2>2. Send("beat")
    BY <2>1 DEF RegisterLate
  <2>3. AfterSensor(AfterStatus(Received(t))) \in Memory
    BY <1>1, <1>3, PassTypes
  <2>4. QED
    BY <1>0, <1>1, <2>1, <2>2, <2>3, SendTypes, TerminalStep DEF RegisterLate, TypeOK
<1>7. CASE TakeAnswer
  <2>1. waiting \in Calls /\ call[waiting].pc = "answered" /\ call[waiting].status # "denied"
    BY <1>0, <1>7 DEF TakeAnswer, TypeOK
  <2>2. call[waiting].status \in Status \cup {"error"}
    BY <1>0, <2>1 DEF TypeOK, IInv, AnswersCarryStatus, Request, Answer
  <2>3. t' \in Memory /\ sensor' \in {"empty", "used"}
    BY <1>0, <1>7, <2>2, ResumeTypes DEF TakeAnswer
  <2>4. QED
    BY <1>0, <1>7, <2>1, <2>3, ForgottenTypes, TerminalStep DEF TakeAnswer, TypeOK
<1>8. CASE GiveUp
  <2>1. t' \in Memory /\ sensor' \in {"empty", "used"}
    BY <1>0, <1>8, ResumeTypes DEF GiveUp
  <2>2. faults' \in 0..MaxFaults
    BY <1>0, <1>8, BoundsAssumption DEF GiveUp, Fault, TypeOK, BoundsAssumption
  <2>3. QED
    BY <1>0, <1>8, <2>1, <2>2, TerminalStep DEF GiveUp, TypeOK, backend
<1>9. QED
  BY <1>4, <1>5, <1>6, <1>7, <1>8

\* Sessions end; connections, restarts and the portal.
LEMMA OtherSteps ==
  ASSUME IInv,
         \/ EndEnroll \/ HideResult \/ EndBulk
         \/ Boot \/ PowerCut \/ RemoteWipe \/ FactoryReset \/ LoseWifi \/ LeavePortal
         \/ LoseMqtt \/ ConnectMqtt \/ Unplug \/ Replug
  PROVE  IInv'
<1>0. TypeOK
  BY DEF IInv
<1>1. Fault => faults' \in 0..MaxFaults
  BY <1>0, BoundsAssumption DEF Fault, TypeOK, BoundsAssumption
<1>2. CASE EndEnroll
  <2>1. t' \in Memory /\ sensor' \in {"empty", "used"}
    BY <1>0, <1>2 DEF EndEnroll, TypeOK, Memory
  <2>2. QED
    BY <1>0, <1>2, <2>1, TerminalStep DEF EndEnroll, TypeOK, backend
<1>3. CASE HideResult
  <2>1. t' \in Memory
    BY <1>0, <1>3 DEF HideResult, TypeOK, Memory
  <2>2. QED
    BY <1>0, <1>3, <2>1, TerminalStep DEF HideResult, TypeOK, backend
<1>4. CASE EndBulk
  <2>1. t' \in Memory /\ sensor' \in {"empty", "used"}
    BY <1>0, <1>4 DEF EndBulk, TypeOK, Memory
  <2>2. QED
    BY <1>0, <1>4, <2>1, TerminalStep DEF EndBulk, TypeOK, backend
<1>5. CASE Boot
  <2>1. t' \in Memory
    BY <1>0, <1>5 DEF Boot, Fresh, TypeOK, Memory
  <2>2. Send("boot")
    BY <1>5 DEF Boot
  <2>3. QED
    BY <1>0, <1>5, <2>1, <2>2, SendTypes, FreshTypes, TerminalStep DEF Boot, TypeOK
<1>6. CASE PowerCut
  BY <1>0, <1>1, <1>6, FreshTypes, TerminalStep DEF PowerCut, Restart, TypeOK, backend
<1>7. CASE RemoteWipe
  <2>1. waiting \in Calls
    BY <1>0, <1>7 DEF RemoteWipe, TypeOK
  <2>2. QED
    BY <1>0, <1>7, <2>1, ForgottenTypes, FreshTypes, TerminalStep DEF RemoteWipe, Restart, TypeOK
<1>8. CASE FactoryReset
  <2>1. row' \in Row /\ row'.name = row.name /\ (row.status # "NONE" => row'.status # "NONE")
    BY <1>0, <1>8 DEF FactoryReset, TypeOK, Row, Status
  <2>2. QED
    BY <1>0, <1>1, <1>8, <2>1, FreshTypes, TerminalStep DEF FactoryReset, Restart, TypeOK
<1>9. CASE LoseWifi
  BY <1>0, <1>1, <1>9, FreshTypes, TerminalStep DEF LoseWifi, TypeOK, backend
<1>10. CASE LeavePortal
  BY <1>0, <1>10, FreshTypes, TerminalStep DEF LeavePortal, Restart, TypeOK, backend
<1>11. CASE LoseMqtt
  BY <1>0, <1>1, <1>11, FreshTypes, TerminalStep DEF LoseMqtt, TypeOK, backend
<1>12. CASE ConnectMqtt
  BY <1>0, <1>12, TerminalStep DEF ConnectMqtt, TypeOK, backend
<1>13. CASE Unplug
  BY <1>0, <1>1, <1>13, TerminalStep DEF Unplug, TypeOK, backend, terminal
<1>14. CASE Replug
  BY <1>0, <1>14, TerminalStep DEF Replug, TypeOK, backend, terminal
<1>15. QED
  BY <1>2, <1>3, <1>4, <1>5, <1>6, <1>7, <1>8, <1>9, <1>10, <1>11, <1>12, <1>13, <1>14

LEMMA NextPreserves == IInv /\ [Next]_vars => IInv'
<1> SUFFICES ASSUME IInv, [Next]_vars PROVE IInv'
  OBVIOUS
<1>1. CASE UNCHANGED vars
  BY <1>1 DEF vars, IInv, TypeOK, PublishHasOutput, RenameWasSeen, AnswersCarryStatus
<1>2. CASE Next
  BY <1>2, HeartbeatSteps, ManagerSteps, PassSteps, OtherSteps DEF Next
<1>3. QED
  BY <1>1, <1>2

LEMMA Invariance == Spec => []IInv
BY InitHolds, NextPreserves, PTL DEF Spec

-----------------------------------------------------------------------------
(* Every variable keeps its type, the terminal's memory and the messages    *)
(* that are on their way to it included.                                   *)
THEOREM TypeCorrect == Spec => []TypeOK
<1>1. IInv => TypeOK
  BY DEF IInv
<1>2. QED
  BY <1>1, Invariance, PTL

(* registerHeartbeat never undoes a rename that no heartbeat overlapped,    *)
(* however many heartbeats and managers there are.                         *)
THEOREM RenameSticks == Spec => []QuietRenameSticks
<1>1. IInv => QuietRenameSticks
  BY DEF IInv, RenameWasSeen, QuietRenameSticks
<1>2. QED
  BY <1>1, Invariance, PTL

\* No step that answers, takes or sends a heartbeat changes a status.
LEMMA StatusKept ==
  ASSUME IInv, [Next]_vars, row.status # "NONE", call' # call
  PROVE  row'.status = row.status
<1>1. row \in Row
  BY DEF IInv, TypeOK
<1>2. ASSUME NEW c \in Calls, Heartbeat(c) \/ SpoilCall(c) PROVE row'.status = row.status
  BY <1>1, <1>2 DEF Heartbeat, SpoilCall, ReadRow, CreateRow, UpdateName, Refreshed, DropAnswer, Row
<1>3. ASSUME NEW m \in Managers, Manage(m) \/ Finish(m) PROVE call' = call
  BY <1>3 DEF Manage, Finish, SetStatus, Rename, ReadForRemoval, Command, Remove, Publish
<1>4. QuietPass \/ RetryPass \/ BeatPass \/ ShortPress \/ TakeAnswer \/ GiveUp => row' = row
  BY DEF QuietPass, RetryPass, BeatPass, ShortPress, RegisterLate, TakeAnswer, GiveUp, backend
<1>5. EndEnroll \/ HideResult \/ EndBulk \/ Boot \/ PowerCut \/ RemoteWipe => row' = row
  BY DEF EndEnroll, HideResult, EndBulk, Boot, PowerCut, RemoteWipe, backend
<1>6. FactoryReset => call' = call
  BY DEF FactoryReset
<1>7. LoseWifi \/ LeavePortal \/ LoseMqtt \/ ConnectMqtt \/ Unplug \/ Replug => row' = row
  BY DEF LoseWifi, LeavePortal, LoseMqtt, ConnectMqtt, Unplug, Replug, backend
<1>8. UNCHANGED vars => row' = row
  BY DEF vars
<1>9. QED
  BY <1>2, <1>3, <1>4, <1>5, <1>6, <1>7, <1>8 DEF Next

(* A heartbeat, however old the row it read, never reactivates a device     *)
(* that was removed or suspended.                                          *)
THEOREM HeartbeatsKeepStatus == Spec => RemovalSticks
<1>1. IInv /\ [Next]_vars => [row.status # "NONE" /\ call' # call => row'.status = row.status]_vars
  BY StatusKept
<1>2. QED
  BY <1>1, Invariance, PTL DEF Spec, RemovalSticks

(* Heartbeats undo neither a status nor a rename. *)
THEOREM DecisionsAreKept == Spec => HeartbeatsKeepDecisions
BY RenameSticks, HeartbeatsKeepStatus, PTL DEF HeartbeatsKeepDecisions
=============================================================================
