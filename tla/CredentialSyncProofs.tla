------------------------ MODULE CredentialSyncProofs ------------------------
(***************************************************************************)
(* Theorems about CredentialSync, for any number of terminals, employees,  *)
(* slots, enrolments and faults.                                           *)
(***************************************************************************)
EXTENDS CredentialSync, FiniteSetTheorems, FunctionTheorems, TLAPS

\* Only the callback that is being sent may have used its last attempt.
AttemptsLeft ==
    \A d \in Devices, i \in Entries :
      pending[d][i].attempts < MaxAttempts \/ (call[d].kind = "mapping" /\ call[d].entry = i)

\* The entry of a callback that is being sent.
EntryIsNamed ==
    \A d \in Devices : call[d].kind = "mapping" => call[d].entry \in Entries

\* Who is scanned has a finger.
ScansAreFingers ==
    \A d \in Devices : request[d].kind = "checkin" => request[d].finger \in Employees

Enrolls(d) == {i \in DOMAIN inbox[d] : inbox[d][i].cmd = "ENROLL"}
Choosing(d) == enroll[d].state \in {"FIND_EMPTY_SLOT", "WAIT_FINGER"}
Between(d) == enroll[d].state \in {"IDLE", "RESULT"}
Reporting(d) == request[d].kind = "fingerprint"

\* Whatever a terminal's enrolment is at, a command to send or to come, a
\* session or a request, it is the enrolment of e, and the intent is e's or gone.
ForOne(d, e) ==
    /\ intent[d] \in {NoOne, e}
    /\ \A j \in unsent[d] : j.cmd = "ENROLL" => j.emp = e
    /\ \A i \in Enrolls(d) : inbox[d][i].emp = e
    /\ Choosing(d) => enroll[d].person = e
    /\ Reporting(d) => /\ request[d].finger = e
                       /\ request[d].step # "received" => request[d].emp = e

Sessions == overrun \/ \A d \in Devices : \E e \in Person : ForOne(d, e)

IInv ==
    /\ TypeOK /\ AttemptsLeft /\ EntryIsNamed /\ ScansAreFingers
    /\ Sessions /\ SequentialEnrolmentIsOwn

-----------------------------------------------------------------------------
(* Slots, entries, requests and mailboxes. *)

LEMMA LeastExists ==
    ASSUME NEW S \in SUBSET Nat, S # {}
    PROVE  \E x \in S : \A y \in S : x <= y
<1>1. PICK x \in S : \A y \in S : ~(<<y, x>> \in OpToRel(<, Nat))
  BY NatLessThanWellFounded, WFMin
<1>2. \A y \in S : <<y, x>> \in Nat \X Nat /\ ~(y < x)
  BY <1>1 DEF OpToRel
<1>3. \A y \in S : x <= y
  <2> SUFFICES ASSUME NEW y \in S PROVE x <= y
    OBVIOUS
  <2>1. x \in Nat /\ y \in Nat /\ ~(y < x)
    BY <1>2
  <2> QED
    BY <2>1
<1> QED
  BY <1>3

LEMMA FirstFreeType ==
    ASSUME NEW d
    PROVE  /\ FirstFree(d) \in 0..MaxSlot
           /\ FreeSlots(d) # {} => FirstFree(d) \in Slots
<1>1. CASE FreeSlots(d) = {}
  BY <1>1, SizeAssumption DEF FirstFree
<1>2. CASE FreeSlots(d) # {}
  <2>1. FreeSlots(d) \in SUBSET Nat /\ FreeSlots(d) \subseteq Slots
    BY SizeAssumption DEF FreeSlots, Slots
  <2>2. \E s \in FreeSlots(d) : \A t \in FreeSlots(d) : s <= t
    BY <1>2, <2>1, LeastExists
  <2>3. FirstFree(d) \in FreeSlots(d)
    BY <1>2, <2>2 DEF FirstFree
  <2> QED
    BY <2>1, <2>3, SizeAssumption DEF Slots
<1> QED
  BY <1>1, <1>2

LEMMA FirstFreeEntryType ==
    ASSUME NEW d, FreeEntries(d) # {}
    PROVE  FirstFreeEntry(d) \in Entries
<1>1. FreeEntries(d) \in SUBSET Nat /\ FreeEntries(d) \subseteq Entries
  BY SizeAssumption DEF FreeEntries, Entries
<1>2. \E i \in FreeEntries(d) : \A j \in FreeEntries(d) : i <= j
  BY <1>1, LeastExists
<1> QED
  BY <1>1, <1>2 DEF FirstFreeEntry

LEMMA NothingTyped ==
    /\ NoEntry \in Entry /\ NoRequest \in Request /\ NoCall \in Call /\ NotEnrolling \in Enroll
    /\ NoEntry.attempts = 0 /\ NoRequest.kind = "none" /\ NoCall.kind = "none"
    /\ NotEnrolling.state = "IDLE" /\ NoOne \in Person /\ Employees \subseteq Person
BY SizeAssumption
DEF NoEntry, NoRequest, NoCall, NotEnrolling, Entry, Request, Call, Enroll, Person

LEMMA RowWritten ==
    ASSUME TypeOK, NEW d \in Devices, NEW e \in Person, NEW s \in 0..MaxSlot,
           mapping' = [mapping EXCEPT ![d][e] = s]
    PROVE  mapping' \in [Devices -> [Employees -> 0..MaxSlot]]
<1> DEFINE row == [mapping[d] EXCEPT ![e] = s]
<1>1. row \in [Employees -> 0..MaxSlot] /\ mapping' = [mapping EXCEPT ![d] = row]
  BY DEF TypeOK
<1> HIDE DEF row
<1> QED
  BY <1>1 DEF TypeOK

LEMMA FinishTyped ==
    ASSUME TypeOK, NEW d \in Devices, NEW answer \in {"ok", "fail", "ghost"}, Finish(d, answer)
    PROVE  /\ request' \in [Devices -> Request] /\ call' \in [Devices -> Call]
           /\ request'[d] = NoRequest
           /\ \A x \in Devices : x # d => request'[x] = request[x]
           /\ \A x \in Devices : call'[x].kind = call[x].kind /\ call'[x].entry = call[x].entry
<1>1. /\ request' = [request EXCEPT ![d] = NoRequest]
      /\ call' = [call EXCEPT ![d].answer = answer] \/ call' = call
  BY DEF Finish
<1>2. request \in [Devices -> Request] /\ call \in [Devices -> Call]
  BY DEF TypeOK
<1>3. request' \in [Devices -> Request] /\ call' \in [Devices -> Call]
  BY <1>1, <1>2, NothingTyped DEF Call
<1>4. \A x \in Devices : call'[x].kind = call[x].kind /\ call'[x].entry = call[x].entry
  BY <1>1, <1>2 DEF Call
<1> QED
  BY <1>1, <1>2, <1>3, <1>4

LEMMA SendTyped ==
    ASSUME TypeOK, NEW d \in Devices, NEW kind \in {"mapping", "fingerprint", "checkin"},
           NEW entry \in 0..MaxPending, NEW slot \in 0..MaxSlot,
           NEW emp \in Person, NEW finger \in Person,
           Send(d, kind, entry, slot, emp, finger)
    PROVE  /\ request' \in [Devices -> Request] /\ call' \in [Devices -> Call]
           /\ request[d] = NoRequest
           /\ request'[d] = [kind |-> kind, step |-> "received", emp |-> emp,
                             finger |-> finger, slot |-> slot]
           /\ call'[d].kind = kind /\ call'[d].entry = entry
           /\ \A x \in Devices : x # d => request'[x] = request[x] /\ call'[x] = call[x]
<1> DEFINE r == [kind |-> kind, step |-> "received", emp |-> emp, finger |-> finger, slot |-> slot]
<1> DEFINE c == [kind |-> kind, entry |-> entry, slot |-> slot, answer |-> "none"]
<1>1. request' = [request EXCEPT ![d] = r] /\ call' = [call EXCEPT ![d] = c] /\ request[d] = NoRequest
  BY DEF Send
<1>2. r \in Request /\ c \in Call /\ c.kind = kind /\ c.entry = entry
  BY DEF Request, Call
<1>3. request \in [Devices -> Request] /\ call \in [Devices -> Call]
  BY DEF TypeOK
<1> HIDE DEF r, c
<1>4. request' \in [Devices -> Request] /\ call' \in [Devices -> Call]
      /\ request'[d] = r /\ call'[d] = c
      /\ \A x \in Devices : x # d => request'[x] = request[x] /\ call'[x] = call[x]
  BY <1>1, <1>2, <1>3
<1> QED
  BY <1>1, <1>2, <1>4 DEF r

LEMMA CommandsTyped ==
    /\ \A e \in Employees : EnrollCommand(e) \in Command /\ EnrollCommand(e).cmd = "ENROLL"
                              /\ EnrollCommand(e).emp = e
    /\ \A d \in Devices, e \in Person, f \in Person :
         SyncCommand(d, e, f) \in Command /\ SyncCommand(d, e, f).cmd = "SYNC"
    /\ \A s \in 0..MaxSlot : DeleteCommand(s) \in Command /\ DeleteCommand(s).cmd = "DELETE"
BY SizeAssumption, NothingTyped DEF EnrollCommand, SyncCommand, DeleteCommand, Command

\* No command to enrol is new: it was there, or it was still to be sent.
NoNewEnroll(d) ==
    /\ \A j \in unsent'[d] : j.cmd = "ENROLL" => j \in unsent[d]
    /\ \A i \in Enrolls(d)' :
         \/ \E k \in Enrolls(d) : inbox'[d][i].emp = inbox[d][k].emp
         \/ \E j \in unsent[d] : j.cmd = "ENROLL" /\ inbox'[d][i].emp = j.emp

LEMMA SameMailbox ==
    ASSUME NEW d \in Devices, inbox'[d] = inbox[d], unsent'[d] = unsent[d]
    PROVE  NoNewEnroll(d)
BY DEF NoNewEnroll, Enrolls

LEMMA Consumed ==
    ASSUME TypeOK, NEW d \in Devices, inbox[d] # <<>>, Consume(d), unsent' = unsent
    PROVE  /\ Head(inbox[d]) \in Command
           /\ inbox' \in [Devices -> Seq(Command)]
           /\ 1 \in DOMAIN inbox[d] /\ inbox[d][1] = Head(inbox[d])
           /\ \A x \in Devices : NoNewEnroll(x)
<1>1. inbox \in [Devices -> Seq(Command)] /\ inbox[d] \in Seq(Command)
  BY DEF TypeOK
<1>2. inbox' = [inbox EXCEPT ![d] = Tail(inbox[d])] /\ inbox'[d] = Tail(inbox[d])
  BY <1>1 DEF Consume
<1>3. Head(inbox[d]) \in Command /\ Tail(inbox[d]) \in Seq(Command)
      /\ 1 \in DOMAIN inbox[d] /\ inbox[d][1] = Head(inbox[d])
  BY <1>1
<1>4. inbox' \in [Devices -> Seq(Command)]
  BY <1>1, <1>2, <1>3
<1>5. \A i \in DOMAIN Tail(inbox[d]) : /\ i \in Nat /\ i + 1 \in DOMAIN inbox[d]
                                       /\ Tail(inbox[d])[i] = inbox[d][i + 1]
  BY <1>1
<1>6. \A i \in Enrolls(d)' : i + 1 \in Enrolls(d) /\ inbox'[d][i] = inbox[d][i + 1]
  BY <1>2, <1>5 DEF Enrolls
<1>7. NoNewEnroll(d)
  BY <1>6 DEF NoNewEnroll
<1>8. \A x \in Devices : x # d => NoNewEnroll(x)
  BY <1>1, <1>2, SameMailbox
<1> QED
  BY <1>3, <1>4, <1>7, <1>8

LEMMA Received ==
    ASSUME TypeOK, NEW d \in Devices, NEW m \in Command, inbox'[d] = Append(inbox[d], m),
           \A j \in unsent'[d] : j.cmd = "ENROLL" => j \in unsent[d]
    PROVE  /\ inbox'[d] \in Seq(Command)
           /\ \/ m.cmd # "ENROLL"
              \/ \E j \in unsent[d] : j.cmd = "ENROLL" /\ m.emp = j.emp
              => NoNewEnroll(d)
<1>1. inbox[d] \in Seq(Command) /\ Append(inbox[d], m) \in Seq(Command)
  BY DEF TypeOK
<1> DEFINE n == Len(inbox[d]) + 1
<1>2. n \in Nat /\ DOMAIN Append(inbox[d], m) = 1..n /\ DOMAIN inbox[d] = 1..(n - 1)
      /\ Append(inbox[d], m)[n] = m
      /\ \A i \in 1..(n - 1) : Append(inbox[d], m)[i] = inbox[d][i]
  BY <1>1
<1> HIDE DEF n
<1>3. \A i \in Enrolls(d)' : \/ i = n /\ inbox'[d][i] = m /\ m.cmd = "ENROLL"
                             \/ i \in Enrolls(d) /\ inbox'[d][i] = inbox[d][i]
  BY <1>2 DEF Enrolls
<1>4. ASSUME \/ m.cmd # "ENROLL"
             \/ \E j \in unsent[d] : j.cmd = "ENROLL" /\ m.emp = j.emp
      PROVE  NoNewEnroll(d)
  BY <1>3, <1>4 DEF NoNewEnroll
<1> QED
  BY <1>1, <1>4

-----------------------------------------------------------------------------
(* Steps that leave the enrolments of a terminal alone, or end them. *)

EnrollKept(d) ==
    \/ enroll'[d] = enroll[d]
    \/ Between(d)'
    \/ Choosing(d) /\ enroll'[d].person = enroll[d].person
RequestKept(d) ==
    \/ request'[d] = request[d]
    \/ ~Reporting(d)' /\ (request'[d].kind = "checkin" => request'[d].finger \in Employees)
    \/ /\ Reporting(d) /\ request[d].step # "received" /\ Reporting(d)'
       /\ request'[d].emp = request[d].emp /\ request'[d].finger = request[d].finger
IntentKept(d) == intent'[d] \in {intent[d], NoOne}
CallKept(d) ==
    \/ call'[d].kind = call[d].kind /\ call'[d].entry = call[d].entry
    \/ call[d].kind # "mapping" /\ call'[d].kind # "mapping"

LEMMA SessionKept ==
    ASSUME NEW d \in Devices, NEW e, ForOne(d, e),
           EnrollKept(d), RequestKept(d), IntentKept(d), NoNewEnroll(d)
    PROVE  ForOne(d, e)'
<1>1. /\ intent'[d] \in {NoOne, e}
      /\ \A j \in unsent'[d] : j.cmd = "ENROLL" => j.emp = e
      /\ \A i \in Enrolls(d)' : inbox'[d][i].emp = e
  BY DEF ForOne, IntentKept, NoNewEnroll
<1>2. Choosing(d)' => enroll'[d].person = e
  BY DEF ForOne, EnrollKept, Choosing, Between
<1>3. Reporting(d)' => /\ request'[d].finger = e
                       /\ request'[d].step # "received" => request'[d].emp = e
  BY DEF ForOne, RequestKept, Reporting
<1> QED
  BY <1>1, <1>2, <1>3 DEF ForOne

LEMMA CallsKept ==
    ASSUME AttemptsLeft, EntryIsNamed, pending' = pending, \A d \in Devices : CallKept(d)
    PROVE  AttemptsLeft' /\ EntryIsNamed'
<1>1. AttemptsLeft'
  <2> SUFFICES ASSUME NEW d \in Devices, NEW i \in Entries
               PROVE  \/ pending[d][i].attempts < MaxAttempts
                      \/ call'[d].kind = "mapping" /\ call'[d].entry = i
    BY DEF AttemptsLeft
  <2> QED
    BY DEF AttemptsLeft, CallKept
<1>2. EntryIsNamed'
  BY DEF EntryIsNamed, CallKept
<1> QED
  BY <1>1, <1>2

\* All that an action has to show that writes no template and starts nothing.
LEMMA QuietStep ==
    ASSUME IInv, TypeOK', AttemptsLeft', EntryIsNamed',
           template' = template, overrun' = overrun,
           \A d \in Devices : EnrollKept(d) /\ RequestKept(d) /\ IntentKept(d) /\ NoNewEnroll(d)
    PROVE  IInv'
<1>1. SequentialEnrolmentIsOwn'
  BY DEF IInv, SequentialEnrolmentIsOwn
<1>2. Sessions'
  <2> SUFFICES ASSUME ~overrun, NEW d \in Devices
               PROVE  \E e \in Person : ForOne(d, e)'
    BY DEF Sessions
  <2>1. PICK e \in Person : ForOne(d, e)
    BY DEF IInv, Sessions
  <2> QED
    BY <2>1, SessionKept
<1>3. ScansAreFingers'
  BY DEF IInv, ScansAreFingers, RequestKept, Reporting
<1> QED
  BY <1>1, <1>2, <1>3 DEF IInv

-----------------------------------------------------------------------------
(* The backend. *)

LEMMA HandleMappingKeeps ==
    ASSUME IInv, NEW d \in Devices, HandleMapping(d)
    PROVE  IInv'
<1>1. TypeOK /\ request[d] \in Request /\ request[d].kind = "mapping"
  BY DEF IInv, TypeOK, HandleMapping
<1>2. /\ Finish(d, "ok") \/ Finish(d, "fail")
      /\ mapping' = mapping \/ mapping' = [mapping EXCEPT ![d][request[d].emp] = request[d].slot]
      /\ UNCHANGED <<template, intent, unsent, inbox, sensor, pending, enroll, historyVars>>
  BY DEF HandleMapping
<1>3. /\ request' \in [Devices -> Request] /\ call' \in [Devices -> Call]
      /\ request'[d] = NoRequest /\ \A x \in Devices : x # d => request'[x] = request[x]
      /\ \A x \in Devices : CallKept(x)
  BY <1>1, <1>2, FinishTyped DEF CallKept
<1>4. mapping' \in [Devices -> [Employees -> 0..MaxSlot]]
  BY <1>1, <1>2, RowWritten DEF TypeOK, Request
<1>5. TypeOK'
  BY <1>1, <1>2, <1>3, <1>4 DEF TypeOK, historyVars
<1>6. AttemptsLeft' /\ EntryIsNamed'
  BY <1>2, <1>3, CallsKept DEF IInv
<1>7. \A x \in Devices : EnrollKept(x) /\ RequestKept(x) /\ IntentKept(x) /\ NoNewEnroll(x)
  BY <1>1, <1>2, <1>3, SameMailbox, NothingTyped DEF EnrollKept, RequestKept, IntentKept, Reporting
<1> QED
  BY <1>2, <1>5, <1>6, <1>7, QuietStep DEF historyVars

\* The intent names the employee: the one the finger at the sensor belongs to.
LEMMA ReadIntentKeeps ==
    ASSUME IInv, NEW d \in Devices, ReadIntent(d)
    PROVE  IInv'
<1>1. TypeOK /\ request[d] \in Request /\ Reporting(d) /\ request[d].step = "received"
  BY DEF IInv, TypeOK, ReadIntent, Reporting
<1>2. UNCHANGED <<template, mapping, intent, unsent, inbox, sensor, pending, enroll, historyVars>>
  BY DEF ReadIntent
<1>3. CASE intent[d] = NoOne
  <2>1. /\ request' \in [Devices -> Request] /\ call' \in [Devices -> Call]
        /\ request'[d] = NoRequest /\ \A x \in Devices : x # d => request'[x] = request[x]
        /\ \A x \in Devices : CallKept(x)
    BY <1>1, <1>3, FinishTyped DEF CallKept, ReadIntent
  <2>2. TypeOK'
    BY <1>1, <1>2, <2>1 DEF TypeOK, historyVars
  <2>3. AttemptsLeft' /\ EntryIsNamed'
    BY <1>2, <2>1, CallsKept DEF IInv
  <2>4. \A x \in Devices : EnrollKept(x) /\ RequestKept(x) /\ IntentKept(x) /\ NoNewEnroll(x)
    BY <1>1, <1>2, <2>1, SameMailbox, NothingTyped DEF EnrollKept, RequestKept, IntentKept, Reporting
  <2> QED
    BY <1>2, <2>2, <2>3, <2>4, QuietStep DEF historyVars
<1>4. CASE intent[d] # NoOne
  <2>1. request' = [request EXCEPT ![d].emp = intent[d], ![d].step = "template"] /\ call' = call
    BY <1>4 DEF ReadIntent
  <2>2. /\ request'[d].kind = request[d].kind /\ request'[d].finger = request[d].finger
        /\ request'[d].emp = intent[d] /\ request'[d].step = "template"
        /\ \A x \in Devices : x # d => request'[x] = request[x]
        /\ request' \in [Devices -> Request]
    BY <1>1, <2>1 DEF TypeOK, Request
  <2>3. TypeOK'
    BY <1>1, <1>2, <2>1, <2>2 DEF TypeOK, historyVars
  <2>4. AttemptsLeft' /\ EntryIsNamed'
    BY <1>2, <2>1, CallsKept DEF IInv, CallKept
  <2>5. SequentialEnrolmentIsOwn'
    BY <1>2 DEF IInv, SequentialEnrolmentIsOwn, historyVars
  <2>6. Sessions'
    <3> SUFFICES ASSUME ~overrun, NEW x \in Devices
                 PROVE  \E e \in Person : ForOne(x, e)'
      BY <1>2 DEF Sessions, historyVars
    <3>1. PICK e \in Person : ForOne(x, e)
      BY DEF IInv, Sessions
    <3>2. /\ intent'[x] \in {NoOne, e}
          /\ \A j \in unsent'[x] : j.cmd = "ENROLL" => j.emp = e
          /\ \A i \in Enrolls(x)' : inbox'[x][i].emp = e
          /\ Choosing(x)' => enroll'[x].person = e
      BY <1>2, <3>1 DEF ForOne, Enrolls, Choosing
    <3>3. Reporting(x)' <=> Reporting(x)
      BY <2>2 DEF Reporting
    <3>4. Reporting(x)' => /\ request'[x].finger = e
                           /\ request'[x].step # "received" => request'[x].emp = e
      BY <1>1, <1>4, <2>2, <3>1, <3>3 DEF ForOne
    <3> QED
      BY <3>2, <3>4 DEF ForOne
  <2>7. ScansAreFingers'
    BY <2>2 DEF IInv, ScansAreFingers
  <2> QED
    BY <2>3, <2>4, <2>5, <2>6, <2>7 DEF IInv
<1> QED
  BY <1>3, <1>4

\* An enrolment that is alone writes a template of its own finger.
LEMMA WriteTemplateKeeps ==
    ASSUME IInv, NEW d \in Devices, WriteTemplate(d)
    PROVE  IInv'
<1>1. TypeOK /\ request[d] \in Request /\ Reporting(d) /\ request[d].step = "template"
  BY DEF IInv, TypeOK, WriteTemplate, Reporting
<1>2. /\ template' = [template EXCEPT ![request[d].emp] = request[d].finger]
      /\ request' = [request EXCEPT ![d].step = "mapping"]
      /\ UNCHANGED <<mapping, intent, unsent, inbox, deviceVars, historyVars>>
  BY DEF WriteTemplate
<1>3. /\ request'[d].kind = request[d].kind /\ request'[d].finger = request[d].finger
      /\ request'[d].emp = request[d].emp
      /\ \A x \in Devices : x # d => request'[x] = request[x]
      /\ request' \in [Devices -> Request]
  BY <1>1, <1>2 DEF TypeOK, Request
<1>4. TypeOK'
  BY <1>1, <1>2, <1>3 DEF TypeOK, Request, deviceVars, historyVars
<1>5. AttemptsLeft' /\ EntryIsNamed'
  BY <1>2, CallsKept DEF IInv, CallKept, deviceVars
<1>6. SequentialEnrolmentIsOwn'
  <2> SUFFICES ASSUME ~overrun, NEW e \in Employees PROVE template'[e] \in {NoOne, e}
    BY <1>2 DEF SequentialEnrolmentIsOwn, historyVars
  <2>1. request[d].emp = request[d].finger
    BY <1>1 DEF IInv, Sessions, ForOne
  <2>2. template[e] \in {NoOne, e}
    BY DEF IInv, SequentialEnrolmentIsOwn
  <2> QED
    BY <1>1, <1>2, <2>1, <2>2 DEF TypeOK
<1>7. Sessions'
  <2> SUFFICES ASSUME ~overrun, NEW x \in Devices
               PROVE  \E e \in Person : ForOne(x, e)'
    BY <1>2 DEF Sessions, historyVars
  <2>1. PICK e \in Person : ForOne(x, e)
    BY DEF IInv, Sessions
  <2>2. EnrollKept(x) /\ IntentKept(x) /\ NoNewEnroll(x)
    BY <1>1, <1>2, SameMailbox DEF EnrollKept, IntentKept, deviceVars
  <2>3. RequestKept(x)
    BY <1>1, <1>3 DEF RequestKept, Reporting
  <2> QED
    BY <2>1, <2>2, <2>3, SessionKept
<1>8. ScansAreFingers'
  BY <1>3 DEF IInv, ScansAreFingers
<1> QED
  BY <1>4, <1>5, <1>6, <1>7, <1>8 DEF IInv

LEMMA WriteMappingKeeps ==
    ASSUME IInv, NEW d \in Devices, WriteMapping(d)
    PROVE  IInv'
<1>1. TypeOK /\ request[d] \in Request /\ Reporting(d) /\ request[d].step = "mapping"
  BY DEF IInv, TypeOK, WriteMapping, Reporting
<1>2. /\ UNCHANGED <<template, intent, unsent, inbox, sensor, pending, enroll, historyVars>>
      /\ \/ Finish(d, "fail") /\ mapping' = mapping
         \/ /\ mapping' = [mapping EXCEPT ![d][request[d].emp] = request[d].slot]
            /\ request' = [request EXCEPT ![d].step = "clear"] /\ call' = call
  BY DEF WriteMapping
<1>3. mapping' \in [Devices -> [Employees -> 0..MaxSlot]]
  BY <1>1, <1>2, RowWritten DEF TypeOK, Request
<1>4. /\ request' \in [Devices -> Request] /\ call' \in [Devices -> Call]
      /\ \A x \in Devices : CallKept(x) /\ RequestKept(x)
  <2>1. CASE Finish(d, "fail")
    <3>1. /\ request' \in [Devices -> Request] /\ call' \in [Devices -> Call]
          /\ request'[d] = NoRequest /\ \A x \in Devices : x # d => request'[x] = request[x]
          /\ \A x \in Devices : call'[x].kind = call[x].kind /\ call'[x].entry = call[x].entry
      BY <1>1, <2>1, FinishTyped
    <3> QED
      BY <3>1, NothingTyped DEF CallKept, RequestKept, Reporting
  <2>2. CASE request' = [request EXCEPT ![d].step = "clear"] /\ call' = call
    <3>1. /\ request'[d].kind = request[d].kind /\ request'[d].finger = request[d].finger
          /\ request'[d].emp = request[d].emp
          /\ \A x \in Devices : x # d => request'[x] = request[x]
          /\ request' \in [Devices -> Request]
      BY <1>1, <2>2 DEF TypeOK, Request
    <3> QED
      BY <1>1, <2>2, <3>1 DEF TypeOK, CallKept, RequestKept, Reporting
  <2> QED
    BY <1>2, <2>1, <2>2
<1>5. TypeOK'
  BY <1>1, <1>2, <1>3, <1>4 DEF TypeOK, historyVars
<1>6. AttemptsLeft' /\ EntryIsNamed'
  BY <1>2, <1>4, CallsKept DEF IInv
<1>7. \A x \in Devices : EnrollKept(x) /\ IntentKept(x) /\ NoNewEnroll(x)
  BY <1>1, <1>2, SameMailbox DEF EnrollKept, IntentKept
<1> QED
  BY <1>2, <1>4, <1>5, <1>6, <1>7, QuietStep DEF historyVars

LEMMA ClearIntentKeeps ==
    ASSUME IInv, NEW d \in Devices, ClearIntent(d)
    PROVE  IInv'
<1>1. TypeOK /\ request[d] \in Request /\ Reporting(d) /\ request[d].step = "clear"
  BY DEF IInv, TypeOK, ClearIntent, Reporting
<1>2. /\ intent' = [intent EXCEPT ![d] = NoOne]
      /\ request' = [request EXCEPT ![d].step = "publish"]
      /\ UNCHANGED <<template, mapping, unsent, inbox, deviceVars, historyVars>>
  BY DEF ClearIntent
<1>3. /\ request'[d].kind = request[d].kind /\ request'[d].finger = request[d].finger
      /\ request'[d].emp = request[d].emp
      /\ \A x \in Devices : x # d => request'[x] = request[x]
      /\ request' \in [Devices -> Request]
  BY <1>1, <1>2 DEF TypeOK, Request
<1>4. TypeOK'
  BY <1>1, <1>2, <1>3, NothingTyped DEF TypeOK, deviceVars, historyVars
<1>5. AttemptsLeft' /\ EntryIsNamed'
  BY <1>2, CallsKept DEF IInv, CallKept, deviceVars
<1>6. \A x \in Devices : EnrollKept(x) /\ IntentKept(x) /\ NoNewEnroll(x)
  BY <1>1, <1>2, SameMailbox DEF EnrollKept, IntentKept, TypeOK, deviceVars
<1>7. \A x \in Devices : RequestKept(x)
  BY <1>1, <1>3 DEF RequestKept, Reporting
<1> QED
  BY <1>2, <1>4, <1>5, <1>6, <1>7, QuietStep DEF historyVars

LEMMA BroadcastTyped ==
    ASSUME TypeOK, NEW d \in Devices, Broadcast(d), unsent' = unsent
    PROVE  inbox' \in [Devices -> Seq(Command)] /\ \A x \in Devices : NoNewEnroll(x)
<1> DEFINE m == SyncCommand(d, request[d].emp, request[d].finger)
<1>1. inbox' = [x \in Devices |-> IF x \in Subscribers(d) THEN Append(inbox[x], m) ELSE inbox[x]]
  BY DEF Broadcast
<1>2. m \in Command /\ m.cmd # "ENROLL"
  <2>1. request[d] \in Request
    BY DEF TypeOK
  <2> QED
    BY <2>1, CommandsTyped DEF Request
<1> HIDE DEF m
<1>3. \A x \in Devices : inbox'[x] \in Seq(Command) /\ NoNewEnroll(x)
  <2> SUFFICES ASSUME NEW x \in Devices PROVE inbox'[x] \in Seq(Command) /\ NoNewEnroll(x)
    OBVIOUS
  <2>1. inbox'[x] = Append(inbox[x], m) \/ inbox'[x] = inbox[x]
    BY <1>1
  <2>2. CASE inbox'[x] = Append(inbox[x], m)
    BY <1>2, <2>2, Received
  <2>3. CASE inbox'[x] = inbox[x]
    BY <2>3, SameMailbox DEF TypeOK
  <2> QED
    BY <2>1, <2>2, <2>3
<1> QED
  BY <1>1, <1>3

LEMMA PublishSyncKeeps ==
    ASSUME IInv, NEW d \in Devices, PublishSync(d)
    PROVE  IInv'
<1>1. /\ TypeOK /\ Broadcast(d) /\ Finish(d, "ok")
      /\ UNCHANGED <<template, mapping, intent, unsent, sensor, pending, enroll, historyVars>>
  BY DEF IInv, PublishSync
<1>2. inbox' \in [Devices -> Seq(Command)] /\ \A x \in Devices : NoNewEnroll(x)
  BY <1>1, BroadcastTyped
<1>3. /\ request' \in [Devices -> Request] /\ call' \in [Devices -> Call]
      /\ request'[d] = NoRequest /\ \A x \in Devices : x # d => request'[x] = request[x]
      /\ \A x \in Devices : CallKept(x)
  BY <1>1, FinishTyped DEF CallKept
<1>4. TypeOK'
  BY <1>1, <1>2, <1>3 DEF TypeOK, historyVars
<1>5. AttemptsLeft' /\ EntryIsNamed'
  BY <1>1, <1>3, CallsKept DEF IInv
<1>6. \A x \in Devices : EnrollKept(x) /\ RequestKept(x) /\ IntentKept(x)
  BY <1>1, <1>3, NothingTyped DEF EnrollKept, RequestKept, IntentKept, Reporting
<1> QED
  BY <1>1, <1>2, <1>4, <1>5, <1>6, QuietStep DEF historyVars

LEMMA HandleCheckinKeeps ==
    ASSUME IInv, NEW d \in Devices, HandleCheckin(d)
    PROVE  IInv'
<1>1. TypeOK /\ request[d] \in Request /\ request[d].kind = "checkin"
  BY DEF IInv, TypeOK, HandleCheckin
<1> DEFINE owners == {e \in Employees : mapping[d][e] = request[d].slot}
<1>2. /\ Finish(d, "ok") \/ Finish(d, "ghost")
      /\ misbooked' = misbooked \cup {<<request[d].finger, e>> : e \in owners \ {request[d].finger}}
      /\ UNCHANGED <<template, mapping, intent, unsent, inbox, sensor, pending, enroll,
                     started, repeated, removed, crossed, undercut, overrun, faults>>
  BY DEF HandleCheckin
<1>3. /\ request' \in [Devices -> Request] /\ call' \in [Devices -> Call]
      /\ request'[d] = NoRequest /\ \A x \in Devices : x # d => request'[x] = request[x]
      /\ \A x \in Devices : CallKept(x)
  BY <1>1, <1>2, FinishTyped DEF CallKept
<1>4. TypeOK'
  <2>1. misbooked' \subseteq Employees \X Employees
    BY <1>1, <1>2 DEF IInv, ScansAreFingers, TypeOK
  <2> QED
    BY <1>1, <1>2, <1>3, <2>1 DEF TypeOK
<1>5. AttemptsLeft' /\ EntryIsNamed'
  BY <1>2, <1>3, CallsKept DEF IInv
<1>6. \A x \in Devices : EnrollKept(x) /\ RequestKept(x) /\ IntentKept(x) /\ NoNewEnroll(x)
  BY <1>1, <1>2, <1>3, SameMailbox, NothingTyped DEF EnrollKept, RequestKept, IntentKept, Reporting
<1> QED
  BY <1>2, <1>4, <1>5, <1>6, QuietStep

-----------------------------------------------------------------------------
(* The manager. *)

LEMMA JobsTyped ==
    /\ \A e \in Employees, n \in 1..MaxEnrolls :
         EnrollJob(e, n) \in Job /\ EnrollJob(e, n).cmd = "ENROLL" /\ EnrollJob(e, n).emp = e
    /\ \A e \in Employees, s \in 0..MaxSlot :
         DeleteJob(e, s) \in Job /\ DeleteJob(e, s).cmd = "DELETE" /\ DeleteJob(e, s).slot = s
    /\ \A j \in Job : /\ CommandOf(j) \in Command /\ CommandOf(j).cmd = j.cmd
                      /\ j.cmd = "ENROLL" => CommandOf(j).emp = j.emp
                      /\ j.cmd = "DELETE" => CommandOf(j) = DeleteCommand(j.slot)
                      /\ j.cmd = "ENROLL" => j = EnrollJob(j.emp, j.nth) /\ j.nth \in 1..MaxEnrolls
                      /\ j.cmd \in {"ENROLL", "DELETE"} /\ j.emp \in Employees /\ j.slot \in 0..MaxSlot
<1>1. /\ \A e \in Employees, n \in 1..MaxEnrolls :
           EnrollJob(e, n) \in Job /\ EnrollJob(e, n).cmd = "ENROLL" /\ EnrollJob(e, n).emp = e
      /\ \A e \in Employees, s \in 0..MaxSlot :
           DeleteJob(e, s) \in Job /\ DeleteJob(e, s).cmd = "DELETE" /\ DeleteJob(e, s).slot = s
  BY SizeAssumption DEF EnrollJob, DeleteJob, Job
<1>3. \A j \in Job : j.cmd = "ENROLL" => j = EnrollJob(j.emp, j.nth) /\ j.nth \in 1..MaxEnrolls
  BY DEF EnrollJob, Job
<1>4. \A j \in Job : j.cmd \in {"ENROLL", "DELETE"} /\ j.emp \in Employees /\ j.slot \in 0..MaxSlot
  BY SizeAssumption DEF Job
<1>2. \A j \in Job : /\ CommandOf(j) \in Command /\ CommandOf(j).cmd = j.cmd
                     /\ j.cmd = "ENROLL" => CommandOf(j).emp = j.emp
                     /\ j.cmd = "DELETE" => CommandOf(j) = DeleteCommand(j.slot)
  <2> SUFFICES ASSUME NEW j \in Job
               PROVE  /\ CommandOf(j) \in Command /\ CommandOf(j).cmd = j.cmd
                      /\ j.cmd = "ENROLL" => CommandOf(j).emp = j.emp
                      /\ j.cmd = "DELETE" => CommandOf(j) = DeleteCommand(j.slot)
    OBVIOUS
  <2>1. j.cmd \in {"ENROLL", "DELETE"} /\ j.emp \in Employees /\ j.slot \in 0..MaxSlot
    BY <1>4
  <2>2. CASE j.cmd = "ENROLL"
    BY <2>1, <2>2, CommandsTyped DEF CommandOf
  <2>3. CASE j.cmd = "DELETE"
    BY <2>1, <2>3, CommandsTyped DEF CommandOf
  <2> QED
    BY <2>1, <2>2, <2>3
<1> QED
  BY <1>1, <1>2, <1>3, <1>4

\* A new enrolment that does not overrun the last one is alone.
LEMMA StartEnrollKeeps ==
    ASSUME IInv, NEW d \in Devices, NEW e \in Employees, StartEnroll(d, e)
    PROVE  IInv'
<1> DEFINE j == EnrollJob(e, started[e] + 1)
<1>1. /\ TypeOK /\ started[e] < MaxEnrolls
      /\ intent' = [intent EXCEPT ![d] = e]
      /\ unsent' = [unsent EXCEPT ![d] = unsent[d] \cup {j}]
      /\ started' = [started EXCEPT ![e] = started[e] + 1]
      /\ crossed' = (crossed \/ \E x \in Devices : Unfinished(x))
      /\ overrun' = (overrun \/ SessionOpen(d))
      /\ UNCHANGED <<template, mapping, request, inbox, deviceVars, misbooked, repeated,
                     removed, undercut, faults>>
  BY DEF IInv, StartEnroll, NewIntent, TypeOK
<1>2. j \in Job /\ j.cmd = "ENROLL" /\ j.emp = e
  <2>1. started[e] + 1 \in 1..MaxEnrolls
    BY <1>1, SizeAssumption DEF TypeOK
  <2> QED
    BY <2>1, JobsTyped
<1> HIDE DEF j
<1>3. /\ unsent' \in [Devices -> SUBSET Job] /\ unsent'[d] = unsent[d] \cup {j}
      /\ \A x \in Devices : x # d => unsent'[x] = unsent[x]
  BY <1>1, <1>2 DEF TypeOK
<1>5. started' \in [Employees -> 0..MaxEnrolls]
  BY <1>1, SizeAssumption DEF TypeOK
<1>6. intent' \in [Devices -> Person] /\ intent'[d] = e /\ \A x \in Devices : x # d => intent'[x] = intent[x]
  BY <1>1, NothingTyped DEF TypeOK
<1>7. crossed' \in BOOLEAN /\ overrun' \in BOOLEAN
  BY <1>1
<1>8. TypeOK'
  BY <1>1, <1>3, <1>5, <1>6, <1>7 DEF TypeOK, deviceVars
<1>9. AttemptsLeft' /\ EntryIsNamed'
  BY <1>1, CallsKept DEF IInv, CallKept, deviceVars
<1>10. ScansAreFingers' /\ SequentialEnrolmentIsOwn'
  BY <1>1 DEF IInv, ScansAreFingers, SequentialEnrolmentIsOwn
<1>11. Sessions'
  <2> SUFFICES ASSUME ~overrun', NEW x \in Devices
               PROVE  \E o \in Person : ForOne(x, o)'
    BY DEF Sessions
  <2>1. ~overrun /\ ~SessionOpen(d)
    BY <1>1
  <2>2. PICK o \in Person : ForOne(x, o)
    BY <2>1 DEF IInv, Sessions
  <2>3. CASE x # d
    <3>1. EnrollKept(x) /\ RequestKept(x) /\ IntentKept(x) /\ NoNewEnroll(x)
      BY <1>1, <1>3, <1>6, <2>3, SameMailbox DEF EnrollKept, RequestKept, IntentKept, deviceVars
    <3> QED
      BY <2>2, <3>1, SessionKept
  <2>4. CASE x = d
    <3>1. Enrolls(d) = {} /\ ~Reporting(d) /\ ~Choosing(d) /\ \A k \in unsent[d] : k.cmd # "ENROLL"
      BY <2>1 DEF SessionOpen, Enrolls, Reporting, Choosing
    <3>2. Enrolls(d)' = {} /\ ~Reporting(d)' /\ ~Choosing(d)'
      BY <1>1, <3>1 DEF Enrolls, Reporting, Choosing, deviceVars
    <3>3. \A k \in unsent'[d] : k.cmd = "ENROLL" => k.emp = e
      BY <1>2, <1>3, <3>1
    <3>4. ForOne(d, e)'
      BY <1>6, <3>2, <3>3 DEF ForOne
    <3> QED
      BY <2>4, <3>4, NothingTyped
  <2> QED
    BY <2>3, <2>4
<1> QED
  BY <1>8, <1>9, <1>10, <1>11 DEF IInv

LEMMA RemoveFingerprintKeeps ==
    ASSUME IInv, NEW e \in Employees, RemoveFingerprint(e)
    PROVE  IInv'
<1>1. /\ TypeOK
      /\ mapping' = [d \in Devices |-> [mapping[d] EXCEPT ![e] = 0]]
      /\ template' = [template EXCEPT ![e] = NoOne]
      /\ unsent' = [d \in Devices |->
           IF mapping[d][e] = 0 THEN unsent[d] ELSE unsent[d] \cup {DeleteJob(e, mapping[d][e])}]
      /\ removed' = removed \cup {e} /\ undercut' \in BOOLEAN
      /\ UNCHANGED <<intent, request, inbox, deviceVars, misbooked, started, repeated,
                     crossed, overrun, faults>>
  BY DEF IInv, TypeOK, RemoveFingerprint
<1>2. \A x \in Devices : /\ unsent'[x] \subseteq Job
                         /\ \A j \in unsent'[x] : j.cmd = "ENROLL" => j \in unsent[x]
  <2> SUFFICES ASSUME NEW x \in Devices
               PROVE  /\ unsent'[x] \subseteq Job
                      /\ \A j \in unsent'[x] : j.cmd = "ENROLL" => j \in unsent[x]
    OBVIOUS
  <2>1. /\ DeleteJob(e, mapping[x][e]) \in Job
        /\ DeleteJob(e, mapping[x][e]).cmd # "ENROLL"
    <3>1. mapping[x][e] \in 0..MaxSlot
      BY <1>1 DEF TypeOK
    <3> QED
      BY <3>1, JobsTyped
  <2>2. unsent[x] \subseteq Job
    BY <1>1 DEF TypeOK
  <2> QED
    BY <1>1, <2>1, <2>2
<1>3. unsent' \in [Devices -> SUBSET Job]
  BY <1>1, <1>2
<1>4. mapping' \in [Devices -> [Employees -> 0..MaxSlot]]
  BY <1>1, SizeAssumption DEF TypeOK
<1>5. template' \in [Employees -> Person] /\ \A o \in Employees : template'[o] \in {template[o], NoOne}
  BY <1>1, NothingTyped DEF TypeOK
<1>6. TypeOK'
  BY <1>1, <1>3, <1>4, <1>5 DEF TypeOK, deviceVars
<1>7. AttemptsLeft' /\ EntryIsNamed'
  BY <1>1, CallsKept DEF IInv, CallKept, deviceVars
<1>8. ScansAreFingers' /\ SequentialEnrolmentIsOwn'
  BY <1>1, <1>5 DEF IInv, ScansAreFingers, SequentialEnrolmentIsOwn
<1>9. Sessions'
  <2> SUFFICES ASSUME ~overrun, NEW x \in Devices
               PROVE  \E o \in Person : ForOne(x, o)'
    BY <1>1 DEF Sessions
  <2>1. PICK o \in Person : ForOne(x, o)
    BY DEF IInv, Sessions
  <2>2. EnrollKept(x) /\ RequestKept(x) /\ IntentKept(x)
    BY <1>1 DEF EnrollKept, RequestKept, IntentKept, deviceVars
  <2>3. NoNewEnroll(x)
    BY <1>1, <1>2 DEF NoNewEnroll, Enrolls
  <2> QED
    BY <2>1, <2>2, <2>3, SessionKept
<1> QED
  BY <1>6, <1>7, <1>8, <1>9 DEF IInv

\* A handler's command arrives, and is or is not to be sent again.
LEMMA CommandSent ==
    ASSUME IInv, NEW d \in Devices, NEW j \in unsent[d],
           inbox' = [inbox EXCEPT ![d] = Append(inbox[d], CommandOf(j))] \/ inbox' = inbox,
           unsent' = [unsent EXCEPT ![d] = unsent[d] \ {j}] \/ unsent' = unsent,
           repeated' \in [Employees -> Nat], faults' \in 0..MaxFaults,
           UNCHANGED <<template, mapping, intent, request, deviceVars,
                       misbooked, started, removed, crossed, undercut, overrun>>
    PROVE  IInv'
<1>1. TypeOK /\ j \in Job
  BY DEF IInv, TypeOK
<1>2. CommandOf(j) \in Command /\ CommandOf(j).cmd = j.cmd
      /\ (j.cmd = "ENROLL" => CommandOf(j).emp = j.emp)
  BY <1>1, JobsTyped
<1>3. unsent' \in [Devices -> SUBSET Job] /\ \A x \in Devices : unsent'[x] \subseteq unsent[x]
  BY <1>1 DEF TypeOK
<1>4. \A x \in Devices : inbox'[x] \in Seq(Command) /\ NoNewEnroll(x)
  <2> SUFFICES ASSUME NEW x \in Devices PROVE inbox'[x] \in Seq(Command) /\ NoNewEnroll(x)
    OBVIOUS
  <2>1. inbox'[x] = inbox[x] \/ (x = d /\ inbox'[x] = Append(inbox[x], CommandOf(j)))
    BY <1>1 DEF TypeOK
  <2>2. CASE inbox'[x] = inbox[x]
    BY <1>1, <1>3, <2>2 DEF TypeOK, NoNewEnroll, Enrolls
  <2>3. CASE x = d /\ inbox'[x] = Append(inbox[x], CommandOf(j))
    <3> DEFINE m == CommandOf(j)
    <3>1. m \in Command /\ (m.cmd # "ENROLL" \/ \E k \in unsent[x] : k.cmd = "ENROLL" /\ m.emp = k.emp)
      BY <1>2, <2>3
    <3> HIDE DEF m
    <3>2. inbox'[x] = Append(inbox[x], m)
      BY <2>3 DEF m
    <3>3. \A k \in unsent'[x] : k.cmd = "ENROLL" => k \in unsent[x]
      BY <1>3
    <3> QED
      BY <1>1, <3>1, <3>2, <3>3, Received
  <2> QED
    BY <2>1, <2>2, <2>3
<1>5. inbox' \in [Devices -> Seq(Command)]
  BY <1>1, <1>4 DEF TypeOK
<1>6. TypeOK'
  BY <1>1, <1>3, <1>5 DEF TypeOK, deviceVars
<1>7. AttemptsLeft' /\ EntryIsNamed'
  BY CallsKept DEF IInv, CallKept, deviceVars
<1>8. \A x \in Devices : EnrollKept(x) /\ RequestKept(x) /\ IntentKept(x)
  BY DEF EnrollKept, RequestKept, IntentKept, deviceVars
<1> QED
  BY <1>4, <1>6, <1>7, <1>8, QuietStep

LEMMA PublishCommandKeeps ==
    ASSUME IInv, NEW d \in Devices, NEW j \in unsent[d], PublishCommand(d, j)
    PROVE  IInv'
<1>1. /\ TypeOK
      /\ inbox' = [inbox EXCEPT ![d] = Append(inbox[d], CommandOf(j))]
      /\ unsent' = [unsent EXCEPT ![d] = unsent[d] \ {j}]
      /\ UNCHANGED <<template, mapping, intent, request, deviceVars, historyVars>>
  BY DEF IInv, TypeOK, PublishCommand
<1>2. repeated' \in [Employees -> Nat] /\ faults' \in 0..MaxFaults
  BY <1>1 DEF TypeOK, historyVars
<1> QED
  BY <1>1, <1>2, CommandSent DEF historyVars

-----------------------------------------------------------------------------
(* The terminal. *)

\* The one command to enrol opens the one session.
LEMMA ReceiveEnrollKeeps ==
    ASSUME IInv, NEW d \in Devices, ReceiveEnroll(d)
    PROVE  IInv'
<1> DEFINE m == Head(inbox[d])
<1> DEFINE n == [state |-> "FIND_EMPTY_SLOT", slot |-> 0, person |-> m.emp]
<1>1. /\ TypeOK /\ inbox[d] # <<>> /\ m.cmd = "ENROLL" /\ Consume(d)
      /\ enroll' = [enroll EXCEPT ![d] = n]
      /\ UNCHANGED <<backendVars, sensor, pending, call, historyVars>>
  BY DEF IInv, ReceiveEnroll, NextCommand
<1>2. /\ m \in Command
      /\ inbox' \in [Devices -> Seq(Command)]
      /\ 1 \in DOMAIN inbox[d] /\ inbox[d][1] = m
      /\ \A x \in Devices : NoNewEnroll(x)
  BY <1>1, Consumed DEF backendVars
<1> HIDE DEF m
<1>3. n \in Enroll /\ n.state = "FIND_EMPTY_SLOT" /\ n.person = m.emp
  BY <1>2, SizeAssumption DEF Command, Enroll
<1> HIDE DEF n
<1>4. enroll' \in [Devices -> Enroll] /\ enroll'[d] = n
      /\ \A x \in Devices : x # d => enroll'[x] = enroll[x]
  BY <1>1, <1>3 DEF TypeOK
<1>5. TypeOK'
  BY <1>1, <1>2, <1>4 DEF TypeOK, backendVars, historyVars
<1>6. AttemptsLeft' /\ EntryIsNamed'
  BY <1>1, CallsKept DEF IInv, CallKept
<1>7. ScansAreFingers' /\ SequentialEnrolmentIsOwn'
  BY <1>1 DEF IInv, ScansAreFingers, SequentialEnrolmentIsOwn, backendVars, historyVars
<1>8. Sessions'
  <2> SUFFICES ASSUME ~overrun, NEW x \in Devices
               PROVE  \E e \in Person : ForOne(x, e)'
    BY <1>1 DEF Sessions, historyVars
  <2>1. PICK e \in Person : ForOne(x, e)
    BY DEF IInv, Sessions
  <2>2. RequestKept(x) /\ IntentKept(x)
    BY <1>1 DEF RequestKept, IntentKept, backendVars
  <2>3. CASE x # d
    <3>1. EnrollKept(x)
      BY <1>4, <2>3 DEF EnrollKept
    <3> QED
      BY <1>2, <2>1, <2>2, <3>1, SessionKept
  <2>4. CASE x = d
    <3>1. m.emp = e
      <4>1. 1 \in Enrolls(d)
        BY <1>1, <1>2 DEF Enrolls, m
      <4> QED
        BY <1>2, <2>1, <2>4, <4>1 DEF ForOne
    <3>2. Choosing(d)' => enroll'[d].person = e
      BY <1>3, <1>4, <3>1
    <3>3. /\ intent'[d] \in {NoOne, e}
          /\ \A j \in unsent'[d] : j.cmd = "ENROLL" => j.emp = e
          /\ \A i \in Enrolls(d)' : inbox'[d][i].emp = e
      BY <1>2, <2>1, <2>2, <2>4 DEF ForOne, IntentKept, NoNewEnroll
    <3>4. Reporting(d)' => /\ request'[d].finger = e
                           /\ request'[d].step # "received" => request'[d].emp = e
      BY <2>1, <2>2, <2>4 DEF ForOne, RequestKept, Reporting
    <3> QED
      BY <2>4, <3>2, <3>3, <3>4 DEF ForOne
  <2> QED
    BY <2>3, <2>4
<1> QED
  BY <1>5, <1>6, <1>7, <1>8 DEF IInv

LEMMA IgnoreSyncKeeps ==
    ASSUME IInv, NEW d \in Devices, IgnoreSync(d)
    PROVE  IInv'
<1>1. /\ TypeOK /\ inbox[d] # <<>> /\ Consume(d)
      /\ UNCHANGED <<backendVars, deviceVars, historyVars>>
  BY DEF IInv, IgnoreSync, NextCommand
<1>2. inbox' \in [Devices -> Seq(Command)] /\ \A x \in Devices : NoNewEnroll(x)
  BY <1>1, Consumed DEF backendVars
<1>3. TypeOK'
  BY <1>1, <1>2 DEF TypeOK, backendVars, deviceVars, historyVars
<1>4. AttemptsLeft' /\ EntryIsNamed'
  BY <1>1, CallsKept DEF IInv, CallKept, deviceVars
<1>5. \A x \in Devices : EnrollKept(x) /\ RequestKept(x) /\ IntentKept(x)
  BY <1>1 DEF EnrollKept, RequestKept, IntentKept, backendVars, deviceVars
<1> QED
  BY <1>1, <1>2, <1>3, <1>4, <1>5, QuietStep DEF backendVars, historyVars

LEMMA SensorWritten ==
    ASSUME TypeOK, NEW d \in Devices, NEW s \in 0..MaxSlot, NEW p \in Person,
           sensor' = [sensor EXCEPT ![d][s] = p]
    PROVE  sensor' \in [Devices -> [Slots -> Person]]
<1> DEFINE slots == [sensor[d] EXCEPT ![s] = p]
<1>1. slots \in [Slots -> Person] /\ sensor' = [sensor EXCEPT ![d] = slots]
  BY DEF TypeOK
<1> HIDE DEF slots
<1> QED
  BY <1>1 DEF TypeOK

\* One attempt more for entry i of a queue, and the call that makes it.
LEMMA AttemptMade ==
    ASSUME TypeOK, AttemptsLeft, EntryIsNamed, NEW d \in Devices, NEW i \in Entries,
           NEW queue \in [Entries -> Entry], \A k \in Entries : queue[k].attempts < MaxAttempts,
           pending' = [pending EXCEPT ![d] = [queue EXCEPT ![i].attempts = queue[i].attempts + 1]],
           Send(d, "mapping", i, queue[i].slot, queue[i].emp, NoOne)
    PROVE  /\ pending' \in [Devices -> [Entries -> Entry]]
           /\ request' \in [Devices -> Request] /\ call' \in [Devices -> Call]
           /\ AttemptsLeft' /\ EntryIsNamed'
           /\ \A x \in Devices : RequestKept(x)
<1> DEFINE tried == [queue EXCEPT ![i].attempts = queue[i].attempts + 1]
<1>1. queue[i] \in Entry /\ i \in 0..MaxPending
  BY SizeAssumption DEF Entries
<1>2. /\ request' \in [Devices -> Request] /\ call' \in [Devices -> Call]
      /\ request'[d].kind = "mapping"
      /\ call'[d].kind = "mapping" /\ call'[d].entry = i
      /\ \A x \in Devices : x # d => request'[x] = request[x] /\ call'[x] = call[x]
  <2>1. queue[i].slot \in 0..MaxSlot /\ queue[i].emp \in Person /\ NoOne \in Person
    BY <1>1, NothingTyped DEF Entry
  <2>2. /\ request' \in [Devices -> Request] /\ call' \in [Devices -> Call]
        /\ request'[d] = [kind |-> "mapping", step |-> "received", emp |-> queue[i].emp,
                          finger |-> NoOne, slot |-> queue[i].slot]
        /\ call'[d].kind = "mapping" /\ call'[d].entry = i
        /\ \A x \in Devices : x # d => request'[x] = request[x] /\ call'[x] = call[x]
    BY <1>1, <2>1, SendTyped
  <2> QED
    BY <2>2
<1>3. tried \in [Entries -> Entry] /\ \A k \in Entries : k # i => tried[k] = queue[k]
  BY <1>1, SizeAssumption DEF Entry
<1> HIDE DEF tried
<1>4. pending' \in [Devices -> [Entries -> Entry]] /\ pending'[d] = tried
      /\ \A x \in Devices : x # d => pending'[x] = pending[x]
  BY <1>3 DEF TypeOK, tried
<1>5. AttemptsLeft'
  <2> SUFFICES ASSUME NEW x \in Devices, NEW k \in Entries
               PROVE  \/ pending'[x][k].attempts < MaxAttempts
                      \/ call'[x].kind = "mapping" /\ call'[x].entry = k
    BY DEF AttemptsLeft
  <2>1. CASE x # d
    BY <1>2, <1>4, <2>1 DEF AttemptsLeft
  <2>2. CASE x = d
    BY <1>2, <1>3, <1>4, <2>2
  <2> QED
    BY <2>1, <2>2
<1>6. EntryIsNamed'
  BY <1>2 DEF EntryIsNamed
<1>7. \A x \in Devices : RequestKept(x)
  BY <1>2 DEF RequestKept, Reporting
<1> QED
  BY <1>2, <1>4, <1>5, <1>6, <1>7

LEMMA StoreSyncKeeps ==
    ASSUME IInv, NEW d \in Devices, StoreSync(d)
    PROVE  IInv'
<1> DEFINE m == Head(inbox[d])
<1> DEFINE s == FirstFree(d)
<1> DEFINE new == [emp |-> m.emp, slot |-> s, attempts |-> 0]
<1>1. /\ TypeOK /\ call[d] = NoCall /\ inbox[d] # <<>> /\ Consume(d) /\ FreeSlots(d) # {}
      /\ sensor' = [sensor EXCEPT ![d][s] = m.finger]
      /\ UNCHANGED <<template, mapping, intent, unsent, enroll, historyVars>>
  BY DEF IInv, StoreSync, NextCommand, Idle, Ignored
<1>2. /\ m \in Command /\ inbox' \in [Devices -> Seq(Command)]
      /\ \A x \in Devices : NoNewEnroll(x)
  BY <1>1, Consumed DEF backendVars
<1>3. s \in 0..MaxSlot /\ m.finger \in Person /\ m.emp \in Person
  BY <1>2, FirstFreeType DEF Command
<1>4. sensor' \in [Devices -> [Slots -> Person]]
  BY <1>1, <1>3, SensorWritten
<1>5. /\ pending' \in [Devices -> [Entries -> Entry]]
      /\ request' \in [Devices -> Request] /\ call' \in [Devices -> Call]
      /\ AttemptsLeft' /\ EntryIsNamed'
      /\ \A x \in Devices : RequestKept(x)
  <2>1. CASE FreeEntries(d) = {}
    <3>1. UNCHANGED <<pending, call, request>>
      BY <2>1 DEF StoreSync
    <3> QED
      BY <1>1, <3>1, CallsKept DEF IInv, TypeOK, CallKept, RequestKept
  <2>2. CASE FreeEntries(d) # {}
    <3> DEFINE j == FirstFreeEntry(d)
    <3> DEFINE queue == [pending[d] EXCEPT ![j] = new]
    <3>1. PICK i \in 1..j :
            /\ pending' = [pending EXCEPT ![d] = [queue EXCEPT ![i].attempts = @ + 1]]
            /\ Send(d, "mapping", i, queue[i].slot, queue[i].emp, NoOne)
      BY <2>2 DEF StoreSync
    <3>2. j \in Entries
      BY <2>2, FirstFreeEntryType
    <3>3. i \in Entries
      BY <3>2, SizeAssumption DEF Entries
    <3>4. new \in Entry /\ new.attempts = 0
      BY <1>3, SizeAssumption DEF Entry
    <3> HIDE DEF j, new
    <3>5. queue \in [Entries -> Entry] /\ \A k \in Entries : queue[k] \in {pending[d][k], new}
      BY <1>1, <3>2, <3>4 DEF TypeOK
    <3>6. \A k \in Entries : pending[d][k].attempts < MaxAttempts
      BY <1>1, NothingTyped DEF IInv, AttemptsLeft
    <3>7. \A k \in Entries : queue[k].attempts < MaxAttempts
      BY <3>4, <3>5, <3>6, SizeAssumption
    <3>8. queue[i] \in Entry
      BY <3>3, <3>5
    <3> HIDE DEF queue
    <3>9. \E q \in [Entries -> Entry] :
            /\ \A k \in Entries : q[k].attempts < MaxAttempts
            /\ pending' = [pending EXCEPT ![d] = [q EXCEPT ![i].attempts = q[i].attempts + 1]]
            /\ Send(d, "mapping", i, q[i].slot, q[i].emp, NoOne)
      BY <3>1, <3>5, <3>7
    <3> QED
      BY <1>1, <3>3, <3>9, AttemptMade DEF IInv
  <2> QED
    BY <2>1, <2>2
<1>6. TypeOK'
  BY <1>1, <1>2, <1>4, <1>5 DEF TypeOK, historyVars
<1>7. \A x \in Devices : EnrollKept(x) /\ IntentKept(x)
  BY <1>1 DEF EnrollKept, IntentKept
<1> QED
  BY <1>1, <1>2, <1>5, <1>6, <1>7, QuietStep DEF historyVars

LEMMA RetryMappingKeeps ==
    ASSUME IInv, NEW d \in Devices, NEW i \in Entries, RetryMapping(d, i)
    PROVE  IInv'
<1>1. /\ TypeOK /\ AttemptsLeft /\ EntryIsNamed /\ call[d] = NoCall
      /\ pending' = [pending EXCEPT ![d][i].attempts = pending[d][i].attempts + 1]
      /\ Send(d, "mapping", i, pending[d][i].slot, pending[d][i].emp, NoOne)
      /\ UNCHANGED <<template, mapping, intent, unsent, inbox, sensor, enroll, historyVars>>
  BY DEF IInv, RetryMapping, Idle, TypeOK
<1>2. \E q \in [Entries -> Entry] :
        /\ \A k \in Entries : q[k].attempts < MaxAttempts
        /\ pending' = [pending EXCEPT ![d] = [q EXCEPT ![i].attempts = q[i].attempts + 1]]
        /\ Send(d, "mapping", i, q[i].slot, q[i].emp, NoOne)
  <2>1. pending[d] \in [Entries -> Entry]
    BY <1>1 DEF TypeOK
  <2>2. \A k \in Entries : pending[d][k].attempts < MaxAttempts
    BY <1>1, NothingTyped DEF AttemptsLeft
  <2>3. pending' = [pending EXCEPT ![d] = [pending[d] EXCEPT ![i].attempts = pending[d][i].attempts + 1]]
    BY <1>1 DEF TypeOK
  <2> QED
    BY <1>1, <2>1, <2>2, <2>3
<1>3. /\ pending' \in [Devices -> [Entries -> Entry]]
      /\ request' \in [Devices -> Request] /\ call' \in [Devices -> Call]
      /\ AttemptsLeft' /\ EntryIsNamed'
      /\ \A x \in Devices : RequestKept(x)
  BY <1>1, <1>2, AttemptMade
<1>4. TypeOK'
  BY <1>1, <1>3 DEF TypeOK, historyVars
<1>5. \A x \in Devices : EnrollKept(x) /\ IntentKept(x) /\ NoNewEnroll(x)
  BY <1>1, SameMailbox DEF EnrollKept, IntentKept
<1> QED
  BY <1>1, <1>3, <1>4, <1>5, QuietStep DEF historyVars

LEMMA CallOver ==
    ASSUME TypeOK, NEW d \in Devices, call' = [call EXCEPT ![d] = NoCall]
    PROVE  /\ call' \in [Devices -> Call] /\ call'[d] = NoCall
           /\ \A x \in Devices : x # d => call'[x] = call[x]
BY NothingTyped DEF TypeOK

LEMMA MappingAnsweredKeeps ==
    ASSUME IInv, NEW d \in Devices, MappingAnswered(d)
    PROVE  IInv'
<1> DEFINE i == call[d].entry
<1> DEFINE e == pending[d][i]
<1> DEFINE ok == call[d].answer = "ok"
<1>1. /\ TypeOK /\ call[d].kind = "mapping"
      /\ pending' = IF ok \/ Exhausted(e) THEN [pending EXCEPT ![d][i] = NoEntry] ELSE pending
      /\ sensor' = IF ~ok /\ Exhausted(e) THEN [sensor EXCEPT ![d][e.slot] = NoOne] ELSE sensor
      /\ call' = [call EXCEPT ![d] = NoCall]
      /\ UNCHANGED <<backendVars, inbox, enroll, historyVars>>
  BY DEF IInv, MappingAnswered, Answered
<1>2. i \in Entries /\ e \in Entry
  BY <1>1 DEF IInv, EntryIsNamed, TypeOK
<1>3. sensor' \in [Devices -> [Slots -> Person]]
  <2>1. e.slot \in 0..MaxSlot
    BY <1>2 DEF Entry
  <2> HIDE DEF e, ok
  <2> QED
    BY <1>1, <2>1, SensorWritten, NothingTyped DEF TypeOK
<1>4. /\ pending' \in [Devices -> [Entries -> Entry]]
      /\ \A x \in Devices : x # d => pending'[x] = pending[x]
      /\ \A k \in Entries : k # i => pending'[d][k] = pending[d][k]
      /\ pending'[d][i].attempts < MaxAttempts
  <2>1. CASE ok \/ Exhausted(e)
    <3> DEFINE row == [pending[d] EXCEPT ![i] = NoEntry]
    <3>1. pending' = [pending EXCEPT ![d] = row]
      BY <1>1, <2>1 DEF TypeOK
    <3>2. row \in [Entries -> Entry] /\ row[i] = NoEntry
          /\ \A k \in Entries : k # i => row[k] = pending[d][k]
      BY <1>1, <1>2, NothingTyped DEF TypeOK
    <3> HIDE DEF row, i, e, ok
    <3>3. pending' \in [Devices -> [Entries -> Entry]] /\ pending'[d] = row
          /\ \A x \in Devices : x # d => pending'[x] = pending[x]
      BY <1>1, <3>1, <3>2 DEF TypeOK
    <3> QED
      BY <3>2, <3>3, NothingTyped, SizeAssumption
  <2>2. CASE ~(ok \/ Exhausted(e))
    <3>1. pending' = pending
      BY <1>1, <2>2
    <3>2. e.attempts < MaxAttempts
      BY <1>2, <2>2, SizeAssumption DEF Exhausted, Entry
    <3> QED
      BY <1>1, <3>1, <3>2 DEF TypeOK
  <2> QED
    BY <2>1, <2>2
<1>5. /\ call' \in [Devices -> Call] /\ call'[d] = NoCall
      /\ \A x \in Devices : x # d => call'[x] = call[x]
  BY <1>1, CallOver
<1>6. TypeOK'
  BY <1>1, <1>3, <1>4, <1>5 DEF TypeOK, backendVars, historyVars
<1>7. AttemptsLeft'
  <2> SUFFICES ASSUME NEW x \in Devices, NEW k \in Entries
               PROVE  \/ pending'[x][k].attempts < MaxAttempts
                      \/ call'[x].kind = "mapping" /\ call'[x].entry = k
    BY DEF AttemptsLeft
  <2>1. \/ pending[x][k].attempts < MaxAttempts
        \/ call[x].kind = "mapping" /\ call[x].entry = k
    BY DEF IInv, AttemptsLeft
  <2>2. CASE x # d
    BY <1>4, <1>5, <2>1, <2>2
  <2>3. CASE x = d
    BY <1>4, <2>1, <2>3
  <2> QED
    BY <2>2, <2>3
<1>8. EntryIsNamed'
  BY <1>5, NothingTyped DEF IInv, EntryIsNamed
<1>9. \A x \in Devices : EnrollKept(x) /\ RequestKept(x) /\ IntentKept(x) /\ NoNewEnroll(x)
  BY <1>1, SameMailbox DEF EnrollKept, RequestKept, IntentKept, backendVars
<1> QED
  BY <1>1, <1>6, <1>7, <1>8, <1>9, QuietStep DEF backendVars, historyVars

LEMMA ReceiveDeleteKeeps ==
    ASSUME IInv, NEW d \in Devices, ReceiveDelete(d)
    PROVE  IInv'
<1> DEFINE m == Head(inbox[d])
<1>1. /\ TypeOK /\ inbox[d] # <<>> /\ Consume(d)
      /\ sensor' = sensor \/ sensor' = [sensor EXCEPT ![d][m.slot] = NoOne]
      /\ UNCHANGED <<backendVars, pending, enroll, call, historyVars>>
  BY DEF IInv, ReceiveDelete, NextCommand
<1>2. /\ m \in Command /\ inbox' \in [Devices -> Seq(Command)]
      /\ \A x \in Devices : NoNewEnroll(x)
  BY <1>1, Consumed DEF backendVars
<1>3. m.slot \in 0..MaxSlot
  BY <1>2 DEF Command
<1> HIDE DEF m
<1>4. sensor' \in [Devices -> [Slots -> Person]]
  BY <1>1, <1>3, SensorWritten, NothingTyped DEF TypeOK
<1>5. TypeOK'
  BY <1>1, <1>2, <1>4 DEF TypeOK, backendVars, historyVars
<1>6. AttemptsLeft' /\ EntryIsNamed'
  BY <1>1, CallsKept DEF IInv, CallKept
<1>7. \A x \in Devices : EnrollKept(x) /\ RequestKept(x) /\ IntentKept(x)
  BY <1>1 DEF EnrollKept, RequestKept, IntentKept, backendVars
<1> QED
  BY <1>1, <1>2, <1>5, <1>6, <1>7, QuietStep DEF backendVars, historyVars

\* A step of the enrolment session that sends nothing.
LEMMA SessionStep ==
    ASSUME IInv, NEW d \in Devices, NEW n \in Enroll,
           enroll' = [enroll EXCEPT ![d] = n],
           n.state \in {"IDLE", "RESULT"} \/ (Choosing(d) /\ n.person = enroll[d].person),
           call' = call \/ (call[d].kind = "fingerprint" /\ call' = [call EXCEPT ![d] = NoCall]),
           UNCHANGED <<backendVars, inbox, sensor, pending,
                       misbooked, started, repeated, removed, crossed, undercut, overrun>>,
           faults' \in 0..MaxFaults
    PROVE  IInv'
<1>1. TypeOK
  BY DEF IInv
<1>2. enroll' \in [Devices -> Enroll] /\ enroll'[d] = n
      /\ \A x \in Devices : x # d => enroll'[x] = enroll[x]
  BY <1>1 DEF TypeOK
<1>3. call' \in [Devices -> Call] /\ \A x \in Devices : CallKept(x)
  <2>1. CASE call' = call
    BY <1>1, <2>1 DEF TypeOK, CallKept
  <2>2. CASE call[d].kind = "fingerprint" /\ call' = [call EXCEPT ![d] = NoCall]
    BY <1>1, <2>2, CallOver, NothingTyped DEF CallKept
  <2> QED
    BY <2>1, <2>2
<1>4. TypeOK'
  BY <1>1, <1>2, <1>3 DEF TypeOK, backendVars
<1>5. AttemptsLeft' /\ EntryIsNamed'
  BY <1>3, CallsKept DEF IInv
<1>6. \A x \in Devices : EnrollKept(x)
  BY <1>2 DEF EnrollKept, Between
<1>7. \A x \in Devices : RequestKept(x) /\ IntentKept(x) /\ NoNewEnroll(x)
  BY <1>1, SameMailbox DEF RequestKept, IntentKept, backendVars
<1> QED
  BY <1>4, <1>5, <1>6, <1>7, QuietStep DEF backendVars

LEMMA FindSlotKeeps ==
    ASSUME IInv, NEW d \in Devices, FindSlot(d)
    PROVE  IInv'
<1> DEFINE s == FirstFree(d)
<1> DEFINE n == [enroll[d] EXCEPT !.slot = s, !.state = IF s = 0 THEN "RESULT" ELSE "WAIT_FINGER"]
<1>1. /\ enroll \in [Devices -> Enroll] /\ enroll[d] \in Enroll /\ faults \in 0..MaxFaults
      /\ enroll[d].state = "FIND_EMPTY_SLOT" /\ s \in 0..MaxSlot
  BY FirstFreeType DEF IInv, TypeOK, FindSlot
<1>2. /\ enroll' = [enroll EXCEPT ![d].slot = s, ![d].state = IF s = 0 THEN "RESULT" ELSE "WAIT_FINGER"]
      /\ UNCHANGED <<backendVars, inbox, sensor, pending, call, historyVars>>
  BY DEF FindSlot
<1> HIDE DEF s
<1>3. enroll' = [enroll EXCEPT ![d] = n]
  BY <1>1, <1>2
<1>4. n \in Enroll /\ n.person = enroll[d].person
  BY <1>1 DEF Enroll
<1> HIDE DEF n
<1> QED
  BY <1>1, <1>2, <1>3, <1>4, SessionStep DEF Choosing, historyVars

LEMMA FingerAnsweredKeeps ==
    ASSUME IInv, NEW d \in Devices, FingerAnswered(d)
    PROVE  IInv'
<1> DEFINE n == [enroll[d] EXCEPT !.state = "RESULT"]
<1>1. enroll \in [Devices -> Enroll] /\ enroll[d] \in Enroll /\ faults \in 0..MaxFaults
  BY DEF IInv, TypeOK
<1>2. /\ enroll' = [enroll EXCEPT ![d].state = "RESULT"]
      /\ call[d].kind = "fingerprint" /\ call' = [call EXCEPT ![d] = NoCall]
      /\ UNCHANGED <<backendVars, inbox, sensor, pending, historyVars>>
  BY DEF FingerAnswered, Answered
<1>3. enroll' = [enroll EXCEPT ![d] = n] /\ n \in Enroll /\ n.state = "RESULT"
  BY <1>1, <1>2 DEF Enroll
<1> HIDE DEF n
<1> QED
  BY <1>1, <1>2, <1>3, SessionStep DEF historyVars

LEMMA EnrollEndsKeeps ==
    ASSUME IInv, NEW d \in Devices, EnrollEnds(d)
    PROVE  IInv'
<1>1. /\ enroll' = [enroll EXCEPT ![d] = NotEnrolling] /\ faults \in 0..MaxFaults
      /\ UNCHANGED <<backendVars, inbox, sensor, pending, call, historyVars>>
  BY DEF IInv, TypeOK, EnrollEnds
<1> QED
  BY <1>1, NothingTyped, SessionStep DEF historyVars

\* The finger goes to the backend with its own name still the intent.
LEMMA StoreFingerKeeps ==
    ASSUME IInv, NEW d \in Devices, StoreFinger(d)
    PROVE  IInv'
<1> DEFINE n == enroll[d]
<1>1. /\ TypeOK /\ call[d] = NoCall /\ n \in Enroll /\ n.state = "WAIT_FINGER"
      /\ sensor' = [sensor EXCEPT ![d][n.slot] = n.person]
      /\ enroll' = [enroll EXCEPT ![d].state = "CALLING"]
      /\ Send(d, "fingerprint", 0, n.slot, NoOne, n.person)
      /\ UNCHANGED <<template, mapping, intent, unsent, inbox, pending, historyVars>>
  BY DEF IInv, TypeOK, StoreFinger, Idle
<1>2. n.slot \in 0..MaxSlot /\ n.person \in Person /\ NoOne \in Person /\ 0 \in 0..MaxPending
  BY <1>1, NothingTyped, SizeAssumption DEF Enroll
<1>3. /\ request' \in [Devices -> Request] /\ call' \in [Devices -> Call]
      /\ request'[d] = [kind |-> "fingerprint", step |-> "received", emp |-> NoOne,
                        finger |-> n.person, slot |-> n.slot]
      /\ call'[d].kind = "fingerprint"
      /\ \A x \in Devices : x # d => request'[x] = request[x] /\ call'[x] = call[x]
  BY <1>1, <1>2, SendTyped
<1>4. sensor' \in [Devices -> [Slots -> Person]]
  BY <1>1, <1>2, SensorWritten
<1>5. enroll' \in [Devices -> Enroll] /\ enroll'[d].state = "CALLING"
      /\ \A x \in Devices : x # d => enroll'[x] = enroll[x]
  BY <1>1 DEF TypeOK, Enroll
<1>6. TypeOK'
  BY <1>1, <1>3, <1>4, <1>5 DEF TypeOK, historyVars
<1>7. AttemptsLeft' /\ EntryIsNamed'
  <2>1. \A x \in Devices : CallKept(x)
    BY <1>1, <1>3, NothingTyped DEF CallKept
  <2> QED
    BY <1>1, <2>1, CallsKept DEF IInv
<1>8. ScansAreFingers' /\ SequentialEnrolmentIsOwn'
  BY <1>1, <1>3 DEF IInv, ScansAreFingers, SequentialEnrolmentIsOwn, historyVars
<1>9. Sessions'
  <2> SUFFICES ASSUME ~overrun, NEW x \in Devices
               PROVE  \E e \in Person : ForOne(x, e)'
    BY <1>1 DEF Sessions, historyVars
  <2>1. PICK e \in Person : ForOne(x, e)
    BY DEF IInv, Sessions
  <2>2. IntentKept(x) /\ NoNewEnroll(x)
    BY <1>1, SameMailbox DEF IntentKept
  <2>3. CASE x # d
    <3>1. EnrollKept(x) /\ RequestKept(x)
      BY <1>3, <1>5, <2>3 DEF EnrollKept, RequestKept
    <3> QED
      BY <2>1, <2>2, <3>1, SessionKept
  <2>4. CASE x = d
    <3>1. n.person = e
      BY <1>1, <2>1, <2>4 DEF ForOne, Choosing
    <3>2. /\ intent'[d] \in {NoOne, e}
          /\ \A j \in unsent'[d] : j.cmd = "ENROLL" => j.emp = e
          /\ \A i \in Enrolls(d)' : inbox'[d][i].emp = e
      BY <2>1, <2>2, <2>4 DEF ForOne, IntentKept, NoNewEnroll
    <3>3. ~Choosing(d)'
      BY <1>5 DEF Choosing
    <3>4. request'[d].finger = e /\ request'[d].step = "received"
      BY <1>3, <3>1
    <3> HIDE DEF n
    <3> QED
      BY <2>4, <3>2, <3>3, <3>4 DEF ForOne
  <2> QED
    BY <2>3, <2>4
<1> QED
  BY <1>6, <1>7, <1>8, <1>9 DEF IInv

LEMMA ScanFingerKeeps ==
    ASSUME IInv, NEW d \in Devices, NEW s \in Slots, ScanFinger(d, s)
    PROVE  IInv'
<1>1. /\ TypeOK /\ call[d] = NoCall
      /\ Send(d, "checkin", 0, s, NoOne, sensor[d][s])
      /\ UNCHANGED <<template, mapping, intent, unsent, inbox, sensor, pending, enroll, historyVars>>
  BY DEF IInv, ScanFinger, Idle
<1>2. s \in 0..MaxSlot /\ NoOne \in Person /\ 0 \in 0..MaxPending
  BY NothingTyped, SizeAssumption DEF Slots
<1>3. sensor[d][s] \in Employees /\ sensor[d][s] \in Person
  <2>1. sensor[d][s] \in Person /\ sensor[d][s] # NoOne
    BY <1>1 DEF TypeOK, ScanFinger
  <2> QED
    BY <2>1 DEF Person
<1>4. /\ request' \in [Devices -> Request] /\ call' \in [Devices -> Call]
      /\ request'[d] = [kind |-> "checkin", step |-> "received", emp |-> NoOne,
                        finger |-> sensor[d][s], slot |-> s]
      /\ call'[d].kind = "checkin"
      /\ \A x \in Devices : x # d => request'[x] = request[x] /\ call'[x] = call[x]
  BY <1>1, <1>2, <1>3, SendTyped
<1>5. TypeOK'
  BY <1>1, <1>4 DEF TypeOK, historyVars
<1>6. \A x \in Devices : CallKept(x)
  BY <1>1, <1>4, NothingTyped DEF CallKept
<1>7. AttemptsLeft' /\ EntryIsNamed'
  BY <1>1, <1>6, CallsKept DEF IInv
<1>8. \A x \in Devices : RequestKept(x)
  BY <1>3, <1>4 DEF RequestKept, Reporting
<1>9. \A x \in Devices : EnrollKept(x) /\ IntentKept(x) /\ NoNewEnroll(x)
  BY <1>1, SameMailbox DEF EnrollKept, IntentKept
<1> QED
  BY <1>1, <1>5, <1>7, <1>8, <1>9, QuietStep DEF historyVars

LEMMA CheckinAnsweredKeeps ==
    ASSUME IInv, NEW d \in Devices, CheckinAnswered(d)
    PROVE  IInv'
<1>1. /\ TypeOK /\ call[d] \in Call /\ call[d].kind = "checkin"
      /\ sensor' = sensor \/ sensor' = [sensor EXCEPT ![d][call[d].slot] = NoOne]
      /\ call' = [call EXCEPT ![d] = NoCall]
      /\ UNCHANGED <<backendVars, inbox, pending, enroll, historyVars>>
  BY DEF IInv, TypeOK, CheckinAnswered, Answered
<1>2. call[d].slot \in 0..MaxSlot
  BY <1>1 DEF Call
<1>3. sensor' \in [Devices -> [Slots -> Person]]
  <2>1. CASE sensor' = sensor
    BY <1>1, <2>1 DEF TypeOK
  <2>2. CASE sensor' = [sensor EXCEPT ![d][call[d].slot] = NoOne]
    <3>1. NoOne \in Person
      BY NothingTyped
    <3> QED
      BY <1>1, <1>2, <2>2, <3>1, SensorWritten
  <2> QED
    BY <1>1, <2>1, <2>2
<1>4. call' \in [Devices -> Call] /\ \A x \in Devices : CallKept(x)
  BY <1>1, CallOver, NothingTyped DEF CallKept
<1>5. TypeOK'
  BY <1>1, <1>3, <1>4 DEF TypeOK, backendVars, historyVars
<1>6. AttemptsLeft' /\ EntryIsNamed'
  BY <1>1, <1>4, CallsKept DEF IInv
<1>7. \A x \in Devices : EnrollKept(x) /\ RequestKept(x) /\ IntentKept(x) /\ NoNewEnroll(x)
  BY <1>1, SameMailbox DEF EnrollKept, RequestKept, IntentKept, backendVars
<1> QED
  BY <1>1, <1>5, <1>6, <1>7, QuietStep DEF backendVars, historyVars

-----------------------------------------------------------------------------
(* What goes wrong. *)

LEMMA FaultCounted == ASSUME TypeOK, Fault PROVE faults' \in 0..MaxFaults
BY SizeAssumption DEF TypeOK, Fault

LEMMA LoseCommandKeeps ==
    ASSUME IInv, NEW d \in Devices, LoseCommand(d)
    PROVE  IInv'
<1>1. /\ TypeOK /\ inbox[d] # <<>> /\ Consume(d) /\ faults' \in 0..MaxFaults
      /\ UNCHANGED <<backendVars, deviceVars, misbooked, started, repeated, removed,
                     crossed, undercut, overrun>>
  BY FaultCounted DEF IInv, LoseCommand, SameHistory
<1>2. inbox' \in [Devices -> Seq(Command)] /\ \A x \in Devices : NoNewEnroll(x)
  BY <1>1, Consumed DEF backendVars
<1>3. TypeOK'
  BY <1>1, <1>2 DEF TypeOK, backendVars, deviceVars
<1>4. AttemptsLeft' /\ EntryIsNamed'
  BY <1>1, CallsKept DEF IInv, CallKept, deviceVars
<1>5. \A x \in Devices : EnrollKept(x) /\ RequestKept(x) /\ IntentKept(x)
  BY <1>1 DEF EnrollKept, RequestKept, IntentKept, backendVars, deviceVars
<1> QED
  BY <1>1, <1>2, <1>3, <1>4, <1>5, QuietStep DEF backendVars

\* The request of a terminal is over and nothing else happens.
LEMMA RequestEnds ==
    ASSUME IInv, NEW d \in Devices, Finish(d, "fail"), faults' \in 0..MaxFaults,
           UNCHANGED <<template, mapping, intent, unsent, inbox, sensor, pending, enroll,
                       misbooked, started, repeated, removed, crossed, undercut, overrun>>
    PROVE  IInv'
<1>1. TypeOK
  BY DEF IInv
<1>2. /\ request' \in [Devices -> Request] /\ call' \in [Devices -> Call]
      /\ request'[d] = NoRequest /\ \A x \in Devices : x # d => request'[x] = request[x]
      /\ \A x \in Devices : CallKept(x)
  BY <1>1, FinishTyped DEF CallKept
<1>3. TypeOK'
  BY <1>1, <1>2 DEF TypeOK
<1>4. AttemptsLeft' /\ EntryIsNamed'
  BY <1>2, CallsKept DEF IInv
<1>5. \A x \in Devices : EnrollKept(x) /\ RequestKept(x) /\ IntentKept(x) /\ NoNewEnroll(x)
  BY <1>1, <1>2, SameMailbox, NothingTyped DEF EnrollKept, RequestKept, IntentKept, Reporting
<1> QED
  BY <1>3, <1>4, <1>5, QuietStep

LEMMA LoseRequestKeeps ==
    ASSUME IInv, NEW d \in Devices, LoseRequest(d)
    PROVE  IInv'
<1>1. faults' \in 0..MaxFaults
  BY FaultCounted DEF IInv, LoseRequest
<1> QED
  BY <1>1, RequestEnds DEF LoseRequest, SameHistory

LEMMA PublishSyncFailsKeeps ==
    ASSUME IInv, NEW d \in Devices, PublishSyncFails(d)
    PROVE  IInv'
<1>1. faults' \in 0..MaxFaults
  BY FaultCounted DEF IInv, PublishSyncFails
<1> QED
  BY <1>1, RequestEnds DEF PublishSyncFails, SameHistory

LEMMA RepeatCommandKeeps ==
    ASSUME IInv, NEW d \in Devices, NEW j \in unsent[d], RepeatCommand(d, j)
    PROVE  IInv'
<1>1. /\ TypeOK /\ faults' \in 0..MaxFaults
      /\ inbox' = [inbox EXCEPT ![d] = Append(inbox[d], CommandOf(j))]
      /\ unsent' = unsent
      /\ UNCHANGED <<template, mapping, intent, request, deviceVars,
                     misbooked, started, removed, crossed, undercut, overrun>>
  BY FaultCounted DEF IInv, TypeOK, RepeatCommand, SameHistory, backendVars
<1>2. repeated' \in [Employees -> Nat]
  <2>1. repeated' = repeated \/ repeated' = [repeated EXCEPT ![j.emp] = @ + 1]
    BY DEF RepeatCommand
  <2>2. repeated \in [Employees -> Nat] /\ \A e \in Employees : repeated[e] + 1 \in Nat
    BY <1>1 DEF TypeOK
  <2> QED
    BY <2>1, <2>2
<1> QED
  BY <1>1, <1>2, CommandSent

LEMMA PublishCommandFailsKeeps ==
    ASSUME IInv, NEW d \in Devices, NEW j \in unsent[d], PublishCommandFails(d, j)
    PROVE  IInv'
<1>1. /\ TypeOK /\ faults' \in 0..MaxFaults
      /\ unsent' = [unsent EXCEPT ![d] = unsent[d] \ {j}]
      /\ inbox' = inbox /\ repeated' = repeated
      /\ UNCHANGED <<template, mapping, intent, request, deviceVars,
                     misbooked, started, removed, crossed, undercut, overrun>>
  BY FaultCounted DEF IInv, TypeOK, PublishCommandFails, SameHistory
<1>2. repeated' \in [Employees -> Nat]
  BY <1>1 DEF TypeOK
<1> QED
  BY <1>1, <1>2, CommandSent

LEMMA RepeatSyncKeeps ==
    ASSUME IInv, NEW d \in Devices, RepeatSync(d)
    PROVE  IInv'
<1>1. /\ TypeOK /\ faults' \in 0..MaxFaults /\ Broadcast(d)
      /\ UNCHANGED <<backendVars, deviceVars, misbooked, started, removed, crossed, undercut, overrun>>
  BY FaultCounted DEF IInv, RepeatSync, SameHistory
<1>2. inbox' \in [Devices -> Seq(Command)] /\ \A x \in Devices : NoNewEnroll(x)
  BY <1>1, BroadcastTyped DEF backendVars
<1>3. repeated' \in [Employees -> Nat]
  <2>1. repeated' = [repeated EXCEPT ![request[d].finger] = @ + 1]
    BY DEF RepeatSync
  <2>2. repeated \in [Employees -> Nat] /\ \A e \in Employees : repeated[e] + 1 \in Nat
    BY <1>1 DEF TypeOK
  <2> QED
    BY <2>1, <2>2
<1>4. TypeOK'
  BY <1>1, <1>2, <1>3 DEF TypeOK, backendVars, deviceVars
<1>5. AttemptsLeft' /\ EntryIsNamed'
  BY <1>1, CallsKept DEF IInv, CallKept, deviceVars
<1>6. \A x \in Devices : EnrollKept(x) /\ RequestKept(x) /\ IntentKept(x)
  BY <1>1 DEF EnrollKept, RequestKept, IntentKept, backendVars, deviceVars
<1> QED
  BY <1>1, <1>2, <1>4, <1>5, <1>6, QuietStep DEF backendVars

LEMMA GiveUpKeeps ==
    ASSUME IInv, NEW d \in Devices, GiveUp(d)
    PROVE  IInv'
<1>1. /\ TypeOK /\ faults' \in 0..MaxFaults
      /\ call' = [call EXCEPT ![d].answer = "fail"]
      /\ UNCHANGED <<backendVars, inbox, sensor, pending, enroll,
                     misbooked, started, repeated, removed, crossed, undercut, overrun>>
  BY FaultCounted DEF IInv, GiveUp, SameHistory
<1>2. call' \in [Devices -> Call] /\ \A x \in Devices : CallKept(x)
  BY <1>1 DEF TypeOK, Call, CallKept
<1>3. TypeOK'
  BY <1>1, <1>2 DEF TypeOK, backendVars
<1>4. AttemptsLeft' /\ EntryIsNamed'
  BY <1>1, <1>2, CallsKept DEF IInv
<1>5. \A x \in Devices : EnrollKept(x) /\ RequestKept(x) /\ IntentKept(x) /\ NoNewEnroll(x)
  BY <1>1, SameMailbox DEF EnrollKept, RequestKept, IntentKept, backendVars
<1> QED
  BY <1>1, <1>3, <1>4, <1>5, QuietStep DEF backendVars

LEMMA ExpireIntentKeeps ==
    ASSUME IInv, NEW d \in Devices, ExpireIntent(d)
    PROVE  IInv'
<1>1. /\ TypeOK /\ faults' \in 0..MaxFaults
      /\ intent' = [intent EXCEPT ![d] = NoOne]
      /\ UNCHANGED <<template, mapping, request, unsent, inbox, deviceVars,
                     misbooked, started, repeated, removed, crossed, undercut, overrun>>
  BY FaultCounted DEF IInv, ExpireIntent, SameHistory
<1>2. intent' \in [Devices -> Person] /\ \A x \in Devices : IntentKept(x)
  BY <1>1, NothingTyped DEF TypeOK, IntentKept
<1>3. TypeOK'
  BY <1>1, <1>2 DEF TypeOK, deviceVars
<1>4. AttemptsLeft' /\ EntryIsNamed'
  BY <1>1, CallsKept DEF IInv, CallKept, deviceVars
<1>5. \A x \in Devices : EnrollKept(x) /\ RequestKept(x) /\ NoNewEnroll(x)
  BY <1>1, SameMailbox DEF EnrollKept, RequestKept, deviceVars
<1> QED
  BY <1>1, <1>2, <1>3, <1>4, <1>5, QuietStep

LEMMA EnrollFailsKeeps ==
    ASSUME IInv, NEW d \in Devices, EnrollFails(d)
    PROVE  IInv'
<1> DEFINE n == [enroll[d] EXCEPT !.state = "RESULT"]
<1>1. enroll \in [Devices -> Enroll] /\ enroll[d] \in Enroll /\ faults' \in 0..MaxFaults
  BY FaultCounted DEF IInv, TypeOK, EnrollFails
<1>2. /\ enroll' = [enroll EXCEPT ![d].state = "RESULT"] /\ call' = call
      /\ UNCHANGED <<backendVars, inbox, sensor, pending,
                     misbooked, started, repeated, removed, crossed, undercut, overrun>>
  BY DEF EnrollFails, SameHistory
<1>3. enroll' = [enroll EXCEPT ![d] = n] /\ n \in Enroll /\ n.state = "RESULT"
  BY <1>1, <1>2 DEF Enroll
<1> HIDE DEF n
<1> QED
  BY <1>1, <1>2, <1>3, SessionStep

-----------------------------------------------------------------------------
(* The specification. *)

LEMMA InitHolds == Init => IInv
<1> SUFFICES ASSUME Init PROVE IInv
  OBVIOUS
<1> USE DEF Init
<1>1. TypeOK
  <2>1. /\ template \in [Employees -> Person] /\ intent \in [Devices -> Person]
        /\ request \in [Devices -> Request] /\ enroll \in [Devices -> Enroll]
        /\ call \in [Devices -> Call]
    BY NothingTyped
  <2>2. sensor \in [Devices -> [Slots -> Person]] /\ pending \in [Devices -> [Entries -> Entry]]
    BY NothingTyped
  <2>3. mapping \in [Devices -> [Employees -> 0..MaxSlot]] /\ inbox \in [Devices -> Seq(Command)]
    BY SizeAssumption
  <2>4. /\ started \in [Employees -> 0..MaxEnrolls] /\ faults \in 0..MaxFaults
        /\ repeated \in [Employees -> Nat] /\ unsent \in [Devices -> SUBSET Job]
    BY SizeAssumption
  <2> QED
    BY <2>1, <2>2, <2>3, <2>4 DEF TypeOK
<1>2. AttemptsLeft
  BY NothingTyped, SizeAssumption DEF AttemptsLeft
<1>3. EntryIsNamed /\ ScansAreFingers
  BY NothingTyped DEF EntryIsNamed, ScansAreFingers
<1>4. Sessions
  <2> SUFFICES ASSUME NEW d \in Devices PROVE ForOne(d, NoOne)
    BY NothingTyped DEF Sessions
  <2>1. Enrolls(d) = {} /\ unsent[d] = {} /\ intent[d] = NoOne
    BY DEF Enrolls
  <2>2. ~Choosing(d) /\ ~Reporting(d)
    BY NothingTyped DEF Choosing, Reporting
  <2> QED
    BY <2>1, <2>2 DEF ForOne
<1>5. SequentialEnrolmentIsOwn
  BY DEF SequentialEnrolmentIsOwn
<1> QED
  BY <1>1, <1>2, <1>3, <1>4, <1>5 DEF IInv

LEMMA StutterKeeps == IInv /\ UNCHANGED vars => IInv'
<1> SUFFICES ASSUME IInv, UNCHANGED vars PROVE IInv'
  OBVIOUS
<1> USE DEF vars
<1>1. TypeOK'
  BY DEF IInv, TypeOK
<1>2. AttemptsLeft' /\ EntryIsNamed'
  BY DEF IInv, AttemptsLeft, EntryIsNamed
<1>3. TypeOK
  BY DEF IInv
<1>4. \A x \in Devices : EnrollKept(x) /\ RequestKept(x) /\ IntentKept(x) /\ NoNewEnroll(x)
  BY <1>3, SameMailbox DEF EnrollKept, RequestKept, IntentKept
<1> QED
  BY <1>1, <1>2, <1>4, QuietStep

LEMMA NextKeeps == IInv /\ Next => IInv'
<1> SUFFICES ASSUME IInv, Next PROVE IInv'
  OBVIOUS
<1>1. ASSUME NEW d \in Devices, Backend(d) PROVE IInv'
  BY <1>1, HandleMappingKeeps, ReadIntentKeeps, WriteTemplateKeeps, WriteMappingKeeps,
     ClearIntentKeeps, PublishSyncKeeps, HandleCheckinKeeps
  DEF Backend
<1>2. ASSUME NEW d \in Devices, Loop(d) PROVE IInv'
  BY <1>2, ReceiveEnrollKeeps, IgnoreSyncKeeps, StoreSyncKeeps, ReceiveDeleteKeeps,
     RetryMappingKeeps, MappingAnsweredKeeps, FingerAnsweredKeeps, CheckinAnsweredKeeps,
     FindSlotKeeps, EnrollEndsKeeps
  DEF Loop
<1>3. ASSUME NEW d \in Devices, AtSensor(d) PROVE IInv'
  BY <1>3, StoreFingerKeeps, ScanFingerKeeps DEF AtSensor
<1>6. ASSUME NEW d \in Devices, Publish(d) PROVE IInv'
  BY <1>6, PublishCommandKeeps DEF Publish
<1>4. ASSUME Manager PROVE IInv'
  BY <1>4, StartEnrollKeeps, RemoveFingerprintKeeps DEF Manager
<1>5. ASSUME Faults PROVE IInv'
  BY <1>5, LoseCommandKeeps, LoseRequestKeeps, GiveUpKeeps, ExpireIntentKeeps,
     RepeatSyncKeeps, PublishSyncFailsKeeps, EnrollFailsKeeps, RepeatCommandKeeps,
     PublishCommandFailsKeeps
  DEF Faults
<1> QED
  BY <1>1, <1>2, <1>3, <1>4, <1>5, <1>6 DEF Next

THEOREM Invariance == Spec => []IInv
<1>1. IInv /\ [Next]_vars => IInv'
  BY NextKeeps, StutterKeeps
<1> QED
  BY InitHolds, <1>1, PTL DEF Spec

\* No interleaving of enrolments, broadcasts, retries, scans and faults takes
\* a callback, a request or a slot number out of its range: a pending entry is
\* dropped at its last attempt, and every slot written exists.
THEOREM TypeCorrect == Spec => []TypeOK
<1>1. IInv => TypeOK
  BY DEF IInv
<1> QED
  BY Invariance, <1>1, PTL

\* cacheFingerprint stores a finger as its owner's template, whatever is lost
\* or late, as long as no enrolment is started before the terminal's last one
\* is over (credentials.service.ts: the cache entry names who is enrolling).
THEOREM EnrolmentIsOwn == Spec => []SequentialEnrolmentIsOwn
<1>1. IInv => SequentialEnrolmentIsOwn
  BY DEF IInv
<1> QED
  BY Invariance, <1>1, PTL


-----------------------------------------------------------------------------
(* What an enrolment leaves on a sensor: one copy of the finger, in the end.*)

\* What is, or may become, a copy of p's finger on terminal d: a slot that
\* holds it, another terminal's broadcast, and, at any terminal, a callback
\* that will be broadcast, a session that will store it and a command that
\* will start one, sent or not.
Counts(d, p, kind, x, i) ==
    \/ kind = "slot" /\ x = d /\ i \in Slots /\ sensor[d][i] = p
    \/ /\ kind = "sync" /\ x = d /\ i \in DOMAIN inbox[d]
       /\ inbox[d][i].cmd = "SYNC" /\ inbox[d][i].finger = p /\ inbox[d][i].source # d
    \/ kind = "report" /\ x # d /\ i = 0 /\ Reporting(x) /\ request[x].finger = p
    \/ kind = "session" /\ i = 0 /\ Choosing(x) /\ enroll[x].person = p
    \/ kind = "enroll" /\ i \in Enrolls(x) /\ inbox[x][i].emp = p
    \/ kind = "start" /\ EnrollJob(p, i) \in unsent[x]

Kinds == {"slot", "sync", "report", "session", "enroll", "start"}
Tokens(d, p) == {t \in Kinds \X Devices \X Nat : Counts(d, p, t[1], t[2], t[3])}

\* Every such token has an enrolment or a repeated command of its own.
Allowed(p) == started[p] + repeated[p]
Covered == \A d \in Devices, p \in Employees : \E f : f \in Injection(Tokens(d, p), 1..Allowed(p))

\* Where a token of the next state was, when terminal y has taken a command
\* out of its mailbox (y = NoOne: when none has).
Before(y, t) ==
    IF t[1] \in {"sync", "enroll"} /\ t[2] = y THEN <<t[1], t[2], t[3] + 1>> ELSE t

\* The tokens A come from the tokens B, `to` from the token `from`.
ComeFrom(A, B, y, from, to) ==
    /\ A \subseteq Kinds \X Devices \X Nat
    /\ \A t \in A : t # to => Before(y, t) \in B /\ Before(y, t) # from
    /\ to \in A => from \in B

\* Tokens that move stay apart.
LEMMA TokensMove ==
    ASSUME NEW A, NEW B, NEW C, NEW y, NEW from, NEW to,
           \E f : f \in Injection(B, C), ComeFrom(A, B, y, from, to)
    PROVE  \E g : g \in Injection(A, C)
<1> USE DEF ComeFrom
<1> DEFINE prev(t) == IF t = to THEN from ELSE Before(y, t)
<1> DEFINE h == [t \in A |-> prev(t)]
<1>1. \A t \in A : prev(t) \in B
  OBVIOUS
<1>2. \A t, u \in A : Before(y, t) = Before(y, u) => t = u
  <2> SUFFICES ASSUME NEW t \in A, NEW u \in A, Before(y, t) = Before(y, u)
               PROVE  t = u
    OBVIOUS
  <2>1. PICK k \in Kinds, x \in Devices, i \in Nat : t = <<k, x, i>>
    OBVIOUS
  <2>2. PICK l \in Kinds, z \in Devices, j \in Nat : u = <<l, z, j>>
    OBVIOUS
  <2>3. k = l /\ x = z
    BY <2>1, <2>2 DEF Before
  <2> QED
    BY <2>1, <2>2, <2>3 DEF Before
<1>3. \A t, u \in A : prev(t) = prev(u) => t = u
  BY <1>2
<1> HIDE DEF prev
<1>4. h \in Injection(A, B)
  BY <1>1, <1>3 DEF Injection, IsInjective
<1>5. PICK f : f \in Injection(B, C)
  OBVIOUS
<1> QED
  BY <1>4, <1>5, Fun_InjTransitive

\* A command of the next mailbox that can lead to a copy is an old one.
OldMail(x, y, i) ==
    LET j == IF x = y THEN i + 1 ELSE i
    IN  j \in DOMAIN inbox[x] /\ inbox'[x][i] = inbox[x][j]
Carries(c) == c.cmd \in {"ENROLL", "SYNC"}
MailKept(x, y) == \A i \in DOMAIN inbox'[x] : Carries(inbox'[x][i]) => OldMail(x, y, i)

\* The commands at terminal x that can lead to a copy of p's finger on d.
Leads(d, p, x, c) ==
    \/ c.cmd = "ENROLL" /\ c.emp = p
    \/ c.cmd = "SYNC" /\ x = d /\ c.finger = p /\ c.source # d

\* A step moves p's tokens on d to new places, `from` to `to`.
Moves(d, p, y, from, to) ==
    /\ \A s \in Slots : sensor'[d][s] = p => sensor[d][s] = p \/ to = <<"slot", d, s>>
    /\ \A x \in Devices :
         /\ x # d /\ Reporting(x)' /\ request'[x].finger = p =>
              (Reporting(x) /\ request[x].finger = p) \/ to = <<"report", x, 0>>
         /\ Choosing(x)' /\ enroll'[x].person = p =>
              (Choosing(x) /\ enroll[x].person = p) \/ to = <<"session", x, 0>>
         /\ \A i \in DOMAIN inbox'[x] :
              Leads(d, p, x, inbox'[x][i]) =>
                \/ OldMail(x, y, i)
                \/ to = <<"sync", x, i>> /\ inbox'[x][i].cmd = "SYNC"
                \/ to = <<"enroll", x, i>> /\ inbox'[x][i].cmd = "ENROLL"
         /\ \A i \in Nat : EnrollJob(p, i) \in unsent'[x] => EnrollJob(p, i) \in unsent[x]
    /\ \A t \in Tokens(d, p)' : t # to => Before(y, t) # from
    /\ to \in Tokens(d, p)' => from \in Tokens(d, p)

LEMMA MovesKeep ==
    ASSUME TypeOK', NEW d \in Devices, NEW p \in Employees, NEW y, NEW from, NEW to,
           Moves(d, p, y, from, to), Allowed(p)' = Allowed(p),
           \E f : f \in Injection(Tokens(d, p), 1..Allowed(p))
    PROVE  (\E f : f \in Injection(Tokens(d, p), 1..Allowed(p)))'
<1>2. \A x \in Devices : \A i \in DOMAIN inbox'[x] : i \in Nat
  BY DEF TypeOK
<1>3. ASSUME NEW t \in Tokens(d, p)', t # to PROVE Before(y, t) \in Tokens(d, p)
  <2>1. PICK k \in Kinds, x \in Devices, i \in Nat : t = <<k, x, i>> /\ Counts(d, p, k, x, i)'
    BY DEF Tokens
  <2>2. CASE k \in {"slot", "report", "session", "start"}
    <3>1. Before(y, t) = t
      BY <2>1, <2>2 DEF Before
    <3>2. Counts(d, p, k, x, i)
      BY <1>3, <2>1, <2>2 DEF Counts, Moves
    <3> QED
      BY <2>1, <3>1, <3>2 DEF Tokens
  <2>3. CASE k \in {"sync", "enroll"}
    <3> DEFINE j == IF x = y THEN i + 1 ELSE i
    <3>1. Before(y, t) = <<k, x, j>> /\ j \in Nat
      BY <2>1, <2>3 DEF Before
    <3>2. i \in DOMAIN inbox'[x] /\ Leads(d, p, x, inbox'[x][i])
      BY <2>1, <2>3 DEF Counts, Enrolls, Leads
    <3>3. j \in DOMAIN inbox[x] /\ inbox'[x][i] = inbox[x][j]
      <4>1. /\ ~(to = <<"sync", x, i>> /\ inbox'[x][i].cmd = "SYNC")
            /\ ~(to = <<"enroll", x, i>> /\ inbox'[x][i].cmd = "ENROLL")
        BY <1>3, <2>1, <2>3 DEF Counts, Enrolls
      <4>2. OldMail(x, y, i)
        BY <3>2, <4>1 DEF Moves
      <4> QED
        BY <4>2 DEF OldMail
    <3> HIDE DEF j
    <3>4. Counts(d, p, k, x, j)
      BY <2>1, <2>3, <3>3 DEF Counts, Enrolls
    <3> QED
      BY <3>1, <3>4 DEF Tokens
  <2> QED
    BY <2>2, <2>3 DEF Kinds
<1>4. ComeFrom(Tokens(d, p)', Tokens(d, p), y, from, to)
  <2>1. Tokens(d, p)' \subseteq Kinds \X Devices \X Nat
    BY DEF Tokens
  <2> QED
    BY <1>3, <2>1 DEF Moves, ComeFrom
<1> QED
  BY <1>4, TokensMove

\* A step that makes no token: slots are at most emptied, reports and
\* sessions at most ended, and commands that matter at most taken out.
NoNewToken(y) ==
    /\ started' = started /\ repeated' = repeated
    /\ \A d \in Devices, s \in Slots : sensor'[d][s] \in {sensor[d][s], NoOne}
    /\ \A x \in Devices :
         /\ Reporting(x)' => Reporting(x) /\ request'[x].finger = request[x].finger
         /\ Choosing(x)' => Choosing(x) /\ enroll'[x].person = enroll[x].person
         /\ MailKept(x, y)
         /\ \A p, i : EnrollJob(p, i) \in unsent'[x] => EnrollJob(p, i) \in unsent[x]

LEMMA NoTokenKeeps ==
    ASSUME TypeOK', Covered, NEW y, NoNewToken(y)
    PROVE  Covered'
<1> SUFFICES ASSUME NEW d \in Devices, NEW p \in Employees
             PROVE  (\E f : f \in Injection(Tokens(d, p), 1..Allowed(p)))'
  BY DEF Covered
<1> DEFINE none == <<"none", d, 0>>
<1>1. \A t \in Tokens(d, p)' : t # none /\ Before(y, t) # none
  <2> SUFFICES ASSUME NEW t \in Tokens(d, p)' PROVE t # none /\ Before(y, t) # none
    OBVIOUS
  <2>1. PICK k \in Kinds, x \in Devices, i \in Nat : t = <<k, x, i>>
    BY DEF Tokens
  <2> QED
    BY <2>1 DEF Kinds, Before
<1>2. none \notin Tokens(d, p)'
  BY <1>1
<1>3. p # NoOne
  BY NoOneAssumption
<1> HIDE DEF none
<1>4. Moves(d, p, y, none, none)
  BY <1>1, <1>2, <1>3 DEF NoNewToken, MailKept, Carries, Leads, Moves
<1> QED
  BY <1>4, MovesKeep DEF Covered, NoNewToken, Allowed

-----------------------------------------------------------------------------
(* Mailboxes, as far as copies go. *)

LEMMA MailSame ==
    ASSUME NEW x \in Devices, NEW y, x # y, inbox'[x] = inbox[x]
    PROVE  MailKept(x, y)
BY DEF MailKept, OldMail

LEMMA MailTaken ==
    ASSUME TypeOK, NEW d \in Devices, inbox[d] # <<>>, Consume(d)
    PROVE  /\ \A x \in Devices : MailKept(x, d)
           /\ \A i \in DOMAIN inbox'[d] : i \in Nat \ {0}
           /\ inbox[d][1] = Head(inbox[d]) /\ 1 \in DOMAIN inbox[d]
           /\ Head(inbox[d]) \in Command
<1>1. inbox \in [Devices -> Seq(Command)] /\ inbox[d] \in Seq(Command)
  BY DEF TypeOK
<1>2. inbox'[d] = Tail(inbox[d]) /\ \A x \in Devices : x # d => inbox'[x] = inbox[x]
  BY <1>1 DEF Consume
<1>3. /\ \A i \in DOMAIN Tail(inbox[d]) : /\ i \in Nat \ {0} /\ i + 1 \in DOMAIN inbox[d]
                                          /\ Tail(inbox[d])[i] = inbox[d][i + 1]
      /\ inbox[d][1] = Head(inbox[d]) /\ 1 \in DOMAIN inbox[d] /\ Head(inbox[d]) \in Command
  BY <1>1
<1>4. MailKept(d, d)
  BY <1>2, <1>3 DEF MailKept, OldMail
<1>5. \A x \in Devices : x # d => MailKept(x, d)
  BY <1>2, MailSame
<1> QED
  BY <1>2, <1>3, <1>4, <1>5

LEMMA MailAdded ==
    ASSUME TypeOK, NEW x \in Devices, NEW y, x # y, NEW m, inbox'[x] = Append(inbox[x], m)
    PROVE  /\ \A i \in DOMAIN inbox'[x] : OldMail(x, y, i) \/ (i = Len(inbox[x]) + 1 /\ inbox'[x][i] = m)
           /\ Len(inbox[x]) + 1 \in DOMAIN inbox'[x] /\ inbox'[x][Len(inbox[x]) + 1] = m
           /\ ~Carries(m) => MailKept(x, y)
           /\ Len(inbox[x]) \in Nat
<1>1. inbox[x] \in Seq(Command)
  BY DEF TypeOK
<1> DEFINE n == Len(inbox[x])
<1>2. /\ n \in Nat /\ DOMAIN Append(inbox[x], m) = 1..(n + 1) /\ DOMAIN inbox[x] = 1..n
      /\ Append(inbox[x], m)[n + 1] = m
      /\ \A i \in 1..n : Append(inbox[x], m)[i] = inbox[x][i]
  BY <1>1
<1> HIDE DEF n
<1>3. \A i \in DOMAIN inbox'[x] : OldMail(x, y, i) \/ (i = n + 1 /\ inbox'[x][i] = m)
  BY <1>2 DEF OldMail
<1>4. n + 1 \in DOMAIN inbox'[x] /\ inbox'[x][n + 1] = m
  BY <1>2
<1>5. ~Carries(m) => MailKept(x, y)
  BY <1>3 DEF MailKept
<1> QED
  BY <1>2, <1>3, <1>4, <1>5 DEF n

\* The only command that is new in a mailbox is the one just sent.
LEMMA MailGrown ==
    ASSUME TypeOK, NEW x \in Devices, NEW m, inbox'[x] = Append(inbox[x], m),
           NEW i \in DOMAIN inbox'[x], ~OldMail(x, NoOne, i)
    PROVE  i = Len(inbox[x]) + 1 /\ inbox'[x][i] = m
<1>1. x # NoOne
  BY NoOneAssumption
<1> QED
  BY <1>1, MailAdded

\* Commands stay where they are while nobody sends or takes one.
LEMMA MailStays ==
    ASSUME inbox' = inbox
    PROVE  \A x \in Devices : MailKept(x, NoOne)
BY NoOneAssumption, MailSame

-----------------------------------------------------------------------------
(* The steps that make no token. *)

ReportKept(x) == Reporting(x)' => Reporting(x) /\ request'[x].finger = request[x].finger
SessionSame(x) == Choosing(x)' => Choosing(x) /\ enroll'[x].person = enroll[x].person

LEMMA FinishReports ==
    ASSUME TypeOK, NEW d \in Devices, NEW answer \in {"ok", "fail", "ghost"}, Finish(d, answer)
    PROVE  \A x \in Devices : ReportKept(x)
BY FinishTyped, NothingTyped DEF ReportKept, Reporting

LEMMA BackendMakesNone ==
    ASSUME TypeOK, NEW d \in Devices, Backend(d), ~PublishSync(d)
    PROVE  NoNewToken(NoOne)
<1>1. /\ UNCHANGED <<unsent, inbox, sensor, enroll, started, repeated>>
      /\ \A x \in Devices : ReportKept(x)
  <2>1. request \in [Devices -> Request] /\ request[d] \in Request
    BY DEF TypeOK
  <2>2. CASE HandleMapping(d)
    BY <2>2, FinishReports DEF HandleMapping, historyVars
  <2>3. CASE ReadIntent(d)
    <3>1. CASE intent[d] = NoOne
      BY <2>3, <3>1, FinishReports DEF ReadIntent, historyVars
    <3>2. CASE intent[d] # NoOne
      <4>1. /\ request' = [request EXCEPT ![d].emp = intent[d], ![d].step = "template"]
            /\ UNCHANGED <<unsent, inbox, sensor, enroll, started, repeated>>
        BY <2>3, <3>2 DEF ReadIntent, historyVars
      <4> QED
        BY <2>1, <4>1 DEF ReportKept, Reporting, Request
    <3> QED
      BY <3>1, <3>2
  <2>4. CASE WriteTemplate(d)
    <3>1. /\ request' = [request EXCEPT ![d].step = "mapping"]
          /\ UNCHANGED <<unsent, inbox, sensor, enroll, started, repeated>>
      BY <2>4 DEF WriteTemplate, deviceVars, historyVars
    <3> QED
      BY <2>1, <3>1 DEF ReportKept, Reporting, Request
  <2>5. CASE WriteMapping(d)
    <3>1. Finish(d, "fail") \/ request' = [request EXCEPT ![d].step = "clear"]
      BY <2>5 DEF WriteMapping
    <3>2. UNCHANGED <<unsent, inbox, sensor, enroll, started, repeated>>
      BY <2>5 DEF WriteMapping, historyVars
    <3>3. CASE Finish(d, "fail")
      BY <3>2, <3>3, FinishReports
    <3>4. CASE request' = [request EXCEPT ![d].step = "clear"]
      BY <2>1, <3>2, <3>4 DEF ReportKept, Reporting, Request
    <3> QED
      BY <3>1, <3>3, <3>4
  <2>6. CASE ClearIntent(d)
    <3>1. /\ request' = [request EXCEPT ![d].step = "publish"]
          /\ UNCHANGED <<unsent, inbox, sensor, enroll, started, repeated>>
      BY <2>6 DEF ClearIntent, deviceVars, historyVars
    <3> QED
      BY <2>1, <3>1 DEF ReportKept, Reporting, Request
  <2>7. CASE HandleCheckin(d)
    BY <2>7, FinishReports DEF HandleCheckin
  <2> QED
    BY <2>2, <2>3, <2>4, <2>5, <2>6, <2>7 DEF Backend
<1>2. \A x \in Devices : Choosing(x)' <=> Choosing(x)
  BY <1>1 DEF Choosing
<1> QED
  BY <1>1, <1>2, MailStays DEF NoNewToken, ReportKept

\* A request that is sent is a report only if it is the finger's.
LEMMA SendReports ==
    ASSUME TypeOK, NEW d \in Devices, NEW kind \in {"mapping", "checkin"}, NEW entry, NEW slot,
           NEW emp, NEW finger, Send(d, kind, entry, slot, emp, finger)
    PROVE  \A x \in Devices : ReportKept(x)
BY DEF Send, TypeOK, ReportKept, Reporting

\* The loop, but for an enrolment that begins or a template that is stored.
LEMMA LoopMakesNone ==
    ASSUME TypeOK, NEW d \in Devices, Loop(d), ~ReceiveEnroll(d), ~StoreSync(d)
    PROVE  \E y : NoNewToken(y)
<1>1. sensor \in [Devices -> [Slots -> Person]] /\ enroll \in [Devices -> Enroll]
  BY DEF TypeOK
<1>2. CASE IgnoreSync(d) \/ ReceiveDelete(d)
  <2>1. /\ inbox[d] # <<>> /\ Consume(d) /\ UNCHANGED <<unsent, request, enroll, started, repeated>>
        /\ sensor' = sensor \/ sensor' = [sensor EXCEPT ![d][Head(inbox[d]).slot] = NoOne]
    BY <1>2 DEF IgnoreSync, ReceiveDelete, NextCommand, backendVars, deviceVars, historyVars
  <2>2. \A x \in Devices, s \in Slots : sensor'[x][s] \in {sensor[x][s], NoOne}
    BY <1>1, <2>1
  <2>3. \A x \in Devices : MailKept(x, d)
    BY <2>1, MailTaken
  <2> QED
    BY <2>1, <2>2, <2>3 DEF NoNewToken, Reporting, Choosing
<1>3. ASSUME NEW i \in Entries, RetryMapping(d, i) PROVE NoNewToken(NoOne)
  <2>1. /\ \A x \in Devices : ReportKept(x)
        /\ UNCHANGED <<unsent, inbox, sensor, enroll, started, repeated>>
    BY <1>3, SendReports DEF RetryMapping, historyVars
  <2> QED
    BY <2>1, MailStays DEF NoNewToken, ReportKept, Choosing
<1>4. CASE MappingAnswered(d) \/ CheckinAnswered(d)
  <2>1. /\ UNCHANGED <<unsent, inbox, request, enroll, started, repeated>>
        /\ sensor' = sensor \/ \E s : sensor' = [sensor EXCEPT ![d][s] = NoOne]
    BY <1>4 DEF MappingAnswered, CheckinAnswered, backendVars, historyVars
  <2>2. \A x \in Devices, s \in Slots : sensor'[x][s] \in {sensor[x][s], NoOne}
    BY <1>1, <2>1
  <2>3. NoNewToken(NoOne)
    BY <2>1, <2>2, MailStays DEF NoNewToken, Reporting, Choosing
  <2> QED
    BY <2>3
<1>5. CASE FingerAnswered(d) \/ FindSlot(d) \/ EnrollEnds(d)
  <2>1. /\ UNCHANGED <<unsent, inbox, request, sensor, started, repeated>>
    BY <1>5 DEF FingerAnswered, FindSlot, EnrollEnds, backendVars, historyVars
  <2>2. \A x \in Devices : SessionSame(x)
    <3>1. CASE FingerAnswered(d)
      BY <1>1, <3>1 DEF FingerAnswered, SessionSame, Choosing, Enroll
    <3>2. CASE FindSlot(d)
      BY <1>1, <3>2 DEF FindSlot, SessionSame, Choosing, Enroll
    <3>3. CASE EnrollEnds(d)
      BY <1>1, <3>3 DEF EnrollEnds, SessionSame, Choosing, NotEnrolling
    <3> QED
      BY <1>5, <3>1, <3>2, <3>3
  <2>3. NoNewToken(NoOne)
    BY <2>1, <2>2, MailStays DEF NoNewToken, Reporting, SessionSame
  <2> QED
    BY <2>3
<1> QED
  BY <1>2, <1>3, <1>4, <1>5 DEF Loop

LEMMA OthersMakeNone ==
    ASSUME TypeOK, (\E d \in Devices, s \in Slots : ScanFinger(d, s))
                     \/ (\E e \in Employees : RemoveFingerprint(e)) \/ UNCHANGED vars
    PROVE  NoNewToken(NoOne)
<1>1. ASSUME NEW d \in Devices, NEW s \in Slots, ScanFinger(d, s) PROVE NoNewToken(NoOne)
  <2>1. /\ \A x \in Devices : ReportKept(x)
        /\ UNCHANGED <<unsent, inbox, sensor, enroll, started, repeated>>
    BY <1>1, SendReports DEF ScanFinger, historyVars
  <2> QED
    BY <2>1, MailStays DEF NoNewToken, ReportKept, Choosing
<1>2. ASSUME NEW e \in Employees, RemoveFingerprint(e) PROVE NoNewToken(NoOne)
  <2>1. /\ UNCHANGED <<inbox, request, sensor, enroll, started, repeated>>
        /\ \A d \in Devices : \E s : unsent'[d] \subseteq unsent[d] \cup {DeleteJob(e, s)}
    BY <1>2 DEF RemoveFingerprint, deviceVars
  <2>2. \A s, p, i : EnrollJob(p, i) # DeleteJob(e, s)
    <3> SUFFICES ASSUME NEW s, NEW p, NEW i, EnrollJob(p, i) = DeleteJob(e, s) PROVE FALSE
      OBVIOUS
    <3>1. EnrollJob(p, i).cmd = "ENROLL" /\ DeleteJob(e, s).cmd = "DELETE"
      BY DEF EnrollJob, DeleteJob
    <3> QED
      BY <3>1
  <2>3. \A x \in Devices : \A p, i : EnrollJob(p, i) \in unsent'[x] => EnrollJob(p, i) \in unsent[x]
    BY <2>1, <2>2
  <2> QED
    BY <2>1, <2>3, MailStays DEF NoNewToken, Reporting, Choosing
<1>3. CASE UNCHANGED vars
  BY <1>3, MailStays DEF vars, NoNewToken, Reporting, Choosing
<1> QED
  BY <1>1, <1>2, <1>3

\* A command that is not sent, or one that is and can lead to no copy.
LEMMA RemovalMakesNone ==
    ASSUME TypeOK, NEW z \in Devices, NEW j \in unsent[z],
           inbox' = inbox \/ (j.cmd = "DELETE" /\ inbox' = [inbox EXCEPT ![z] = Append(inbox[z], CommandOf(j))]),
           unsent' = unsent \/ unsent' = [unsent EXCEPT ![z] = unsent[z] \ {j}],
           UNCHANGED <<request, sensor, enroll, started, repeated>>
    PROVE  NoNewToken(NoOne)
<1>1. \A x \in Devices : unsent'[x] \subseteq unsent[x]
  BY DEF TypeOK
<1>2. CASE inbox' = inbox
  BY <1>1, <1>2, MailStays DEF NoNewToken, Reporting, Choosing
<1>3. CASE j.cmd = "DELETE" /\ inbox' = [inbox EXCEPT ![z] = Append(inbox[z], CommandOf(j))]
  <2>1. ~Carries(CommandOf(j))
    BY <1>3 DEF Carries, CommandOf, DeleteCommand
  <2>2. \A x \in Devices : MailKept(x, NoOne)
    <3> SUFFICES ASSUME NEW x \in Devices PROVE MailKept(x, NoOne)
      OBVIOUS
    <3>1. x # NoOne
      BY NoOneAssumption
    <3>2. inbox'[x] = inbox[x] \/ inbox'[x] = Append(inbox[x], CommandOf(j))
      BY <1>3 DEF TypeOK
    <3> QED
      BY <2>1, <3>1, <3>2, MailSame, MailAdded
  <2> QED
    BY <1>1, <2>2 DEF NoNewToken, Reporting, Choosing
<1> QED
  BY <1>2, <1>3

Repeats ==
    \E d \in Devices :
      RepeatSync(d) \/ \E j \in unsent[d] : j.cmd = "ENROLL" /\ RepeatCommand(d, j)

LEMMA FaultsMakeNone ==
    ASSUME TypeOK, Faults, ~Repeats
    PROVE  \E y : NoNewToken(y)
<1>1. ASSUME NEW d \in Devices, LoseCommand(d) PROVE NoNewToken(d)
  <2>1. /\ inbox[d] # <<>> /\ Consume(d) /\ UNCHANGED <<unsent, request, sensor, enroll, started, repeated>>
    BY <1>1 DEF LoseCommand, SameHistory, backendVars, deviceVars
  <2>2. \A x \in Devices : MailKept(x, d)
    BY <2>1, MailTaken
  <2> QED
    BY <2>1, <2>2 DEF NoNewToken, Reporting, Choosing
<1>2. ASSUME NEW d \in Devices, LoseRequest(d) \/ PublishSyncFails(d) PROVE NoNewToken(NoOne)
  <2>1. Finish(d, "fail") /\ UNCHANGED <<unsent, inbox, sensor, enroll, started, repeated>>
    BY <1>2 DEF LoseRequest, PublishSyncFails, SameHistory
  <2>2. \A x \in Devices : ReportKept(x)
    BY <2>1, FinishReports
  <2> QED
    BY <2>1, <2>2, MailStays DEF NoNewToken, ReportKept, Choosing
<1>3. ASSUME NEW d \in Devices, GiveUp(d) \/ ExpireIntent(d) PROVE NoNewToken(NoOne)
  <2>1. UNCHANGED <<unsent, inbox, request, sensor, enroll, started, repeated>>
    BY <1>3 DEF GiveUp, ExpireIntent, SameHistory, backendVars, deviceVars
  <2> QED
    BY <2>1, MailStays DEF NoNewToken, Reporting, Choosing
<1>4. ASSUME NEW d \in Devices, EnrollFails(d) PROVE NoNewToken(NoOne)
  <2>1. /\ UNCHANGED <<unsent, inbox, request, sensor, started, repeated>>
        /\ enroll' = [enroll EXCEPT ![d].state = "RESULT"]
    BY <1>4 DEF EnrollFails, SameHistory, backendVars
  <2>2. \A x \in Devices : SessionSame(x)
    BY <2>1 DEF TypeOK, SessionSame, Choosing, Enroll
  <2> QED
    BY <2>1, <2>2, MailStays DEF NoNewToken, Reporting, SessionSame
<1>5. ASSUME NEW d \in Devices, NEW j \in unsent[d], PublishCommandFails(d, j)
      PROVE  NoNewToken(NoOne)
  BY <1>5, RemovalMakesNone DEF PublishCommandFails, SameHistory, deviceVars
<1>6. ASSUME NEW d \in Devices, NEW j \in unsent[d], RepeatCommand(d, j), j.cmd # "ENROLL"
      PROVE  NoNewToken(NoOne)
  <2>1. j.cmd = "DELETE"
    BY <1>6, JobsTyped DEF TypeOK
  <2> QED
    BY <1>6, <2>1, RemovalMakesNone DEF RepeatCommand, SameHistory, backendVars, deviceVars
<1> QED
  BY <1>1, <1>2, <1>3, <1>4, <1>5, <1>6 DEF Faults, Repeats

-----------------------------------------------------------------------------
(* The steps that turn one token into another. *)

\* The command at the head of a mailbox is no later token's origin.
LEMMA HeadIsGone ==
    ASSUME NEW d \in Devices, NEW p \in Employees, NEW z \in Devices, NEW kind,
           \A i \in DOMAIN inbox'[z] : i \in Nat \ {0}
    PROVE  \A t \in Tokens(d, p)' : t[1] \in {"sync", "enroll"} => Before(z, t) # <<kind, z, 1>>
<1> SUFFICES ASSUME NEW t \in Tokens(d, p)', t[1] \in {"sync", "enroll"}
             PROVE  Before(z, t) # <<kind, z, 1>>
  OBVIOUS
<1>1. PICK k \in Kinds, x \in Devices, i \in Nat : t = <<k, x, i>> /\ Counts(d, p, k, x, i)'
  BY DEF Tokens
<1>2. CASE x # z
  BY <1>1, <1>2 DEF Before
<1>3. CASE x = z
  <2>1. i \in DOMAIN inbox'[z]
    BY <1>1, <1>3 DEF Counts, Enrolls
  <2>2. i \in Nat \ {0} /\ i + 1 # 1
    BY <2>1
  <2> QED
    BY <1>1, <1>3, <2>2 DEF Before
<1> QED
  BY <1>2, <1>3

\* A command to enrol becomes a session.
LEMMA ReceiveEnrollMoves ==
    ASSUME TypeOK, TypeOK', Covered, NEW z \in Devices, ReceiveEnroll(z)
    PROVE  Covered'
<1> DEFINE m == Head(inbox[z])
<1>1. /\ inbox[z] # <<>> /\ m.cmd = "ENROLL" /\ Consume(z)
      /\ enroll' = [enroll EXCEPT ![z] = [state |-> "FIND_EMPTY_SLOT", slot |-> 0, person |-> m.emp]]
      /\ UNCHANGED <<unsent, request, sensor, started, repeated>>
  BY DEF ReceiveEnroll, NextCommand, backendVars, historyVars
<1>2. /\ \A x \in Devices : MailKept(x, z)
      /\ \A i \in DOMAIN inbox'[z] : i \in Nat \ {0}
      /\ inbox[z][1] = m /\ 1 \in DOMAIN inbox[z]
  BY <1>1, MailTaken
<1>3. /\ enroll'[z].person = m.emp
      /\ \A x \in Devices : x # z => enroll'[x] = enroll[x]
  BY <1>1 DEF TypeOK
<1> SUFFICES ASSUME NEW d \in Devices, NEW p \in Employees
             PROVE  (\E f : f \in Injection(Tokens(d, p), 1..Allowed(p)))'
  BY DEF Covered
<1> DEFINE from == <<"enroll", z, 1>>
           to == <<"session", z, 0>>
<1>4. \A t \in Tokens(d, p)' : t # to => Before(z, t) # from
  <2>1. \A t \in Tokens(d, p)' : t[1] \in {"sync", "enroll"} => Before(z, t) # from
    BY <1>2, HeadIsGone
  <2>2. \A t \in Tokens(d, p)' : t[1] \notin {"sync", "enroll"} => Before(z, t) # from
    BY DEF Before
  <2> QED
    BY <2>1, <2>2
<1>5. ASSUME to \in Tokens(d, p)' PROVE from \in Tokens(d, p)
  <2>1. m.emp = p
    BY <1>3, <1>5 DEF Tokens, Counts
  <2>2. Counts(d, p, "enroll", z, 1)
    BY <1>1, <1>2, <2>1 DEF Counts, Enrolls
  <2> QED
    BY <2>2 DEF Tokens, Kinds
<1>6. \A x \in Devices : \A i \in DOMAIN inbox'[x] : Leads(d, p, x, inbox'[x][i]) => OldMail(x, z, i)
  BY <1>2 DEF MailKept, Carries, Leads
<1>7. \A x \in Devices : Choosing(x)' => (Choosing(x) /\ enroll'[x] = enroll[x]) \/ to = <<"session", x, 0>>
  BY <1>3 DEF Choosing
<1> HIDE DEF from, to, m
<1>8. Moves(d, p, z, from, to)
  BY <1>1, <1>4, <1>5, <1>6, <1>7 DEF Moves, Reporting
<1> QED
  BY <1>1, <1>8, MovesKeep DEF Covered, Allowed

\* A broadcast becomes a copy.
LEMMA StoreSyncMoves ==
    ASSUME TypeOK, TypeOK', Covered, NEW z \in Devices, StoreSync(z)
    PROVE  Covered'
<1> DEFINE m == Head(inbox[z])
           s == FirstFree(z)
<1>1. /\ inbox[z] # <<>> /\ m.cmd = "SYNC" /\ m.source # z /\ Consume(z)
      /\ sensor' = [sensor EXCEPT ![z][s] = m.finger]
      /\ UNCHANGED <<unsent, enroll, started, repeated>>
  BY DEF StoreSync, NextCommand, Ignored, historyVars
<1>2. /\ \A x \in Devices : MailKept(x, z)
      /\ \A i \in DOMAIN inbox'[z] : i \in Nat \ {0}
      /\ inbox[z][1] = m /\ 1 \in DOMAIN inbox[z]
  BY <1>1, MailTaken
<1>3. \A x \in Devices : ReportKept(x)
  <2>1. CASE FreeEntries(z) = {}
    BY <2>1 DEF StoreSync, ReportKept, Reporting
  <2>2. CASE FreeEntries(z) # {}
    <3>1. \E i, slot, emp : Send(z, "mapping", i, slot, emp, NoOne)
      BY <2>2 DEF StoreSync
    <3> QED
      BY <3>1, SendReports
  <2> QED
    BY <2>1, <2>2
<1> SUFFICES ASSUME NEW d \in Devices, NEW p \in Employees
             PROVE  (\E f : f \in Injection(Tokens(d, p), 1..Allowed(p)))'
  BY DEF Covered
<1> DEFINE from == <<"sync", z, 1>>
           to == <<"slot", z, s>>
<1>4. \A t \in Tokens(d, p)' : t # to => Before(z, t) # from
  <2>1. \A t \in Tokens(d, p)' : t[1] \in {"sync", "enroll"} => Before(z, t) # from
    BY <1>2, HeadIsGone
  <2>2. \A t \in Tokens(d, p)' : t[1] \notin {"sync", "enroll"} => Before(z, t) # from
    BY DEF Before
  <2> QED
    BY <2>1, <2>2
<1>5. sensor \in [Devices -> [Slots -> Person]]
  BY DEF TypeOK
<1>6. ASSUME to \in Tokens(d, p)' PROVE from \in Tokens(d, p)
  <2>1. z = d /\ s \in Slots /\ sensor'[d][s] = p
    BY <1>6 DEF Tokens, Counts
  <2>2. m.finger = p
    BY <1>1, <1>5, <2>1
  <2>3. Counts(d, p, "sync", z, 1)
    BY <1>1, <1>2, <2>1, <2>2 DEF Counts
  <2> QED
    BY <2>3 DEF Tokens, Kinds
<1>7. \A x \in Devices : \A i \in DOMAIN inbox'[x] : Leads(d, p, x, inbox'[x][i]) => OldMail(x, z, i)
  BY <1>2 DEF MailKept, Carries, Leads
<1>8. \A i \in Slots : sensor'[d][i] = p => sensor[d][i] = p \/ to = <<"slot", d, i>>
  BY <1>1, <1>5
<1> HIDE DEF from, to, m, s
<1>9. Moves(d, p, z, from, to)
  BY <1>1, <1>3, <1>4, <1>6, <1>7, <1>8 DEF Moves, ReportKept, Choosing
<1> QED
  BY <1>1, <1>9, MovesKeep DEF Covered, Allowed

\* A session becomes a copy on its own terminal and, for the others, a report.
LEMMA StoreFingerMoves ==
    ASSUME TypeOK, TypeOK', Covered, NEW z \in Devices, StoreFinger(z)
    PROVE  Covered'
<1> DEFINE n == enroll[z]
<1>1. /\ n.state = "WAIT_FINGER"
      /\ sensor' = [sensor EXCEPT ![z][n.slot] = n.person]
      /\ enroll' = [enroll EXCEPT ![z].state = "CALLING"]
      /\ UNCHANGED <<unsent, inbox, started, repeated>>
      /\ request' = [request EXCEPT ![z] = [kind |-> "fingerprint", step |-> "received",
                       emp |-> NoOne, finger |-> n.person, slot |-> n.slot]]
  BY DEF StoreFinger, Send, historyVars
<1>2. /\ enroll'[z].state = "CALLING" /\ \A x \in Devices : x # z => enroll'[x] = enroll[x]
      /\ request'[z].finger = n.person /\ \A x \in Devices : x # z => request'[x] = request[x]
      /\ sensor \in [Devices -> [Slots -> Person]]
  BY <1>1 DEF TypeOK, Enroll
<1>3. ~Choosing(z)' /\ Choosing(z)
  BY <1>1, <1>2 DEF Choosing
<1>4. \A x \in Devices : MailKept(x, NoOne)
  BY <1>1, MailStays
<1> SUFFICES ASSUME NEW d \in Devices, NEW p \in Employees
             PROVE  (\E f : f \in Injection(Tokens(d, p), 1..Allowed(p)))'
  BY DEF Covered
<1> DEFINE from == <<"session", z, 0>>
           to == IF d = z THEN <<"slot", z, n.slot>> ELSE <<"report", z, 0>>
<1>5. \A t \in Tokens(d, p)' : t # to => Before(NoOne, t) # from
  <2> SUFFICES ASSUME NEW t \in Tokens(d, p)', Before(NoOne, t) = from PROVE FALSE
    OBVIOUS
  <2>1. PICK k \in Kinds, x \in Devices, i \in Nat : t = <<k, x, i>> /\ Counts(d, p, k, x, i)'
    BY DEF Tokens
  <2>2. k = "session" /\ x = z
    BY <2>1 DEF Before
  <2> QED
    BY <1>3, <2>1, <2>2 DEF Counts
<1>6. ASSUME to \in Tokens(d, p)' PROVE from \in Tokens(d, p)
  <2>1. n.person = p
    <3>1. CASE d = z
      <4>1. n.slot \in Slots /\ sensor'[d][n.slot] = p
        BY <1>6, <3>1 DEF Tokens, Counts
      <4> QED
        BY <1>1, <1>2, <3>1, <4>1
    <3>2. CASE d # z
      BY <1>2, <1>6, <3>2 DEF Tokens, Counts
    <3> QED
      BY <3>1, <3>2
  <2>2. Counts(d, p, "session", z, 0)
    BY <1>3, <2>1 DEF Counts
  <2> QED
    BY <2>2 DEF Tokens, Kinds
<1>7. \A s \in Slots : sensor'[d][s] = p => sensor[d][s] = p \/ to = <<"slot", d, s>>
  BY <1>1, <1>2
<1>8. \A x \in Devices :
        x # d /\ Reporting(x)' => (Reporting(x) /\ request'[x] = request[x]) \/ to = <<"report", x, 0>>
  BY <1>2 DEF Reporting
<1>9. \A x \in Devices : Choosing(x)' => Choosing(x) /\ enroll'[x] = enroll[x]
  BY <1>2, <1>3 DEF Choosing
<1>10. \A x \in Devices : \A i \in DOMAIN inbox'[x] :
         Leads(d, p, x, inbox'[x][i]) => OldMail(x, NoOne, i)
  BY <1>4 DEF MailKept, Carries, Leads
<1>11. unsent' = unsent
  BY <1>1
<1> HIDE DEF from, to, n
<1>12. Moves(d, p, NoOne, from, to)
  BY <1>5, <1>6, <1>7, <1>8, <1>9, <1>10, <1>11 DEF Moves
<1> QED
  BY <1>1, <1>12, MovesKeep DEF Covered, Allowed

\* A report becomes a broadcast to every terminal but its own.
LEMMA PublishSyncMoves ==
    ASSUME TypeOK, TypeOK', Covered, NEW z \in Devices, PublishSync(z)
    PROVE  Covered'
<1> DEFINE m == SyncCommand(z, request[z].emp, request[z].finger)
<1>1. /\ \A x \in Devices : inbox'[x] = Append(inbox[x], m)
      /\ Finish(z, "ok") /\ Reporting(z)
      /\ UNCHANGED <<unsent, sensor, enroll, started, repeated>>
  BY DEF PublishSync, Publishing, Broadcast, Subscribers, Reporting, historyVars
<1>2. /\ request'[z].kind = "none"
      /\ \A x \in Devices : ReportKept(x)
  BY <1>1, FinishTyped, FinishReports, NothingTyped
<1>3. m.cmd = "SYNC" /\ m.source = z /\ m.finger = request[z].finger
  BY DEF SyncCommand
<1> HIDE DEF m
<1> SUFFICES ASSUME NEW d \in Devices, NEW p \in Employees
             PROVE  (\E f : f \in Injection(Tokens(d, p), 1..Allowed(p)))'
  BY DEF Covered
<1> DEFINE n == Len(inbox[d]) + 1
           from == <<"report", z, 0>>
           to == <<"sync", d, n>>
<1>4. \A x \in Devices : \A i \in DOMAIN inbox'[x] :
        OldMail(x, NoOne, i) \/ (i = Len(inbox[x]) + 1 /\ inbox'[x][i] = m)
  <2> SUFFICES ASSUME NEW x \in Devices
               PROVE  \A i \in DOMAIN inbox'[x] :
                        OldMail(x, NoOne, i) \/ (i = Len(inbox[x]) + 1 /\ inbox'[x][i] = m)
    OBVIOUS
  <2>1. x # NoOne /\ inbox'[x] = Append(inbox[x], m)
    BY <1>1, NoOneAssumption
  <2> QED
    BY <2>1, MailAdded
<1>5. inbox'[d][n] = m
  BY <1>1, NoOneAssumption, MailAdded
<1>6. \A t \in Tokens(d, p)' : t # to => Before(NoOne, t) # from
  <2> SUFFICES ASSUME NEW t \in Tokens(d, p)', Before(NoOne, t) = from PROVE FALSE
    OBVIOUS
  <2>1. PICK k \in Kinds, x \in Devices, i \in Nat : t = <<k, x, i>> /\ Counts(d, p, k, x, i)'
    BY DEF Tokens
  <2>2. k = "report" /\ x = z
    BY <2>1 DEF Before
  <2> QED
    BY <1>2, <2>1, <2>2 DEF Counts, Reporting
<1>7. ASSUME to \in Tokens(d, p)' PROVE from \in Tokens(d, p)
  <2>1. inbox'[d][n].finger = p /\ inbox'[d][n].source # d
    BY <1>7 DEF Tokens, Counts
  <2>2. Counts(d, p, "report", z, 0)
    BY <1>1, <1>3, <1>5, <2>1 DEF Counts
  <2> QED
    BY <2>2 DEF Tokens, Kinds
<1>8. \A x \in Devices : \A i \in DOMAIN inbox'[x] :
        Leads(d, p, x, inbox'[x][i]) =>
          OldMail(x, NoOne, i) \/ (to = <<"sync", x, i>> /\ inbox'[x][i].cmd = "SYNC")
  BY <1>3, <1>4 DEF Leads
<1> HIDE DEF from, to, n
<1>9. Moves(d, p, NoOne, from, to)
  BY <1>1, <1>2, <1>6, <1>7, <1>8 DEF Moves, ReportKept, Choosing
<1> QED
  BY <1>1, <1>9, MovesKeep DEF Covered, Allowed

\* A command that is sent: from the handler's hands to the mailbox.
LEMMA PublishCommandMoves ==
    ASSUME TypeOK, TypeOK', Covered, NEW z \in Devices, NEW j \in unsent[z],
           j.cmd = "ENROLL", PublishCommand(z, j)
    PROVE  Covered'
<1> DEFINE m == CommandOf(j)
<1>1. /\ inbox' = [inbox EXCEPT ![z] = Append(inbox[z], m)]
      /\ unsent' = [unsent EXCEPT ![z] = unsent[z] \ {j}]
      /\ UNCHANGED <<request, sensor, enroll, started, repeated>>
  BY DEF PublishCommand, TypeOK, deviceVars, historyVars
<1>2. m.cmd = "ENROLL" /\ m.emp = j.emp /\ j = EnrollJob(j.emp, j.nth) /\ j.nth \in Nat
  BY JobsTyped, SizeAssumption DEF TypeOK
<1> HIDE DEF m
<1>3. /\ inbox'[z] = Append(inbox[z], m) /\ \A x \in Devices : x # z => inbox'[x] = inbox[x]
      /\ unsent'[z] = unsent[z] \ {j} /\ \A x \in Devices : x # z => unsent'[x] = unsent[x]
  BY <1>1 DEF TypeOK
<1> DEFINE n == Len(inbox[z]) + 1
<1>4. ASSUME NEW i \in DOMAIN inbox'[z], ~OldMail(z, NoOne, i)
      PROVE  i = n /\ inbox'[z][i] = m
  <2>1. inbox'[z] = Append(inbox[z], m)
    BY <1>3
  <2> QED
    BY <1>4, <2>1, MailGrown
<1>5. \A x \in Devices : x # z => \A i \in DOMAIN inbox'[x] : OldMail(x, NoOne, i)
  BY <1>3, NoOneAssumption DEF OldMail
<1> HIDE DEF n
<1> SUFFICES ASSUME NEW d \in Devices, NEW p \in Employees
             PROVE  (\E f : f \in Injection(Tokens(d, p), 1..Allowed(p)))'
  BY DEF Covered
<1> DEFINE from == <<"start", z, j.nth>>
           to == <<"enroll", z, n>>
<1>6. CASE j.emp = p
  <2>1. \A t \in Tokens(d, p)' : t # to => Before(NoOne, t) # from
    <3> SUFFICES ASSUME NEW t \in Tokens(d, p)', Before(NoOne, t) = from PROVE FALSE
      OBVIOUS
    <3>1. PICK k \in Kinds, x \in Devices, i \in Nat : t = <<k, x, i>> /\ Counts(d, p, k, x, i)'
      BY DEF Tokens
    <3>2. k = "start" /\ x = z /\ i = j.nth
      BY <3>1 DEF Before
    <3>3. EnrollJob(p, i) \in unsent'[z]
      BY <3>1, <3>2 DEF Counts
    <3> QED
      BY <1>2, <1>3, <1>6, <3>2, <3>3
  <2>2. from \in Tokens(d, p)
    <3>1. Counts(d, p, "start", z, j.nth)
      BY <1>2, <1>6 DEF Counts
    <3> QED
      BY <1>2, <3>1 DEF Tokens, Kinds
  <2>3. \A x \in Devices : \A i \in DOMAIN inbox'[x] :
          OldMail(x, NoOne, i) \/ (to = <<"enroll", x, i>> /\ inbox'[x][i].cmd = "ENROLL")
    BY <1>2, <1>4, <1>5
  <2>4. \A x \in Devices : \A i \in Nat : EnrollJob(p, i) \in unsent'[x] => EnrollJob(p, i) \in unsent[x]
    BY <1>3
  <2> HIDE DEF from, to
  <2>5. Moves(d, p, NoOne, from, to)
    BY <1>1, <2>1, <2>2, <2>3, <2>4 DEF Moves, Reporting, Choosing
  <2> QED
    BY <1>1, <2>5, MovesKeep DEF Covered, Allowed
<1>7. CASE j.emp # p
  <2> DEFINE none == <<"none", d, 0>>
  <2>1. \A t \in Tokens(d, p)' : t # none /\ Before(NoOne, t) # none
    <3> SUFFICES ASSUME NEW t \in Tokens(d, p)' PROVE t # none /\ Before(NoOne, t) # none
      OBVIOUS
    <3>1. PICK k \in Kinds, x \in Devices, i \in Nat : t = <<k, x, i>>
      BY DEF Tokens
    <3> QED
      BY <3>1 DEF Kinds, Before
  <2>2. \A x \in Devices : \A i \in DOMAIN inbox'[x] :
          Leads(d, p, x, inbox'[x][i]) => OldMail(x, NoOne, i)
    BY <1>2, <1>4, <1>5, <1>7 DEF Leads
  <2>3. \A x \in Devices : \A i \in Nat : EnrollJob(p, i) \in unsent'[x] => EnrollJob(p, i) \in unsent[x]
    BY <1>3
  <2> HIDE DEF none
  <2>4. Moves(d, p, NoOne, none, none)
    BY <1>1, <2>1, <2>2, <2>3 DEF Moves, Reporting, Choosing
  <2> QED
    BY <1>1, <2>4, MovesKeep DEF Covered, Allowed
<1> QED
  BY <1>6, <1>7

-----------------------------------------------------------------------------
(* The steps that make one token more. *)

\* At most one token, of e, is new, and e is allowed one more.
LEMMA OneMore ==
    ASSUME TypeOK, Covered, NEW e,
           \A p \in Employees : Allowed(p)' = IF p = e THEN Allowed(p) + 1 ELSE Allowed(p),
           \A d \in Devices, p \in Employees :
             \A t, u \in Tokens(d, p)' \ Tokens(d, p) : p = e /\ t = u
    PROVE  Covered'
<1> SUFFICES ASSUME NEW d \in Devices, NEW p \in Employees
             PROVE  \E g : g \in Injection(Tokens(d, p)', 1..(Allowed(p)'))
  BY DEF Covered
<1> DEFINE A == Tokens(d, p)'
           B == Tokens(d, p)
           n == Allowed(p)
<1>1. PICK f : f \in Injection(B, 1..n)
  BY DEF Covered
<1>2. /\ \A b \in B : f[b] \in 1..n
      /\ \A a, b \in B : f[a] = f[b] => a = b
  BY <1>1 DEF Injection, IsInjective
<1>3. n \in Nat
  BY SizeAssumption DEF TypeOK, Allowed
<1>4. /\ \A t, u \in A : t \notin B /\ u \notin B => t = u
      /\ \A t \in A : t \notin B => p = e
  OBVIOUS
<1>5. Allowed(p)' = IF p = e THEN n + 1 ELSE n
  OBVIOUS
<1> DEFINE next(t) == IF t \in B THEN f[t] ELSE n + 1
           g == [t \in A |-> next(t)]
<1> HIDE DEF A, B, n
<1>6. \A t \in A : next(t) \in 1..(Allowed(p)')
  BY <1>2, <1>3, <1>4, <1>5
<1>7. \A t, u \in A : next(t) = next(u) => t = u
  BY <1>2, <1>3, <1>4
<1> HIDE DEF next
<1>8. g \in Injection(A, 1..(Allowed(p)'))
  BY <1>6, <1>7 DEF Injection, IsInjective
<1> QED
  BY <1>8 DEF A

\* The new tokens of a step that only starts or sends something.
LEMMA TokensGrow ==
    ASSUME NEW d \in Devices, NEW p \in Employees, UNCHANGED <<request, sensor, enroll>>,
           NEW t \in Tokens(d, p)', t \notin Tokens(d, p)
    PROVE  \E x \in Devices, i \in Nat :
             \/ t = <<"start", x, i>> /\ EnrollJob(p, i) \in unsent'[x] \ unsent[x]
             \/ /\ i \in DOMAIN inbox'[x] /\ ~OldMail(x, NoOne, i)
                /\ Leads(d, p, x, inbox'[x][i])
                /\ \/ t = <<"sync", x, i>> /\ inbox'[x][i].cmd = "SYNC"
                   \/ t = <<"enroll", x, i>> /\ inbox'[x][i].cmd = "ENROLL"
<1>1. PICK k \in Kinds, x \in Devices, i \in Nat : t = <<k, x, i>> /\ Counts(d, p, k, x, i)'
  BY DEF Tokens
<1>2. ~Counts(d, p, k, x, i)
  BY <1>1 DEF Tokens
<1>3. k \notin {"slot", "report", "session"}
  BY <1>1, <1>2 DEF Counts, Reporting, Choosing
<1>4. CASE k = "start"
  BY <1>1, <1>2, <1>4 DEF Counts
<1>5. CASE k \in {"sync", "enroll"}
  <2>1. /\ i \in DOMAIN inbox'[x] /\ Leads(d, p, x, inbox'[x][i])
        /\ \/ k = "sync" /\ inbox'[x][i].cmd = "SYNC"
           \/ k = "enroll" /\ inbox'[x][i].cmd = "ENROLL"
    BY <1>1, <1>5 DEF Counts, Enrolls, Leads
  <2>2. ~(i \in DOMAIN inbox[x] /\ inbox'[x][i] = inbox[x][i])
    BY <1>1, <1>2, <1>5 DEF Counts, Enrolls
  <2>3. x # NoOne
    BY NoOneAssumption
  <2>4. ~OldMail(x, NoOne, i)
    BY <2>2, <2>3 DEF OldMail
  <2> QED
    BY <1>1, <2>1, <2>4
<1> QED
  BY <1>3, <1>4, <1>5 DEF Kinds

\* An enrolment that is started is one token and one enrolment more.
LEMMA StartEnrollMoves ==
    ASSUME TypeOK, Covered, NEW z \in Devices, NEW e \in Employees, StartEnroll(z, e)
    PROVE  Covered'
<1> DEFINE n == started[e] + 1
<1>1. /\ unsent'[z] = unsent[z] \cup {EnrollJob(e, n)}
      /\ \A x \in Devices : x # z => unsent'[x] = unsent[x]
      /\ started' = [started EXCEPT ![e] = @ + 1]
      /\ UNCHANGED <<request, inbox, sensor, enroll, repeated>>
  BY DEF StartEnroll, TypeOK, deviceVars
<1>2. \A p \in Employees : Allowed(p)' = IF p = e THEN Allowed(p) + 1 ELSE Allowed(p)
  <2>1. /\ \A p \in Employees : started[p] \in Nat /\ repeated[p] \in Nat
        /\ started'[e] = started[e] + 1
        /\ \A p \in Employees : p # e => started'[p] = started[p]
    BY <1>1, SizeAssumption DEF TypeOK
  <2> QED
    BY <1>1, <2>1 DEF Allowed
<1>3. ASSUME NEW d \in Devices, NEW p \in Employees, NEW t \in Tokens(d, p)', t \notin Tokens(d, p)
      PROVE  p = e /\ t = <<"start", z, n>>
  <2>1. PICK x \in Devices, i \in Nat :
          \/ t = <<"start", x, i>> /\ EnrollJob(p, i) \in unsent'[x] \ unsent[x]
          \/ i \in DOMAIN inbox'[x] /\ ~OldMail(x, NoOne, i)
    BY <1>1, <1>3, TokensGrow
  <2>2. i \in DOMAIN inbox'[x] => OldMail(x, NoOne, i)
    BY <1>1, NoOneAssumption DEF OldMail
  <2>3. t = <<"start", x, i>> /\ x = z /\ EnrollJob(p, i) = EnrollJob(e, n)
    BY <1>1, <2>1, <2>2
  <2>4. EnrollJob(p, i).emp = p /\ EnrollJob(p, i).nth = i
        /\ EnrollJob(e, n).emp = e /\ EnrollJob(e, n).nth = n
    BY DEF EnrollJob
  <2> QED
    BY <2>3, <2>4
<1> QED
  BY <1>2, <1>3, OneMore

\* A command to enrol that comes once more.
LEMMA RepeatCommandMoves ==
    ASSUME TypeOK, Covered, NEW z \in Devices, NEW j \in unsent[z],
           j.cmd = "ENROLL", RepeatCommand(z, j)
    PROVE  Covered'
<1> DEFINE m == CommandOf(j)
           e == j.emp
<1>1. /\ inbox'[z] = Append(inbox[z], m)
      /\ \A x \in Devices : x # z => inbox'[x] = inbox[x]
      /\ repeated' = [repeated EXCEPT ![e] = @ + 1]
      /\ UNCHANGED <<unsent, request, sensor, enroll, started>>
  BY DEF RepeatCommand, SameHistory, TypeOK, backendVars, deviceVars
<1>2. m.cmd = "ENROLL" /\ m.emp = e /\ e \in Employees
  BY JobsTyped DEF TypeOK
<1>3. \A p \in Employees : Allowed(p)' = IF p = e THEN Allowed(p) + 1 ELSE Allowed(p)
  <2>1. \A p \in Employees : started[p] \in Nat /\ repeated[p] \in Nat
    BY SizeAssumption DEF TypeOK
  <2>2. \A p \in Employees : repeated'[p] = IF p = e THEN repeated[p] + 1 ELSE repeated[p]
    BY <1>1, <1>2 DEF TypeOK
  <2>3. started' = started
    BY <1>1
  <2> QED
    BY <2>1, <2>2, <2>3 DEF Allowed
<1> DEFINE n == Len(inbox[z]) + 1
           new == <<"enroll", z, n>>
<1> HIDE DEF m, e
<1>4. ASSUME NEW d \in Devices, NEW p \in Employees, NEW t \in Tokens(d, p)', t \notin Tokens(d, p)
      PROVE  p = e /\ t = new
  <2>1. PICK x \in Devices, i \in Nat :
          \/ EnrollJob(p, i) \in unsent'[x] \ unsent[x]
          \/ /\ i \in DOMAIN inbox'[x] /\ ~OldMail(x, NoOne, i)
             /\ Leads(d, p, x, inbox'[x][i])
             /\ \/ t = <<"sync", x, i>> /\ inbox'[x][i].cmd = "SYNC"
                \/ t = <<"enroll", x, i>> /\ inbox'[x][i].cmd = "ENROLL"
    BY <1>1, <1>4, TokensGrow
  <2>2. x = z
    BY <1>1, <2>1, NoOneAssumption DEF OldMail
  <2>3. i = n /\ inbox'[z][i] = m
    BY <1>1, <2>1, <2>2, MailGrown
  <2> QED
    BY <1>1, <1>2, <2>1, <2>2, <2>3 DEF Leads
<1> HIDE DEF new
<1>5. \A d \in Devices, p \in Employees :
        \A t, u \in Tokens(d, p)' \ Tokens(d, p) : p = e /\ t = u
  BY <1>4
<1> QED
  BY <1>3, <1>5, OneMore

\* A broadcast that comes once more.
LEMMA RepeatSyncMoves ==
    ASSUME TypeOK, Covered, NEW z \in Devices, RepeatSync(z)
    PROVE  Covered'
<1> DEFINE e == request[z].finger
           m == SyncCommand(z, request[z].emp, e)
<1>1. /\ \A x \in Devices : inbox'[x] = Append(inbox[x], m)
      /\ repeated' = [repeated EXCEPT ![e] = @ + 1]
      /\ UNCHANGED <<unsent, request, sensor, enroll, started>>
  BY DEF RepeatSync, Broadcast, Subscribers, SameHistory, backendVars, deviceVars
<1>2. m.cmd = "SYNC" /\ m.finger = e
  BY DEF SyncCommand
<1>3. \A p \in Employees : Allowed(p)' = IF p = e THEN Allowed(p) + 1 ELSE Allowed(p)
  <2>1. /\ \A p \in Employees : started[p] \in Nat /\ repeated[p] \in Nat
        /\ \A p \in Employees : repeated'[p] = IF p = e THEN repeated[p] + 1 ELSE repeated[p]
    BY <1>1, SizeAssumption DEF TypeOK
  <2> QED
    BY <1>1, <2>1 DEF Allowed
<1> HIDE DEF m, e
<1>4. ASSUME NEW d \in Devices, NEW p \in Employees, NEW t \in Tokens(d, p)', t \notin Tokens(d, p)
      PROVE  p = e /\ t = <<"sync", d, Len(inbox[d]) + 1>>
  <2>1. PICK x \in Devices, i \in Nat :
          \/ EnrollJob(p, i) \in unsent'[x] \ unsent[x]
          \/ /\ i \in DOMAIN inbox'[x] /\ ~OldMail(x, NoOne, i)
             /\ Leads(d, p, x, inbox'[x][i])
             /\ \/ t = <<"sync", x, i>> /\ inbox'[x][i].cmd = "SYNC"
                \/ t = <<"enroll", x, i>> /\ inbox'[x][i].cmd = "ENROLL"
    BY <1>1, <1>4, TokensGrow
  <2>2. i = Len(inbox[x]) + 1 /\ inbox'[x][i] = m
    BY <1>1, <2>1, MailGrown
  <2> QED
    BY <1>1, <1>2, <2>1, <2>2 DEF Leads
<1> QED
  BY <1>3, <1>4, OneMore

-----------------------------------------------------------------------------
(* Every copy has its enrolment, whatever is lost, late or repeated. *)

LEMMA InitCovered == Init => Covered
<1> SUFFICES ASSUME Init, NEW d \in Devices, NEW p \in Employees
             PROVE  \E f : f \in Injection(Tokens(d, p), 1..Allowed(p))
  BY DEF Covered
<1>1. p # NoOne
  BY NoOneAssumption
<1>2. \A k, x, i : x \in Devices => ~Counts(d, p, k, x, i)
  BY <1>1 DEF Init, Counts, Reporting, Choosing, Enrolls, NoRequest, NotEnrolling
<1>3. Tokens(d, p) = {}
  BY <1>2 DEF Tokens
<1>4. [t \in {} |-> 1] \in Injection({}, 1..Allowed(p))
  BY DEF Injection, IsInjective
<1> QED
  BY <1>3, <1>4

LEMMA NextCovered == TypeOK /\ TypeOK' /\ Covered /\ [Next]_vars => Covered'
<1> SUFFICES ASSUME TypeOK, TypeOK', Covered, [Next]_vars PROVE Covered'
  OBVIOUS
<1>1. ASSUME NEW d \in Devices, Backend(d) PROVE Covered'
  BY <1>1, BackendMakesNone, NoTokenKeeps, PublishSyncMoves
<1>2. ASSUME NEW d \in Devices, Loop(d) PROVE Covered'
  BY <1>2, LoopMakesNone, NoTokenKeeps, ReceiveEnrollMoves, StoreSyncMoves
<1>3. ASSUME NEW d \in Devices, AtSensor(d) PROVE Covered'
  BY <1>3, OthersMakeNone, NoTokenKeeps, StoreFingerMoves DEF AtSensor
<1>4. CASE Manager
  BY <1>4, OthersMakeNone, NoTokenKeeps, StartEnrollMoves DEF Manager
<1>5. CASE Faults
  BY <1>5, FaultsMakeNone, NoTokenKeeps, RepeatSyncMoves, RepeatCommandMoves DEF Repeats
<1>7. ASSUME NEW d \in Devices, Publish(d) PROVE Covered'
  <2>1. PICK j \in unsent[d] : PublishCommand(d, j)
    BY <1>7 DEF Publish
  <2>2. CASE j.cmd = "ENROLL"
    BY <2>1, <2>2, PublishCommandMoves
  <2>3. CASE j.cmd = "DELETE"
    <3>1. NoNewToken(NoOne)
      BY <2>1, <2>3, RemovalMakesNone DEF PublishCommand, deviceVars, historyVars
    <3> QED
      BY <3>1, NoTokenKeeps
  <2> QED
    BY <2>2, <2>3, JobsTyped DEF TypeOK
<1>6. CASE UNCHANGED vars
  BY <1>6, OthersMakeNone, NoTokenKeeps
<1> QED
  BY <1>1, <1>2, <1>3, <1>4, <1>5, <1>6, <1>7 DEF Next

LEMMA CopiesAreTokens == TypeOK /\ Covered => OneCopyPerEnrolment
<1> SUFFICES ASSUME TypeOK, Covered, NEW d \in Devices, NEW p \in Employees
             PROVE  Copies(d, p) <= Allowed(p)
  BY DEF OneCopyPerEnrolment, Allowed
<1> DEFINE S == {s \in Slots : sensor[d][s] = p}
           h == [s \in S |-> <<"slot", d, s>>]
<1>1. \A s \in S : <<"slot", d, s>> \in Tokens(d, p)
  BY SizeAssumption DEF Tokens, Kinds, Counts, Slots
<1>2. \A s, t \in S : <<"slot", d, s>> = <<"slot", d, t>> => s = t
  OBVIOUS
<1> HIDE DEF S
<1>3. h \in Injection(S, Tokens(d, p))
  BY <1>1, <1>2 DEF Injection, IsInjective
<1>4. PICK f : f \in Injection(Tokens(d, p), 1..Allowed(p))
  BY DEF Covered
<1>5. \E g : g \in Injection(S, 1..Allowed(p))
  BY <1>3, <1>4, Fun_InjTransitive
<1>6. Allowed(p) \in Nat
  BY SizeAssumption DEF TypeOK, Allowed
<1>7. IsFiniteSet(1..Allowed(p)) /\ Cardinality(1..Allowed(p)) = Allowed(p)
  BY <1>6, FS_Interval
<1>8. Cardinality(S) <= Allowed(p)
  BY <1>5, <1>7, FS_Injection
<1> QED
  BY <1>8 DEF Copies, S

\* What a sensor holds is explained: whatever is lost, late, retried or given
\* up, and however enrolments cross, a terminal never holds more copies of a
\* finger than enrolments were started for it and commands of theirs came once
\* more (mqtt.service.ts publishes with QoS 1), although the broadcast
\* (credentials.service.ts) comes back to the terminal that stored the finger
\* and every other terminal stores what it is sent without looking.
THEOREM CopiesAreExplained == Spec => []SlotsAreExplained
<1>1. Spec => []Covered
  <2>1. TypeOK /\ TypeOK' /\ Covered /\ [Next]_vars => Covered'
    BY NextCovered
  <2> QED
    BY TypeCorrect, InitCovered, <2>1, PTL DEF Spec
<1>2. TypeOK /\ Covered => SlotsAreExplained
  BY CopiesAreTokens DEF SlotsAreExplained
<1> QED
  BY TypeCorrect, <1>1, <1>2, PTL

-----------------------------------------------------------------------------
(* Undisturbed: one enrolment at a time, and removals between enrolments.   *)

\* A request inside the backend is the one the loop is blocked in.
Linked(d) ==
    request[d].kind # "none" =>
      call[d].kind = request[d].kind /\ call[d].slot = request[d].slot /\ call[d].answer = "none"

\* A mapped slot holds its employee's finger.
Mapped(d) == \A e \in Employees : mapping[d][e] # 0 => sensor[d][mapping[d][e]] = e

\* A scan in progress is of the finger its slot holds, and a slot that is
\* about to be emptied as a ghost is nobody's.
ScanFits(d) ==
    /\ request[d].kind = "checkin" =>
         request[d].slot \in Slots /\ sensor[d][request[d].slot] = request[d].finger
    /\ call[d].kind = "checkin" => call[d].slot \in Slots
    /\ call[d].kind = "checkin" /\ call[d].answer = "ghost" =>
         \A e \in Employees : mapping[d][e] # call[d].slot

\* The slot a session has chosen stays free until the finger is stored, and
\* holds it while it is reported.
SlotFits(d) ==
    /\ enroll[d].state = "WAIT_FINGER" => enroll[d].slot \in Slots /\ sensor[d][enroll[d].slot] = NoOne
    /\ Reporting(d) => request[d].slot \in Slots /\ sensor[d][request[d].slot] = request[d].finger

\* A mapping callback is sent as soon as its template is stored, for the slot
\* that holds it, and succeeds.
CallbackFits(d) ==
    /\ \A i \in Entries : pending[d][i] # NoEntry =>
         /\ call[d].kind = "mapping" /\ call[d].entry = i /\ call[d].answer \in {"none", "ok"}
         /\ pending[d][i].slot \in Slots /\ sensor[d][pending[d][i].slot] = pending[d][i].emp
    /\ request[d].kind = "mapping" =>
         request[d].slot \in Slots /\ sensor[d][request[d].slot] = request[d].emp

\* A command to delete, sent or not, is for a slot that nobody is mapped to,
\* and there is none while an enrolment is open.
Deleting(d, s) ==
    \/ \E i \in DOMAIN inbox[d] : inbox[d][i].cmd = "DELETE" /\ inbox[d][i].slot = s
    \/ \E j \in unsent[d] : j.cmd = "DELETE" /\ j.slot = s
DeletesFit ==
    \A d \in Devices : \A s :
      Deleting(d, s) =>
        /\ s # 0 /\ \A e \in Employees : mapping[d][e] # s
        /\ \A x \in Devices : ~EnrolmentOpen(x)

\* A broadcast carries the employee's own finger.
SyncsFit ==
    \A d \in Devices : \A i \in DOMAIN inbox[d] :
      inbox[d][i].cmd = "SYNC" => inbox[d][i].emp = inbox[d][i].finger

\* Until an enrolment is broadcast it is the only one, and no broadcast of an
\* earlier one is left.
Starts(d) == {j \in unsent[d] : j.cmd = "ENROLL"}
Early(d) == Starts(d) # {} \/ Enrolls(d) # {} \/ Choosing(d) \/ Reporting(d)
OneEarly ==
    \A d \in Devices : Early(d) =>
      \A x \in Devices :
        /\ x # d => ~Early(x)
        /\ \A i \in DOMAIN inbox[x] : inbox[x][i].cmd # "SYNC"

\* ... and it is at one thing: a command to send, a command to come, a session
\* at the sensor or a report.
OneCommand(d) == \A i, k \in Enrolls(d) : i = k
OnePhase(d) ==
    /\ \A j, k \in Starts(d) : j = k
    /\ OneCommand(d)
    /\ Starts(d) # {} => Enrolls(d) = {} /\ ~Choosing(d) /\ ~Reporting(d)
    /\ Enrolls(d) # {} => ~Choosing(d) /\ ~Reporting(d)
    /\ Choosing(d) => ~Reporting(d)

Local(d) == Linked(d) /\ Mapped(d) /\ ScanFits(d) /\ SlotFits(d) /\ CallbackFits(d)
Owned ==
    /\ \A d \in Devices : Local(d) /\ OnePhase(d)
    /\ DeletesFit /\ SyncsFit /\ OneEarly
    /\ misbooked = {}

OwnersInv == (overrun => crossed) /\ (Undisturbed => Owned)

-----------------------------------------------------------------------------
(* What an action has to show about its own terminal and about the rest. *)

SameAt(x) ==
    /\ request'[x] = request[x] /\ call'[x] = call[x] /\ sensor'[x] = sensor[x]
    /\ mapping'[x] = mapping[x] /\ pending'[x] = pending[x] /\ enroll'[x] = enroll[x]
NoNewMail ==
    \A x \in Devices :
      /\ \A i \in DOMAIN inbox'[x] : \E j \in DOMAIN inbox[x] : inbox'[x][i] = inbox[x][j]
      /\ unsent'[x] \subseteq unsent[x]
      /\ OneCommand(x) => OneCommand(x)'
SessionGoesOn(d) == (Choosing(d)' => Choosing(d)) /\ (Reporting(d)' => Reporting(d))
OpensNone(d) ==
    /\ mapping' = mapping /\ intent' = intent /\ enroll' = enroll /\ pending' = pending
    /\ request'[d].kind \in {"none", "checkin"} /\ call'[d].kind \in {"none", "checkin"}

LEMMA SameLocal ==
    ASSUME NEW x \in Devices, Local(x), SameAt(x)
    PROVE  Local(x)'
<1>1. Linked(x)' /\ Mapped(x)'
  BY DEF Local, SameAt, Linked, Mapped
<1>2. ScanFits(x)' /\ SlotFits(x)'
  BY DEF Local, SameAt, ScanFits, SlotFits, Reporting
<1>3. CallbackFits(x)'
  BY DEF Local, SameAt, CallbackFits
<1> QED
  BY <1>1, <1>2, <1>3 DEF Local

\* The mailbox of a session that goes on, or of no session at all.
LEMMA MailboxesFit ==
    ASSUME DeletesFit, SyncsFit, OneEarly, NoNewMail, NEW d \in Devices,
           \A x \in Devices : x # d => SameAt(x),
           SessionGoesOn(d) \/ Early(d),
           EnrolmentOpen(d) \/ OpensNone(d)
    PROVE  DeletesFit' /\ SyncsFit' /\ OneEarly'
<1>1. \A x \in Devices : Early(x)' => Early(x)
  <2> SUFFICES ASSUME NEW x \in Devices, Early(x)' PROVE Early(x)
    OBVIOUS
  <2>1. CASE Enrolls(x)' # {}
    BY <2>1 DEF NoNewMail, Enrolls, Early
  <2>2. CASE Starts(x)' # {}
    BY <2>2 DEF NoNewMail, Starts, Early
  <2>3. CASE (Choosing(x)' \/ Reporting(x)') /\ x # d
    BY <2>3 DEF SameAt, Choosing, Reporting, Early
  <2>4. CASE (Choosing(x)' \/ Reporting(x)') /\ x = d
    BY <2>4 DEF SessionGoesOn, Early
  <2> QED
    BY <2>1, <2>2, <2>3, <2>4 DEF Early
<1>2. SyncsFit'
  BY DEF SyncsFit, NoNewMail
<1>3. OneEarly'
  <2> SUFFICES ASSUME NEW x \in Devices, Early(x)', NEW y \in Devices
               PROVE  /\ y # x => ~Early(y)'
                      /\ \A i \in DOMAIN inbox'[y] : inbox'[y][i].cmd # "SYNC"
    BY DEF OneEarly
  <2>1. Early(x)
    BY <1>1
  <2>2. \A i \in DOMAIN inbox[y] : inbox[y][i].cmd # "SYNC"
    BY <2>1 DEF OneEarly
  <2>3. y # x => ~Early(y)
    BY <2>1 DEF OneEarly
  <2> QED
    BY <1>1, <2>2, <2>3 DEF NoNewMail
<1>6. \A x \in Devices : \A s : Deleting(x, s)' => Deleting(x, s)
  BY DEF NoNewMail, Deleting
<1>4. CASE EnrolmentOpen(d)
  <2>1. \A x \in Devices : \A s : ~Deleting(x, s)
    BY <1>4 DEF DeletesFit
  <2>2. DeletesFit'
    BY <1>6, <2>1 DEF DeletesFit
  <2> QED
    BY <1>2, <1>3, <2>2
<1>5. CASE OpensNone(d)
  <2>1. \A x \in Devices : EnrolmentOpen(x)' => EnrolmentOpen(x)
    <3> SUFFICES ASSUME NEW x \in Devices, EnrolmentOpen(x)' PROVE EnrolmentOpen(x)
      OBVIOUS
    <3>1. CASE \E i \in DOMAIN inbox'[x] : inbox'[x][i].cmd # "DELETE"
      BY <3>1 DEF EnrolmentOpen, NoNewMail
    <3>2. CASE \/ intent'[x] # NoOne \/ enroll'[x] # NotEnrolling
               \/ \E i \in Entries : pending'[x][i] # NoEntry
      BY <1>5, <3>2 DEF EnrolmentOpen, OpensNone
    <3>3. CASE request'[x].kind \in {"mapping", "fingerprint"} \/ call'[x].kind \in {"mapping", "fingerprint"}
      BY <1>5, <3>3 DEF EnrolmentOpen, OpensNone, SameAt
    <3>4. CASE \E j \in unsent'[x] : j.cmd = "ENROLL"
      BY <3>4 DEF EnrolmentOpen, NoNewMail
    <3> QED
      BY <3>1, <3>2, <3>3, <3>4 DEF EnrolmentOpen
  <2>2. DeletesFit'
    <3> SUFFICES ASSUME NEW x \in Devices, NEW t, Deleting(x, t)'
                 PROVE  /\ t # 0 /\ \A e \in Employees : mapping'[x][e] # t
                        /\ \A y \in Devices : ~EnrolmentOpen(y)'
      BY DEF DeletesFit
    <3>1. Deleting(x, t)
      BY <1>6
    <3> QED
      BY <1>5, <2>1, <3>1 DEF DeletesFit, OpensNone
  <2> QED
    BY <1>2, <1>3, <2>2
<1> QED
  BY <1>4, <1>5

LEMMA PhaseKept ==
    ASSUME NEW x \in Devices, OnePhase(x), NoNewMail, SessionGoesOn(x)
    PROVE  OnePhase(x)'
<1>1. /\ Starts(x)' \subseteq Starts(x)
      /\ Enrolls(x)' # {} => Enrolls(x) # {}
      /\ OneCommand(x)'
  BY DEF NoNewMail, OnePhase, Starts, Enrolls
<1>2. (Choosing(x)' => Choosing(x)) /\ (Reporting(x)' => Reporting(x))
  BY DEF SessionGoesOn
<1>3. \A j, k \in Starts(x)' : j = k
  BY <1>1 DEF OnePhase
<1>4. Starts(x)' # {} => Enrolls(x)' = {} /\ ~Choosing(x)' /\ ~Reporting(x)'
  BY <1>1, <1>2 DEF OnePhase
<1>5. (Enrolls(x)' # {} => ~Choosing(x)' /\ ~Reporting(x)') /\ (Choosing(x)' => ~Reporting(x)')
  BY <1>1, <1>2 DEF OnePhase
<1> QED
  BY <1>1, <1>3, <1>4, <1>5 DEF OnePhase

LEMMA OwnedStep ==
    ASSUME Owned, NoNewMail, NEW d \in Devices, Local(d)',
           \A x \in Devices : x # d => SameAt(x),
           SessionGoesOn(d) \/ (Early(d) /\ OnePhase(d)'),
           EnrolmentOpen(d) \/ OpensNone(d), misbooked' = {}
    PROVE  Owned'
<1>1. DeletesFit' /\ SyncsFit' /\ OneEarly'
  BY MailboxesFit DEF Owned
<1>2. \A x \in Devices : Local(x)'
  BY SameLocal DEF Owned
<1>3. \A x \in Devices : OnePhase(x)'
  <2> SUFFICES ASSUME NEW x \in Devices PROVE OnePhase(x)'
    OBVIOUS
  <2>1. OnePhase(x)
    BY DEF Owned
  <2>2. x # d => SessionGoesOn(x)
    BY DEF SameAt, SessionGoesOn, Choosing, Reporting
  <2> QED
    BY <2>1, <2>2, PhaseKept
<1> QED
  BY <1>1, <1>2, <1>3 DEF Owned

LEMMA NoMail == ASSUME inbox' = inbox, unsent' = unsent PROVE NoNewMail
BY DEF NoNewMail, OneCommand, Enrolls

LEMMA OneLess ==
    ASSUME TypeOK, NEW d \in Devices, inbox[d] # <<>>, Consume(d), unsent' = unsent
    PROVE  NoNewMail /\ 1 \in DOMAIN inbox[d] /\ Head(inbox[d]) = inbox[d][1] /\ inbox[d][1] \in Command
<1>1. inbox \in [Devices -> Seq(Command)] /\ inbox[d] \in Seq(Command)
  BY DEF TypeOK
<1>2. inbox'[d] = Tail(inbox[d]) /\ \A x \in Devices : x # d => inbox'[x] = inbox[x]
  BY <1>1 DEF Consume
<1>3. \A i \in DOMAIN Tail(inbox[d]) :
        i \in Nat /\ i + 1 \in DOMAIN inbox[d] /\ Tail(inbox[d])[i] = inbox[d][i + 1]
  BY <1>1
<1>5. OneCommand(d) => OneCommand(d)'
  <2> SUFFICES ASSUME OneCommand(d), NEW i \in Enrolls(d)', NEW k \in Enrolls(d)' PROVE i = k
    BY DEF OneCommand
  <2>1. i + 1 \in Enrolls(d) /\ k + 1 \in Enrolls(d) /\ i \in Nat /\ k \in Nat
    BY <1>2, <1>3 DEF Enrolls
  <2>2. i + 1 = k + 1
    BY <2>1 DEF OneCommand
  <2> QED
    BY <2>1, <2>2
<1>6. \A x \in Devices : x # d => (OneCommand(x) => OneCommand(x)')
  BY <1>2 DEF OneCommand, Enrolls
<1>4. NoNewMail
  BY <1>2, <1>3, <1>5, <1>6 DEF NoNewMail
<1> QED
  BY <1>1, <1>4

\* A loop that is not blocked has nothing in the backend and nothing to send.
LEMMA IdleMeans ==
    ASSUME NEW d \in Devices, Local(d), Idle(d) \/ (call[d].answer # "none" /\ call[d].kind # "mapping")
    PROVE  request[d].kind = "none" /\ \A i \in Entries : pending[d][i] = NoEntry
<1>1. request[d].kind = "none"
  BY NothingTyped DEF Local, Linked, Idle
<1>2. \A i \in Entries : pending[d][i] = NoEntry
  BY NothingTyped DEF Local, CallbackFits, Idle
<1> QED
  BY <1>1, <1>2

-----------------------------------------------------------------------------
(* The backend, undisturbed. *)

\* The row of the slot that holds a finger is free for its owner.
LEMMA RowFits ==
    ASSUME TypeOK, NEW d \in Devices, Mapped(d), NEW e, NEW s \in Slots, sensor[d][s] = e
    PROVE  /\ ~SlotTaken(d, e, s)
           /\ mapping' = [mapping EXCEPT ![d][e] = s] /\ sensor' = sensor =>
                Mapped(d)' /\ \A x \in Devices : x # d => mapping'[x] = mapping[x]
<1>1. s # 0
  BY SizeAssumption DEF Slots
<1>2. ~SlotTaken(d, e, s)
  BY <1>1 DEF SlotTaken, Mapped
<1>3. ASSUME mapping' = [mapping EXCEPT ![d][e] = s], sensor' = sensor
      PROVE  Mapped(d)' /\ \A x \in Devices : x # d => mapping'[x] = mapping[x]
  <2>1. /\ mapping' = [mapping EXCEPT ![d] = [mapping[d] EXCEPT ![e] = s]]
        /\ mapping'[d] = [mapping[d] EXCEPT ![e] = s]
    BY <1>3 DEF TypeOK
  <2>2. \A o \in Employees : mapping'[d][o] = IF o = e THEN s ELSE mapping[d][o]
    BY <2>1 DEF TypeOK
  <2>3. Mapped(d)'
    BY <1>3, <2>2 DEF Mapped
  <2> QED
    BY <1>3, <2>1, <2>3 DEF TypeOK
<1> QED
  BY <1>2, <1>3

\* The answer of a request whose call still waits for it.
LEMMA Answers ==
    ASSUME TypeOK, NEW d \in Devices, Linked(d), request[d].kind # "none",
           NEW answer \in {"ok", "fail", "ghost"}, Finish(d, answer)
    PROVE  /\ request'[d] = NoRequest /\ request'[d].kind = "none"
           /\ call'[d].kind = request[d].kind /\ call'[d].entry = call[d].entry
           /\ call'[d].slot = request[d].slot /\ call'[d].answer = answer
           /\ \A x \in Devices : x # d => request'[x] = request[x] /\ call'[x] = call[x]
<1>1. call[d].kind = request[d].kind /\ call[d].slot = request[d].slot /\ call[d].answer = "none"
  BY DEF Linked
<1>2. call' = [call EXCEPT ![d].answer = answer] /\ request' = [request EXCEPT ![d] = NoRequest]
  BY <1>1 DEF Finish
<1>3. call[d] \in Call /\ call \in [Devices -> Call] /\ request \in [Devices -> Request]
  BY DEF TypeOK
<1> QED
  BY <1>1, <1>2, <1>3, NothingTyped DEF Call

LEMMA HandleMappingOwned ==
    ASSUME TypeOK, Owned, NEW d \in Devices, HandleMapping(d)
    PROVE  Owned'
<1> DEFINE r == request[d]
<1>1. r.kind = "mapping" /\ UNCHANGED <<intent, unsent, inbox, sensor, pending, enroll, misbooked>>
  BY DEF HandleMapping, historyVars
<1>2. Local(d) /\ r.slot \in Slots /\ sensor[d][r.slot] = r.emp
  BY <1>1 DEF Owned, Local, CallbackFits
<1>3. ~SlotTaken(d, r.emp, r.slot)
  BY <1>2, RowFits DEF Local
<1>4. Finish(d, "ok") /\ mapping' = [mapping EXCEPT ![d][r.emp] = r.slot]
  BY <1>3 DEF HandleMapping
<1>5. Mapped(d)' /\ \A x \in Devices : x # d => mapping'[x] = mapping[x]
  BY <1>1, <1>2, <1>4, RowFits DEF Local
<1>6. /\ request'[d].kind = "none" /\ call'[d].kind = "mapping" /\ call'[d].entry = call[d].entry
      /\ call'[d].answer = "ok"
      /\ \A x \in Devices : x # d => request'[x] = request[x] /\ call'[x] = call[x]
  BY <1>1, <1>2, <1>4, Answers DEF Local
<1>7. Local(d)'
  <2>1. Linked(d)' /\ ScanFits(d)'
    BY <1>6 DEF Linked, ScanFits
  <2>2. SlotFits(d)' /\ CallbackFits(d)'
    BY <1>1, <1>2, <1>6 DEF Local, SlotFits, CallbackFits, Reporting
  <2> QED
    BY <1>5, <2>1, <2>2 DEF Local
<1>8. \A x \in Devices : x # d => SameAt(x)
  BY <1>1, <1>5, <1>6 DEF SameAt
<1>9. EnrolmentOpen(d) /\ SessionGoesOn(d)
  BY <1>1, <1>6 DEF EnrolmentOpen, Choosing, Reporting, SessionGoesOn
<1>10. misbooked' = {}
  BY <1>1 DEF Owned
<1> QED
  BY <1>1, <1>7, <1>8, <1>9, <1>10, NoMail, OwnedStep

\* A report that goes on, or ends.
LEMMA ReportOwned ==
    ASSUME TypeOK, Owned, NEW d \in Devices, Reporting(d), Mapped(d)',
           UNCHANGED <<sensor, pending, enroll, misbooked>>, NoNewMail,
           \A x \in Devices : x # d => mapping'[x] = mapping[x],
           \/ /\ request'[d].kind = request[d].kind /\ request'[d].slot = request[d].slot
              /\ request'[d].finger = request[d].finger
              /\ call' = call /\ \A x \in Devices : x # d => request'[x] = request[x]
           \/ \E answer \in {"ok", "fail"} : Finish(d, answer)
    PROVE  Owned'
<1>1. Local(d) /\ call[d].kind = "fingerprint" /\ request[d].kind = "fingerprint"
  BY DEF Owned, Local, Linked, Reporting
<1>2. \A i \in Entries : pending[d][i] = NoEntry
  BY <1>1 DEF Local, CallbackFits
<1>3. /\ \A x \in Devices : x # d => request'[x] = request[x] /\ call'[x] = call[x]
      /\ call'[d].kind = "fingerprint" /\ request'[d].kind \in {"none", "fingerprint"}
      /\ request'[d].kind = "fingerprint" =>
           /\ request'[d].slot = request[d].slot /\ request'[d].finger = request[d].finger
           /\ call'[d] = call[d]
  BY <1>1, Answers DEF Local
<1>4. Linked(d)' /\ ScanFits(d)'
  BY <1>1, <1>3 DEF Local, Linked, ScanFits
<1>5. SlotFits(d)' /\ CallbackFits(d)'
  BY <1>1, <1>2, <1>3 DEF Local, SlotFits, CallbackFits, Reporting
<1>6. Local(d)'
  BY <1>4, <1>5 DEF Local
<1>7. \A x \in Devices : x # d => SameAt(x)
  BY <1>3 DEF SameAt
<1>8. EnrolmentOpen(d) /\ SessionGoesOn(d) /\ misbooked' = {}
  BY <1>1 DEF EnrolmentOpen, SessionGoesOn, Choosing, Owned
<1> QED
  BY <1>6, <1>7, <1>8, OwnedStep

LEMMA ReadIntentOwned ==
    ASSUME TypeOK, Owned, NEW d \in Devices, ReadIntent(d)
    PROVE  Owned'
<1>1. /\ Reporting(d) /\ UNCHANGED <<mapping, unsent, inbox, sensor, pending, enroll, misbooked>>
      /\ request[d] \in Request /\ Mapped(d)
  BY DEF ReadIntent, Reporting, historyVars, TypeOK, Owned, Local
<1>2. Mapped(d)' /\ NoNewMail
  BY <1>1, NoMail DEF Mapped
<1>3. CASE intent[d] = NoOne
  <2>1. Finish(d, "fail")
    BY <1>3 DEF ReadIntent
  <2> QED
    BY <1>1, <1>2, <2>1, ReportOwned
<1>4. CASE intent[d] # NoOne
  <2>1. request' = [request EXCEPT ![d].emp = intent[d], ![d].step = "template"] /\ call' = call
    BY <1>4 DEF ReadIntent
  <2>2. /\ request'[d].kind = request[d].kind /\ request'[d].slot = request[d].slot
        /\ request'[d].finger = request[d].finger
        /\ \A x \in Devices : x # d => request'[x] = request[x]
    BY <1>1, <2>1 DEF TypeOK, Request
  <2> QED
    BY <1>1, <1>2, <2>1, <2>2, ReportOwned
<1> QED
  BY <1>3, <1>4

LEMMA NextStepOwned ==
    ASSUME TypeOK, Owned, NEW d \in Devices, WriteTemplate(d) \/ ClearIntent(d)
    PROVE  Owned'
<1>1. /\ Reporting(d) /\ UNCHANGED <<mapping, unsent, inbox, sensor, pending, enroll, call, misbooked>>
      /\ request[d] \in Request /\ Mapped(d)
      /\ request' = [request EXCEPT ![d].step = "mapping"] \/ request' = [request EXCEPT ![d].step = "publish"]
  BY DEF WriteTemplate, ClearIntent, Reporting, historyVars, deviceVars, TypeOK, Owned, Local
<1>2. Mapped(d)' /\ NoNewMail
  BY <1>1, NoMail DEF Mapped
<1>3. /\ request'[d].kind = request[d].kind /\ request'[d].slot = request[d].slot
      /\ request'[d].finger = request[d].finger
      /\ \A x \in Devices : x # d => request'[x] = request[x]
  BY <1>1 DEF TypeOK, Request
<1> QED
  BY <1>1, <1>2, <1>3, ReportOwned

LEMMA WriteMappingOwned ==
    ASSUME IInv, ~overrun, Owned, NEW d \in Devices, WriteMapping(d)
    PROVE  Owned'
<1> DEFINE r == request[d]
<1>1. /\ TypeOK /\ Reporting(d) /\ r.step = "mapping" /\ r \in Request
      /\ UNCHANGED <<intent, unsent, inbox, sensor, pending, enroll, misbooked>>
  BY DEF IInv, TypeOK, WriteMapping, Reporting, historyVars
<1>2. r.emp = r.finger
  BY <1>1 DEF IInv, Sessions, ForOne
<1>3. Mapped(d) /\ r.slot \in Slots /\ sensor[d][r.slot] = r.emp
  BY <1>1, <1>2 DEF Owned, Local, SlotFits
<1>4. ~SlotTaken(d, r.emp, r.slot)
  BY <1>1, <1>3, RowFits
<1>5. /\ mapping' = [mapping EXCEPT ![d][r.emp] = r.slot]
      /\ request' = [request EXCEPT ![d].step = "clear"] /\ call' = call
  BY <1>4 DEF WriteMapping
<1>6. Mapped(d)' /\ \A x \in Devices : x # d => mapping'[x] = mapping[x]
  BY <1>1, <1>3, <1>5, RowFits
<1>7. /\ request'[d].kind = r.kind /\ request'[d].slot = r.slot /\ request'[d].finger = r.finger
      /\ \A x \in Devices : x # d => request'[x] = request[x]
  BY <1>1, <1>5 DEF TypeOK, Request
<1>8. NoNewMail
  BY <1>1, NoMail
<1> HIDE DEF r
<1> QED
  BY <1>1, <1>5, <1>6, <1>7, <1>8, ReportOwned DEF r

\* The broadcast: the finger is its employee's, and the enrolment was the only one.
LEMMA PublishSyncOwned ==
    ASSUME IInv, ~overrun, Owned, NEW d \in Devices, PublishSync(d)
    PROVE  Owned'
<1> DEFINE m == SyncCommand(d, request[d].emp, request[d].finger)
<1>1. /\ TypeOK /\ Reporting(d) /\ request[d].step = "publish" /\ Finish(d, "ok")
      /\ UNCHANGED <<mapping, intent, unsent, sensor, pending, enroll, misbooked>>
      /\ request[d].kind = "fingerprint"
      /\ \A x \in Devices : inbox'[x] = Append(inbox[x], m)
  BY DEF IInv, PublishSync, Publishing, Broadcast, Reporting, historyVars, Subscribers
<1>2. m.cmd = "SYNC" /\ m.emp = m.finger
  BY <1>1 DEF IInv, Sessions, ForOne, SyncCommand
<1> HIDE DEF m
<1>3. \A x \in Devices : \A i \in DOMAIN inbox'[x] :
        inbox'[x][i] = m \/ \E j \in DOMAIN inbox[x] : inbox'[x][i] = inbox[x][j]
  <2> SUFFICES ASSUME NEW x \in Devices, NEW i \in DOMAIN inbox'[x]
               PROVE  inbox'[x][i] = m \/ \E j \in DOMAIN inbox[x] : inbox'[x][i] = inbox[x][j]
    OBVIOUS
  <2>1. inbox[x] \in Seq(Command) /\ inbox'[x] = Append(inbox[x], m)
    BY <1>1 DEF TypeOK
  <2> QED
    BY <2>1
<1>4. /\ request'[d].kind = "none" /\ call'[d].kind = "fingerprint"
      /\ \A x \in Devices : x # d => request'[x] = request[x] /\ call'[x] = call[x]
  BY <1>1, Answers DEF Owned, Local
<1>5. Local(d)'
  <2>1. Local(d) /\ call[d].kind = "fingerprint"
    BY <1>1 DEF Owned, Local, Linked
  <2>2. Linked(d)' /\ ScanFits(d)' /\ Mapped(d)'
    BY <1>1, <1>4, <2>1 DEF Local, Linked, ScanFits, Mapped
  <2>3. SlotFits(d)' /\ CallbackFits(d)'
    BY <1>1, <1>4, <2>1 DEF Local, SlotFits, CallbackFits, Reporting
  <2> QED
    BY <2>2, <2>3 DEF Local
<1>6. \A x \in Devices : Local(x)'
  <2> SUFFICES ASSUME NEW x \in Devices, x # d PROVE Local(x)'
    BY <1>5
  <2>1. SameAt(x)
    BY <1>1, <1>4 DEF SameAt
  <2> QED
    BY <2>1, SameLocal DEF Owned
<1>7. SyncsFit'
  BY <1>2, <1>3 DEF SyncsFit, Owned
<1>8. DeletesFit'
  <2>1. EnrolmentOpen(d)
    BY <1>1 DEF EnrolmentOpen
  <2>2. \A x \in Devices : \A s : ~Deleting(x, s)
    BY <2>1 DEF Owned, DeletesFit
  <2>3. \A x \in Devices : \A s : ~Deleting(x, s)'
    BY <1>1, <1>2, <1>3, <2>2 DEF Deleting
  <2> QED
    BY <2>3 DEF DeletesFit
<1>9. OneEarly'
  <2> SUFFICES ASSUME NEW x \in Devices PROVE ~Early(x)'
    BY DEF OneEarly
  <2>1. Early(d) /\ OnePhase(d)
    BY <1>1 DEF Early, Owned
  <2>2. ~Choosing(x)' /\ ~Reporting(x)'
    BY <1>1, <1>4, <2>1 DEF Owned, OneEarly, Early, OnePhase, Choosing, Reporting
  <2>3. Enrolls(x) = {} /\ Starts(x) = {}
    BY <1>1, <2>1 DEF Owned, OneEarly, Early, OnePhase
  <2>4. Enrolls(x)' = {} /\ Starts(x)' = {}
    BY <1>1, <1>2, <1>3, <2>3 DEF Enrolls, Starts
  <2> QED
    BY <2>2, <2>4 DEF Early
<1>10. \A x \in Devices : OnePhase(x)'
  <2> SUFFICES ASSUME NEW x \in Devices PROVE OnePhase(x)'
    OBVIOUS
  <2>1. Early(d) /\ OnePhase(d)
    BY <1>1 DEF Early, Owned
  <2>2. ~Choosing(x)' /\ ~Reporting(x)'
    BY <1>1, <1>4, <2>1 DEF Owned, OneEarly, Early, OnePhase, Choosing, Reporting
  <2>3. Enrolls(x) = {} /\ Starts(x) = {}
    BY <1>1, <2>1 DEF Owned, OneEarly, Early, OnePhase
  <2>4. Enrolls(x)' = {} /\ Starts(x)' = {}
    BY <1>1, <1>2, <1>3, <2>3 DEF Enrolls, Starts
  <2> QED
    BY <2>2, <2>4 DEF OnePhase, OneCommand
<1> QED
  BY <1>1, <1>6, <1>7, <1>8, <1>9, <1>10 DEF Owned

LEMMA HandleCheckinOwned ==
    ASSUME IInv, Owned, NEW d \in Devices, HandleCheckin(d)
    PROVE  Owned'
<1> DEFINE r == request[d]
           owners == {e \in Employees : mapping[d][e] = r.slot}
           answer == IF owners = {} THEN "ghost" ELSE "ok"
<1>1. /\ TypeOK /\ Local(d) /\ r.kind = "checkin" /\ Finish(d, answer)
      /\ misbooked' = misbooked \cup {<<r.finger, e>> : e \in owners \ {r.finger}}
      /\ UNCHANGED <<mapping, intent, unsent, inbox, sensor, pending, enroll>>
  BY DEF IInv, HandleCheckin, Owned
<1>2. r.slot \in Slots /\ sensor[d][r.slot] = r.finger
  BY <1>1 DEF Local, ScanFits
<1>3. owners \ {r.finger} = {}
  <2>1. r.slot # 0
    BY <1>2, SizeAssumption DEF Slots
  <2> QED
    BY <1>1, <1>2, <2>1 DEF Local, Mapped
<1>4. misbooked' = {}
  BY <1>1, <1>3 DEF Owned
<1>5. answer \in {"ok", "fail", "ghost"} /\ (answer = "ghost" => owners = {})
  OBVIOUS
<1> HIDE DEF answer
<1>6. /\ request'[d].kind = "none" /\ call'[d].kind = "checkin"
      /\ call'[d].slot = r.slot /\ call'[d].answer = answer
      /\ \A x \in Devices : x # d => request'[x] = request[x] /\ call'[x] = call[x]
  BY <1>1, <1>5, Answers DEF Local
<1>7. ScanFits(d)'
  BY <1>1, <1>2, <1>5, <1>6 DEF ScanFits
<1>8. Linked(d)' /\ Mapped(d)' /\ SlotFits(d)' /\ CallbackFits(d)'
  <2>1. call[d].kind = "checkin"
    BY <1>1 DEF Local, Linked
  <2>2. Linked(d)' /\ Mapped(d)'
    BY <1>1, <1>6 DEF Local, Linked, Mapped
  <2>3. SlotFits(d)' /\ CallbackFits(d)'
    BY <1>1, <1>6, <2>1 DEF Local, SlotFits, CallbackFits, Reporting
  <2> QED
    BY <2>2, <2>3
<1>9. Local(d)'
  BY <1>7, <1>8 DEF Local
<1>10. \A x \in Devices : x # d => SameAt(x)
  BY <1>1, <1>6 DEF SameAt
<1>11. OpensNone(d) /\ SessionGoesOn(d)
  BY <1>1, <1>6 DEF OpensNone, Choosing, Reporting, SessionGoesOn
<1> QED
  BY <1>1, <1>4, <1>9, <1>10, <1>11, NoMail, OwnedStep

-----------------------------------------------------------------------------
(* The loop, undisturbed. *)

\* A step of the session alone.
LEMMA SessionOwned ==
    ASSUME Owned, NEW d \in Devices, NoNewMail,
           UNCHANGED <<request, call, sensor, mapping, pending, misbooked>>,
           \A x \in Devices : x # d => enroll'[x] = enroll[x],
           enroll'[d].state = "WAIT_FINGER" =>
             enroll'[d].slot \in Slots /\ sensor[d][enroll'[d].slot] = NoOne,
           (Choosing(d)' => Choosing(d)) \/ (Early(d) /\ OnePhase(d)'), EnrolmentOpen(d)
    PROVE  Owned'
<1>1. Local(d)
  BY DEF Owned
<1>2. Linked(d)' /\ Mapped(d)' /\ ScanFits(d)'
  BY <1>1 DEF Local, Linked, Mapped, ScanFits
<1>3. SlotFits(d)' /\ CallbackFits(d)'
  BY <1>1 DEF Local, SlotFits, CallbackFits, Reporting
<1>4. Local(d)'
  BY <1>2, <1>3 DEF Local
<1>5. \A x \in Devices : x # d => SameAt(x)
  BY DEF SameAt
<1>6. SessionGoesOn(d) \/ (Early(d) /\ OnePhase(d)')
  BY DEF SessionGoesOn, Reporting
<1>7. misbooked' = {}
  BY DEF Owned
<1> QED
  BY <1>4, <1>5, <1>6, <1>7, OwnedStep

LEMMA ReceiveEnrollOwned ==
    ASSUME TypeOK, Owned, NEW d \in Devices, ReceiveEnroll(d)
    PROVE  Owned'
<1>1. /\ inbox[d] # <<>> /\ Consume(d) /\ Head(inbox[d]).cmd = "ENROLL"
      /\ UNCHANGED <<request, call, sensor, mapping, unsent, pending, misbooked>>
      /\ enroll' = [enroll EXCEPT ![d] =
           [state |-> "FIND_EMPTY_SLOT", slot |-> 0, person |-> Head(inbox[d]).emp]]
  BY DEF ReceiveEnroll, NextCommand, backendVars, historyVars
<1>2. NoNewMail /\ 1 \in DOMAIN inbox[d] /\ inbox[d][1].cmd = "ENROLL"
  BY <1>1, OneLess
<1>3. Early(d) /\ EnrolmentOpen(d)
  BY <1>2 DEF Early, Enrolls, EnrolmentOpen
<1>4. enroll'[d].state = "FIND_EMPTY_SLOT" /\ \A x \in Devices : x # d => enroll'[x] = enroll[x]
  BY <1>1 DEF TypeOK
<1>5. OnePhase(d)'
  <2>1. 1 \in Enrolls(d) /\ OnePhase(d)
    BY <1>2 DEF Enrolls, Owned
  <2>2. Starts(d)' = {} /\ ~Reporting(d)'
    BY <1>1, <2>1 DEF OnePhase, Starts, Reporting
  <2>3. Enrolls(d)' = {}
    <3>1. inbox[d] \in Seq(Command) /\ inbox'[d] = Tail(inbox[d])
      BY <1>1 DEF TypeOK, Consume
    <3>2. \A i \in DOMAIN Tail(inbox[d]) :
            i \in Nat \ {0} /\ i + 1 \in DOMAIN inbox[d] /\ Tail(inbox[d])[i] = inbox[d][i + 1]
      BY <1>1, <3>1
    <3>3. \A i \in Enrolls(d)' : i + 1 \in Enrolls(d) /\ i + 1 # 1
      BY <3>1, <3>2 DEF Enrolls
    <3> QED
      BY <2>1, <3>3 DEF OnePhase, OneCommand
  <2> QED
    BY <2>2, <2>3 DEF OnePhase, OneCommand
<1> QED
  BY <1>1, <1>2, <1>3, <1>4, <1>5, SessionOwned

LEMMA IgnoreSyncOwned ==
    ASSUME TypeOK, Owned, NEW d \in Devices, IgnoreSync(d)
    PROVE  Owned'
<1>1. /\ inbox[d] # <<>> /\ Consume(d) /\ Head(inbox[d]).cmd = "SYNC"
      /\ UNCHANGED <<request, call, sensor, mapping, unsent, pending, enroll, misbooked>>
  BY DEF IgnoreSync, NextCommand, backendVars, deviceVars, historyVars
<1>2. NoNewMail /\ 1 \in DOMAIN inbox[d] /\ inbox[d][1].cmd = "SYNC"
  BY <1>1, OneLess
<1>3. EnrolmentOpen(d) /\ (Choosing(d)' => Choosing(d))
  BY <1>1, <1>2 DEF EnrolmentOpen, Choosing
<1>4. enroll'[d].state = "WAIT_FINGER" =>
        enroll'[d].slot \in Slots /\ sensor[d][enroll'[d].slot] = NoOne
  BY <1>1 DEF Owned, Local, SlotFits
<1> QED
  BY <1>1, <1>2, <1>3, <1>4, SessionOwned

LEMMA FirstFreeIsFree ==
    ASSUME NEW d, FreeSlots(d) # {}
    PROVE  FirstFree(d) \in Slots /\ sensor[d][FirstFree(d)] = NoOne
<1>1. FreeSlots(d) \in SUBSET Nat
  BY SizeAssumption DEF FreeSlots, Slots
<1>2. \E s \in FreeSlots(d) : \A t \in FreeSlots(d) : s <= t
  BY <1>1, LeastExists
<1>3. FirstFree(d) \in FreeSlots(d)
  BY <1>2 DEF FirstFree
<1> QED
  BY <1>3 DEF FreeSlots

LEMMA FindSlotOwned ==
    ASSUME TypeOK, Owned, NEW d \in Devices, FindSlot(d)
    PROVE  Owned'
<1>1. /\ enroll[d].state = "FIND_EMPTY_SLOT"
      /\ UNCHANGED <<request, call, sensor, mapping, unsent, pending, inbox, misbooked>>
      /\ enroll' = [enroll EXCEPT ![d].slot = FirstFree(d),
                                  ![d].state = IF FirstFree(d) = 0 THEN "RESULT" ELSE "WAIT_FINGER"]
  BY DEF FindSlot, backendVars, historyVars
<1>2. /\ enroll'[d].slot = FirstFree(d)
      /\ enroll'[d].state = IF FirstFree(d) = 0 THEN "RESULT" ELSE "WAIT_FINGER"
      /\ \A x \in Devices : x # d => enroll'[x] = enroll[x]
  BY <1>1 DEF TypeOK, Enroll
<1>3. FirstFree(d) # 0 => FirstFree(d) \in Slots /\ sensor[d][FirstFree(d)] = NoOne
  BY FirstFreeIsFree DEF FirstFree
<1>4. EnrolmentOpen(d) /\ Choosing(d)
  BY <1>1, NothingTyped DEF EnrolmentOpen, Choosing
<1>5. enroll'[d].state = "WAIT_FINGER" =>
        enroll'[d].slot \in Slots /\ sensor[d][enroll'[d].slot] = NoOne
  BY <1>2, <1>3
<1>6. NoNewMail /\ \A x \in Devices : x # d => enroll'[x] = enroll[x]
  BY <1>1, <1>2, NoMail
<1> QED
  BY <1>1, <1>4, <1>5, <1>6, SessionOwned

LEMMA EnrollEndsOwned ==
    ASSUME TypeOK, Owned, NEW d \in Devices, EnrollEnds(d)
    PROVE  Owned'
<1>1. /\ enroll[d].state = "RESULT" /\ enroll' = [enroll EXCEPT ![d] = NotEnrolling]
      /\ UNCHANGED <<request, call, sensor, mapping, unsent, pending, inbox, misbooked>>
  BY DEF EnrollEnds, backendVars, historyVars
<1>2. enroll'[d].state = "IDLE" /\ \A x \in Devices : x # d => enroll'[x] = enroll[x]
  BY <1>1, NothingTyped DEF TypeOK
<1>3. EnrolmentOpen(d) /\ ~Choosing(d)' /\ NoNewMail
  BY <1>1, <1>2, NothingTyped, NoMail DEF EnrolmentOpen, Choosing
<1> QED
  BY <1>1, <1>2, <1>3, SessionOwned

\* A broadcast is stored in a free slot, and its callback sent at once.
LEMMA StoreSyncOwned ==
    ASSUME TypeOK, Owned, NEW d \in Devices, StoreSync(d)
    PROVE  Owned'
<1> DEFINE m == Head(inbox[d])
           s == FirstFree(d)
           new == [emp |-> m.emp, slot |-> s, attempts |-> 0]
           sent == [emp |-> m.emp, slot |-> s, attempts |-> 1]
<1>1. /\ Idle(d) /\ inbox[d] # <<>> /\ Consume(d) /\ m.cmd = "SYNC" /\ FreeSlots(d) # {}
      /\ sensor' = [sensor EXCEPT ![d][s] = m.finger]
      /\ UNCHANGED <<mapping, intent, unsent, enroll, misbooked>>
  BY DEF StoreSync, NextCommand, Ignored, historyVars
<1>2. NoNewMail /\ 1 \in DOMAIN inbox[d] /\ m = inbox[d][1] /\ m \in Command
  BY <1>1, OneLess
<1>3. m.emp = m.finger /\ EnrolmentOpen(d) /\ ~Early(d)
  BY <1>1, <1>2 DEF Owned, SyncsFit, OneEarly, EnrolmentOpen
<1>4. s \in Slots /\ sensor[d][s] = NoOne /\ s # 0
  BY <1>1, FirstFreeIsFree, SizeAssumption DEF Slots
<1>5. Local(d) /\ request[d].kind = "none" /\ \A i \in Entries : pending[d][i] = NoEntry
  BY <1>1, IdleMeans DEF Owned
<1>6. FreeEntries(d) # {} /\ FirstFreeEntry(d) = 1
  <2>1. FreeEntries(d) = Entries /\ 1 \in Entries
    BY <1>5, SizeAssumption DEF FreeEntries, Entries
  <2>2. \A i \in Entries : i \in Nat /\ 1 <= i
    BY SizeAssumption DEF Entries
  <2>3. \A i \in FreeEntries(d) : (\A j \in FreeEntries(d) : i <= j) => i = 1
    BY <2>1, <2>2
  <2>4. \A j \in FreeEntries(d) : 1 <= j
    BY <2>1, <2>2
  <2> QED
    BY <2>1, <2>3, <2>4 DEF FirstFreeEntry
<1> HIDE DEF m, s
<1>7. /\ pending' = [pending EXCEPT ![d] = [[pending[d] EXCEPT ![1] = new] EXCEPT ![1].attempts = @ + 1]]
      /\ Send(d, "mapping", 1, s, m.emp, NoOne)
  <2> DEFINE queue == [pending[d] EXCEPT ![1] = new]
  <2>1. \E i \in 1..1 :
          /\ pending' = [pending EXCEPT ![d] = [queue EXCEPT ![i].attempts = @ + 1]]
          /\ Send(d, "mapping", i, queue[i].slot, queue[i].emp, NoOne)
    BY <1>6 DEF StoreSync, m, s
  <2>2. \A i \in 1..1 : i = 1
    OBVIOUS
  <2>3. queue[1].slot = s /\ queue[1].emp = m.emp
    BY SizeAssumption DEF TypeOK, Entries
  <2> HIDE DEF queue, new
  <2>4. /\ pending' = [pending EXCEPT ![d] = [queue EXCEPT ![1].attempts = @ + 1]]
        /\ Send(d, "mapping", 1, queue[1].slot, queue[1].emp, NoOne)
    BY <2>1, <2>2
  <2> QED
    BY <2>3, <2>4 DEF queue
<1>8. /\ pending'[d][1] = sent /\ \A i \in Entries : i # 1 => pending'[d][i] = NoEntry
      /\ \A x \in Devices : x # d => pending'[x] = pending[x]
  BY <1>5, <1>7, SizeAssumption DEF TypeOK, Entries
<1>9. /\ request'[d].kind = "mapping" /\ request'[d].slot = s /\ request'[d].emp = m.emp
      /\ call'[d].kind = "mapping" /\ call'[d].slot = s /\ call'[d].entry = 1 /\ call'[d].answer = "none"
      /\ \A x \in Devices : x # d => request'[x] = request[x] /\ call'[x] = call[x]
  BY <1>7 DEF Send, TypeOK
<1>10. /\ sensor'[d][s] = m.finger /\ \A t \in Slots : t # s => sensor'[d][t] = sensor[d][t]
       /\ \A x \in Devices : x # d => sensor'[x] = sensor[x]
  BY <1>1, <1>4 DEF TypeOK
<1>11. Linked(d)' /\ ScanFits(d)'
  BY <1>9 DEF Linked, ScanFits
<1>12. Mapped(d)'
  <2> SUFFICES ASSUME NEW e \in Employees, mapping[d][e] # 0
               PROVE  sensor'[d][mapping[d][e]] = e
    BY <1>1 DEF Mapped
  <2>1. sensor[d][mapping[d][e]] = e /\ mapping[d][e] \in Slots
    BY <1>5, SizeAssumption DEF Local, Mapped, TypeOK, Slots
  <2>2. mapping[d][e] # s
    BY <1>4, <2>1, NoOneAssumption
  <2> QED
    BY <1>10, <2>1, <2>2
<1>13. SlotFits(d)'
  <2>1. enroll'[d].state # "WAIT_FINGER"
    BY <1>1, <1>3 DEF Early, Choosing
  <2> QED
    BY <1>9, <2>1 DEF SlotFits, Reporting
<1>14. CallbackFits(d)'
  BY <1>3, <1>4, <1>8, <1>9, <1>10 DEF CallbackFits
<1>15. Local(d)'
  BY <1>11, <1>12, <1>13, <1>14 DEF Local
<1>16. \A x \in Devices : x # d => SameAt(x)
  BY <1>1, <1>8, <1>9, <1>10 DEF SameAt
<1>17. SessionGoesOn(d) /\ misbooked' = {}
  BY <1>1, <1>9 DEF SessionGoesOn, Choosing, Reporting, Owned
<1> QED
  BY <1>2, <1>3, <1>15, <1>16, <1>17, OwnedStep

\* A command to delete empties a slot that nobody is mapped to.
LEMMA ReceiveDeleteOwned ==
    ASSUME TypeOK, Owned, NEW d \in Devices, ReceiveDelete(d)
    PROVE  Owned'
<1> DEFINE m == Head(inbox[d])
<1>1. /\ Idle(d) /\ inbox[d] # <<>> /\ Consume(d) /\ m.cmd = "DELETE"
      /\ sensor' = IF Enrolling(d) THEN sensor ELSE [sensor EXCEPT ![d][m.slot] = NoOne]
      /\ UNCHANGED <<mapping, intent, unsent, request, pending, enroll, call, misbooked>>
  BY DEF ReceiveDelete, NextCommand, backendVars, historyVars
<1>2. NoNewMail /\ 1 \in DOMAIN inbox[d] /\ m = inbox[d][1] /\ m \in Command
  BY <1>1, OneLess
<1> HIDE DEF m
<1>3. \A e \in Employees : mapping[d][e] # m.slot
  BY <1>1, <1>2 DEF Owned, DeletesFit, Deleting
<1>4. Local(d) /\ request[d].kind = "none" /\ call[d] = NoCall
      /\ \A i \in Entries : pending[d][i] = NoEntry
  BY <1>1, IdleMeans DEF Owned, Idle
<1>5. /\ \A t \in Slots : t # m.slot => sensor'[d][t] = sensor[d][t]
      /\ Enrolling(d) => sensor' = sensor
      /\ \A x \in Devices : x # d => sensor'[x] = sensor[x]
  BY <1>1 DEF TypeOK
<1>6. Linked(d)' /\ ScanFits(d)'
  BY <1>1, <1>4 DEF Local, Linked, ScanFits
<1>7. Mapped(d)'
  <2> SUFFICES ASSUME NEW e \in Employees, mapping[d][e] # 0
               PROVE  sensor'[d][mapping[d][e]] = e
    BY <1>1 DEF Mapped
  <2>1. sensor[d][mapping[d][e]] = e /\ mapping[d][e] \in Slots
    BY <1>4, SizeAssumption DEF Local, Mapped, TypeOK, Slots
  <2> QED
    BY <1>3, <1>5, <2>1
<1>8. SlotFits(d)'
  <2>1. enroll[d].state = "WAIT_FINGER" => sensor' = sensor
    BY <1>5 DEF Enrolling
  <2> QED
    BY <1>1, <1>4, <2>1 DEF Local, SlotFits, Reporting
<1>9. CallbackFits(d)'
  BY <1>1, <1>4 DEF CallbackFits
<1>10. Local(d)'
  BY <1>6, <1>7, <1>8, <1>9 DEF Local
<1>11. \A x \in Devices : x # d => SameAt(x)
  BY <1>1, <1>5 DEF SameAt
<1>12. OpensNone(d) /\ SessionGoesOn(d) /\ misbooked' = {}
  BY <1>1, <1>4, NothingTyped DEF OpensNone, SessionGoesOn, Choosing, Reporting, Owned
<1> QED
  BY <1>2, <1>10, <1>11, <1>12, OwnedStep

\* No callback waits for a second attempt.
LEMMA RetryMappingOwned ==
    ASSUME Owned, NEW d \in Devices, NEW i \in Entries, RetryMapping(d, i)
    PROVE  FALSE
<1>1. Idle(d) /\ pending[d][i] # NoEntry
  BY DEF RetryMapping, Due
<1> QED
  BY <1>1, IdleMeans DEF Owned

\* An answer that changes neither the slots nor what is mapped.
LEMMA CallOverOwned ==
    ASSUME TypeOK, Owned, NEW d \in Devices, NoNewMail,
           call' = [call EXCEPT ![d] = NoCall], request[d].kind = "none",
           \A i \in Entries : pending'[d][i] = NoEntry,
           \A x \in Devices : x # d => pending'[x] = pending[x] /\ enroll'[x] = enroll[x],
           enroll'[d] = enroll[d] \/ enroll'[d].state = "RESULT",
           UNCHANGED <<request, sensor, mapping, misbooked>>, EnrolmentOpen(d)
    PROVE  Owned'
<1>1. /\ Local(d) /\ call'[d].kind = "none" /\ request'[d].kind = "none"
      /\ \A x \in Devices : x # d => call'[x] = call[x]
  BY NothingTyped DEF TypeOK, Owned
<1>2. Linked(d)' /\ Mapped(d)' /\ ScanFits(d)'
  BY <1>1 DEF Local, Linked, Mapped, ScanFits
<1>3. SlotFits(d)' /\ CallbackFits(d)'
  BY <1>1 DEF Local, SlotFits, CallbackFits, Reporting
<1>4. Local(d)'
  BY <1>2, <1>3 DEF Local
<1>5. \A x \in Devices : x # d => SameAt(x)
  BY <1>1 DEF SameAt
<1>6. SessionGoesOn(d) /\ misbooked' = {}
  BY <1>1 DEF SessionGoesOn, Choosing, Reporting, Owned
<1> QED
  BY <1>4, <1>5, <1>6, OwnedStep

LEMMA MappingAnsweredOwned ==
    ASSUME IInv, Owned, NEW d \in Devices, MappingAnswered(d)
    PROVE  Owned'
<1> DEFINE i == call[d].entry
           e == pending[d][i]
           ok == call[d].answer = "ok"
<1>1. /\ TypeOK /\ Local(d) /\ call[d].kind = "mapping" /\ call[d].answer # "none"
      /\ pending' = IF ok \/ Exhausted(e) THEN [pending EXCEPT ![d][i] = NoEntry] ELSE pending
      /\ sensor' = IF ~ok /\ Exhausted(e) THEN [sensor EXCEPT ![d][e.slot] = NoOne] ELSE sensor
      /\ call' = [call EXCEPT ![d] = NoCall]
      /\ UNCHANGED <<request, mapping, intent, unsent, inbox, enroll, misbooked>>
  BY DEF IInv, Owned, MappingAnswered, Answered, backendVars, historyVars
<1>2. i \in Entries
  BY <1>1 DEF IInv, EntryIsNamed
<1>3. request[d].kind = "none" /\ EnrolmentOpen(d)
  BY <1>1 DEF Local, Linked, EnrolmentOpen
<1>4. \A j \in Entries : pending[d][j] # NoEntry => j = i /\ ok
  BY <1>1 DEF Local, CallbackFits
<1>5. ~ok => e = NoEntry /\ ~Exhausted(e)
  <2>1. ~ok => e = NoEntry
    BY <1>2, <1>4
  <2>2. ~Exhausted(NoEntry)
    BY NothingTyped, SizeAssumption DEF Exhausted
  <2> QED
    BY <2>1, <2>2
<1>6. sensor' = sensor
  BY <1>1, <1>5
<1>7. /\ \A j \in Entries : pending'[d][j] = NoEntry
      /\ \A x \in Devices : x # d => pending'[x] = pending[x]
  <2>1. CASE ok
    <3>1. pending' = [pending EXCEPT ![d][i] = NoEntry]
      BY <1>1, <2>1
    <3>2. pending'[d] = [pending[d] EXCEPT ![i] = NoEntry] /\ \A x \in Devices : x # d => pending'[x] = pending[x]
      BY <1>1, <3>1 DEF TypeOK
    <3> QED
      BY <1>1, <1>2, <1>4, <3>2 DEF TypeOK
  <2>2. CASE ~ok
    BY <1>1, <1>4, <1>5, <2>2
  <2> QED
    BY <2>1, <2>2
<1> QED
  BY <1>1, <1>3, <1>6, <1>7, NoMail, CallOverOwned

LEMMA FingerAnsweredOwned ==
    ASSUME TypeOK, Owned, NEW d \in Devices, FingerAnswered(d)
    PROVE  Owned'
<1>1. /\ Local(d) /\ call[d].kind = "fingerprint" /\ call[d].answer # "none"
      /\ call' = [call EXCEPT ![d] = NoCall] /\ enroll' = [enroll EXCEPT ![d].state = "RESULT"]
      /\ UNCHANGED <<request, sensor, pending, mapping, unsent, inbox, misbooked>>
  BY DEF Owned, FingerAnswered, Answered, backendVars, historyVars
<1>2. /\ enroll'[d].state = "RESULT" /\ \A x \in Devices : x # d => enroll'[x] = enroll[x]
  BY <1>1 DEF TypeOK, Enroll
<1>3. request[d].kind = "none" /\ \A i \in Entries : pending[d][i] = NoEntry
  BY <1>1, IdleMeans
<1>4. EnrolmentOpen(d) /\ NoNewMail
  BY <1>1, NoMail DEF EnrolmentOpen
<1> QED
  BY <1>1, <1>2, <1>3, <1>4, CallOverOwned

\* A ghost's slot is emptied: nobody was mapped to it when the backend
\* looked, and nobody can have been since.
LEMMA CheckinAnsweredOwned ==
    ASSUME TypeOK, Owned, NEW d \in Devices, CheckinAnswered(d)
    PROVE  Owned'
<1> DEFINE s == call[d].slot
<1>1. /\ Local(d) /\ call[d].kind = "checkin" /\ call[d].answer # "none"
      /\ sensor' = IF call[d].answer = "ghost" THEN [sensor EXCEPT ![d][s] = NoOne] ELSE sensor
      /\ call' = [call EXCEPT ![d] = NoCall]
      /\ UNCHANGED <<request, pending, mapping, intent, unsent, enroll, inbox, misbooked>>
  BY DEF Owned, CheckinAnswered, Answered, backendVars, historyVars
<1>2. request[d].kind = "none" /\ \A i \in Entries : pending[d][i] = NoEntry
  BY <1>1, IdleMeans
<1>3. /\ call'[d].kind = "none" /\ \A x \in Devices : x # d => call'[x] = call[x]
  BY <1>1, NothingTyped DEF TypeOK
<1>4. /\ \A t \in Slots : sensor'[d][t] \in {NoOne, sensor[d][t]}
      /\ \A t \in Slots : (\E e \in Employees : mapping[d][e] = t) => sensor'[d][t] = sensor[d][t]
      /\ \A x \in Devices : x # d => sensor'[x] = sensor[x]
  <2>1. s \in Slots
    BY <1>1 DEF Local, ScanFits
  <2>2. call[d].answer = "ghost" => \A e \in Employees : mapping[d][e] # s
    BY <1>1 DEF Local, ScanFits
  <2>3. CASE call[d].answer = "ghost"
    <3>1. sensor' = [sensor EXCEPT ![d][s] = NoOne]
      BY <1>1, <2>3
    <3>2. sensor'[d] = [sensor[d] EXCEPT ![s] = NoOne] /\ \A x \in Devices : x # d => sensor'[x] = sensor[x]
      BY <3>1 DEF TypeOK
    <3> HIDE DEF s
    <3>3. \A t \in Slots : sensor'[d][t] = IF t = s THEN NoOne ELSE sensor[d][t]
      BY <3>2, <2>1 DEF TypeOK
    <3> QED
      BY <2>2, <2>3, <3>2, <3>3
  <2>4. CASE call[d].answer # "ghost"
    BY <1>1, <2>4
  <2> QED
    BY <2>3, <2>4
<1>5. Linked(d)' /\ ScanFits(d)'
  BY <1>1, <1>2, <1>3 DEF Linked, ScanFits
<1>6. Mapped(d)'
  <2> SUFFICES ASSUME NEW e \in Employees, mapping[d][e] # 0
               PROVE  sensor'[d][mapping[d][e]] = e
    BY <1>1 DEF Mapped
  <2>1. sensor[d][mapping[d][e]] = e /\ mapping[d][e] \in Slots
    BY <1>1, SizeAssumption DEF Local, Mapped, TypeOK, Slots
  <2> QED
    BY <1>4, <2>1
<1>7. SlotFits(d)'
  BY <1>1, <1>2, <1>4 DEF Local, SlotFits, Reporting
<1>8. CallbackFits(d)'
  BY <1>1, <1>2 DEF CallbackFits
<1>9. Local(d)'
  BY <1>5, <1>6, <1>7, <1>8 DEF Local
<1>10. \A x \in Devices : x # d => SameAt(x)
  BY <1>1, <1>3, <1>4 DEF SameAt
<1>11. OpensNone(d) /\ SessionGoesOn(d) /\ misbooked' = {}
  BY <1>1, <1>2, <1>3 DEF OpensNone, SessionGoesOn, Choosing, Reporting, Owned
<1> QED
  BY <1>1, <1>9, <1>10, <1>11, NoMail, OwnedStep

-----------------------------------------------------------------------------
(* People at the sensor, and the manager, undisturbed. *)

LEMMA StoreFingerOwned ==
    ASSUME TypeOK, Owned, NEW d \in Devices, StoreFinger(d)
    PROVE  Owned'
<1> DEFINE n == enroll[d]
<1>1. /\ Idle(d) /\ n.state = "WAIT_FINGER"
      /\ sensor' = [sensor EXCEPT ![d][n.slot] = n.person]
      /\ enroll' = [enroll EXCEPT ![d].state = "CALLING"]
      /\ Send(d, "fingerprint", 0, n.slot, NoOne, n.person)
      /\ UNCHANGED <<mapping, unsent, inbox, pending, misbooked>>
  BY DEF StoreFinger, historyVars
<1>2. Local(d) /\ n.slot \in Slots /\ sensor[d][n.slot] = NoOne
  BY <1>1 DEF Owned, Local, SlotFits
<1>3. \A i \in Entries : pending[d][i] = NoEntry
  BY <1>1, <1>2, IdleMeans
<1>4. EnrolmentOpen(d) /\ Early(d) /\ misbooked' = {}
  BY <1>1, NothingTyped DEF EnrolmentOpen, Early, Choosing, Owned
<1>5. enroll'[d].state = "CALLING" /\ \A x \in Devices : x # d => enroll'[x] = enroll[x]
  BY <1>1 DEF TypeOK, Enroll
<1>14. enroll[d].state = "WAIT_FINGER"
  BY <1>1
<1> HIDE DEF n
<1>6. /\ request'[d].kind = "fingerprint" /\ request'[d].slot = n.slot /\ request'[d].finger = n.person
      /\ call'[d].kind = "fingerprint" /\ call'[d].slot = n.slot /\ call'[d].answer = "none"
      /\ \A x \in Devices : x # d => request'[x] = request[x] /\ call'[x] = call[x]
  BY <1>1 DEF Send, TypeOK
<1>7. /\ sensor'[d][n.slot] = n.person /\ \A t \in Slots : t # n.slot => sensor'[d][t] = sensor[d][t]
      /\ \A x \in Devices : x # d => sensor'[x] = sensor[x]
  BY <1>1, <1>2 DEF TypeOK
<1>8. Linked(d)' /\ ScanFits(d)' /\ CallbackFits(d)'
  BY <1>1, <1>3, <1>6 DEF Linked, ScanFits, CallbackFits
<1>9. Mapped(d)'
  <2> SUFFICES ASSUME NEW e \in Employees, mapping[d][e] # 0
               PROVE  sensor'[d][mapping[d][e]] = e
    BY <1>1 DEF Mapped
  <2>1. sensor[d][mapping[d][e]] = e /\ mapping[d][e] \in Slots
    BY <1>2, SizeAssumption DEF Local, Mapped, TypeOK, Slots
  <2>2. mapping[d][e] # n.slot
    BY <1>2, <2>1, NoOneAssumption
  <2> QED
    BY <1>7, <2>1, <2>2
<1>10. SlotFits(d)'
  BY <1>2, <1>5, <1>6, <1>7 DEF SlotFits, Reporting
<1>11. Local(d)'
  BY <1>8, <1>9, <1>10 DEF Local
<1>12. \A x \in Devices : x # d => SameAt(x)
  BY <1>1, <1>5, <1>6, <1>7 DEF SameAt
<1>13. OnePhase(d)'
  <2>1. Choosing(d) /\ OnePhase(d)
    BY <1>14 DEF Choosing, Owned
  <2>2. Starts(d)' = {} /\ Enrolls(d)' = {}
    BY <1>1, <2>1 DEF OnePhase, Starts, Enrolls
  <2>3. ~Choosing(d)'
    BY <1>5 DEF Choosing
  <2> QED
    BY <2>2, <2>3 DEF OnePhase, OneCommand
<1> QED
  BY <1>1, <1>4, <1>11, <1>12, <1>13, NoMail, OwnedStep

LEMMA ScanFingerOwned ==
    ASSUME TypeOK, Owned, NEW d \in Devices, NEW s \in Slots, ScanFinger(d, s)
    PROVE  Owned'
<1>1. /\ Idle(d) /\ ~Enrolling(d) /\ Send(d, "checkin", 0, s, NoOne, sensor[d][s])
      /\ UNCHANGED <<mapping, intent, unsent, inbox, sensor, pending, enroll, misbooked>>
  BY DEF ScanFinger, historyVars
<1>2. Local(d) /\ \A i \in Entries : pending[d][i] = NoEntry
  BY <1>1, IdleMeans DEF Owned
<1>3. /\ request'[d].kind = "checkin" /\ request'[d].slot = s /\ request'[d].finger = sensor[d][s]
      /\ call'[d].kind = "checkin" /\ call'[d].slot = s /\ call'[d].answer = "none"
      /\ \A x \in Devices : x # d => request'[x] = request[x] /\ call'[x] = call[x]
  BY <1>1 DEF Send, TypeOK
<1>4. Linked(d)' /\ ScanFits(d)' /\ Mapped(d)'
  BY <1>1, <1>2, <1>3 DEF Local, Linked, ScanFits, Mapped
<1>5. SlotFits(d)' /\ CallbackFits(d)'
  BY <1>1, <1>2, <1>3 DEF Local, SlotFits, CallbackFits, Reporting
<1>6. Local(d)'
  BY <1>4, <1>5 DEF Local
<1>7. \A x \in Devices : x # d => SameAt(x)
  BY <1>1, <1>3 DEF SameAt
<1>8. OpensNone(d) /\ SessionGoesOn(d) /\ misbooked' = {}
  BY <1>1, <1>3 DEF OpensNone, SessionGoesOn, Choosing, Reporting, Owned
<1> QED
  BY <1>1, <1>6, <1>7, <1>8, NoMail, OwnedStep

\* An enrolment that starts when nothing is unfinished is alone.
LEMMA StartEnrollOwned ==
    ASSUME TypeOK, Owned, NEW d \in Devices, NEW e \in Employees, StartEnroll(d, e), ~crossed'
    PROVE  Owned'
<1> DEFINE new == EnrollJob(e, started[e] + 1)
<1>1. /\ unsent' = [unsent EXCEPT ![d] = unsent[d] \cup {new}]
      /\ UNCHANGED <<request, call, sensor, mapping, pending, inbox, enroll, misbooked>>
      /\ \A x \in Devices : ~Unfinished(x)
  BY DEF StartEnroll, deviceVars
<1>2. new.cmd = "ENROLL"
  BY DEF EnrollJob
<1> HIDE DEF new
<1>3. \A x \in Devices : inbox'[x] = <<>> /\ DOMAIN inbox'[x] = {} /\ ~EnrolmentOpen(x)
  BY <1>1 DEF Unfinished
<1>4. unsent'[d] = {new} /\ \A x \in Devices : x # d => unsent'[x] = {}
  BY <1>1 DEF Unfinished, TypeOK
<1>5. \A x \in Devices : Enrolls(x)' = {} /\ ~Choosing(x)' /\ ~Reporting(x)'
  BY <1>1, <1>3, NothingTyped DEF Enrolls, EnrolmentOpen, Choosing, Reporting
<1>6. \A x \in Devices : Local(x)'
  BY <1>1, SameLocal DEF SameAt, Owned
<1>7. DeletesFit' /\ SyncsFit'
  BY <1>2, <1>3, <1>4 DEF DeletesFit, Deleting, SyncsFit
<1>8. \A x \in Devices : x # d => Starts(x)' = {}
  BY <1>4 DEF Starts
<1>9. OneEarly'
  BY <1>3, <1>5, <1>8 DEF OneEarly, Early
<1>10. \A x \in Devices : OnePhase(x)'
  <2>1. \A x \in Devices : \A j, k \in Starts(x)' : j = k
    BY <1>4 DEF Starts
  <2> QED
    BY <1>5, <2>1 DEF OnePhase, OneCommand
<1> QED
  BY <1>1, <1>6, <1>7, <1>9, <1>10 DEF Owned

\* A removal while no enrolment is open: only mappings go, and the commands
\* are for slots that nobody else was mapped to.
LEMMA RemoveFingerprintOwned ==
    ASSUME TypeOK, Owned, NEW e \in Employees, RemoveFingerprint(e), ~undercut'
    PROVE  Owned'
<1>1. /\ mapping' = [d \in Devices |-> [mapping[d] EXCEPT ![e] = 0]]
      /\ \A d \in Devices : unsent'[d] =
           IF mapping[d][e] = 0 THEN unsent[d] ELSE unsent[d] \cup {DeleteJob(e, mapping[d][e])}
      /\ UNCHANGED <<request, call, sensor, intent, inbox, pending, enroll, misbooked>>
      /\ \A x \in Devices : ~EnrolmentOpen(x)
  BY DEF RemoveFingerprint, deviceVars
<1>2. \A x \in Devices : \A o \in Employees :
        mapping'[x][o] = IF o = e THEN 0 ELSE mapping[x][o]
  BY <1>1 DEF TypeOK
<1>3. \A x \in Devices : \A j \in unsent'[x] :
        \/ j \in unsent[x]
        \/ mapping[x][e] # 0 /\ j.cmd = "DELETE" /\ j.slot = mapping[x][e]
  <2> SUFFICES ASSUME NEW x \in Devices, NEW j \in unsent'[x], j \notin unsent[x]
               PROVE  mapping[x][e] # 0 /\ j.cmd = "DELETE" /\ j.slot = mapping[x][e]
    OBVIOUS
  <2>1. mapping[x][e] # 0 /\ j = DeleteJob(e, mapping[x][e])
    BY <1>1
  <2> QED
    BY <2>1 DEF DeleteJob
<1>4. \A x \in Devices : Local(x)'
  <2> SUFFICES ASSUME NEW x \in Devices PROVE Local(x)'
    OBVIOUS
  <2>1. Local(x)
    BY DEF Owned
  <2>2. Linked(x)' /\ Mapped(x)'
    BY <1>1, <1>2, <2>1 DEF Local, Linked, Mapped
  <2>3. ScanFits(x)'
    <3>1. call[x].kind = "checkin" => call[x].slot # 0
      BY <2>1, SizeAssumption DEF Local, ScanFits, Slots
    <3> QED
      BY <1>1, <1>2, <2>1, <3>1 DEF Local, ScanFits
  <2>4. SlotFits(x)' /\ CallbackFits(x)'
    BY <1>1, <2>1 DEF Local, SlotFits, CallbackFits, Reporting
  <2> QED
    BY <2>2, <2>3, <2>4 DEF Local
<1>5. SyncsFit'
  BY <1>1 DEF Owned, SyncsFit
<1>6. \A x \in Devices : Starts(x)' = {}
  BY <1>1, <1>3 DEF Starts, EnrolmentOpen
<1>7. \A x \in Devices : Enrolls(x)' = {} /\ ~Choosing(x)' /\ ~Reporting(x)'
  BY <1>1, NothingTyped DEF Enrolls, Choosing, Reporting, EnrolmentOpen
<1>8. OneEarly' /\ \A x \in Devices : OnePhase(x)'
  BY <1>6, <1>7 DEF OneEarly, Early, OnePhase, OneCommand
<1>9. \A x \in Devices : ~EnrolmentOpen(x)'
  BY <1>1, <1>3 DEF EnrolmentOpen
<1>10. DeletesFit'
  <2> SUFFICES ASSUME NEW x \in Devices, NEW t, Deleting(x, t)'
               PROVE  t # 0 /\ \A o \in Employees : mapping'[x][o] # t
    BY <1>9 DEF DeletesFit
  <2>1. Deleting(x, t) \/ (mapping[x][e] # 0 /\ t = mapping[x][e])
    BY <1>1, <1>3 DEF Deleting
  <2>2. CASE Deleting(x, t)
    <3>1. t # 0 /\ \A o \in Employees : mapping[x][o] # t
      BY <2>2 DEF Owned, DeletesFit
    <3> QED
      BY <1>2, <3>1
  <2>3. CASE mapping[x][e] # 0 /\ t = mapping[x][e]
    <3>1. \A o \in Employees : o # e => mapping[x][o] # mapping[x][e]
      BY <2>3 DEF Owned, Local, Mapped
    <3> QED
      BY <1>2, <2>3, <3>1
  <2> QED
    BY <2>1, <2>2, <2>3
<1> QED
  BY <1>1, <1>4, <1>5, <1>8, <1>10 DEF Owned

\* A command that is sent is what it was while it was still to be sent.
LEMMA PublishCommandOwned ==
    ASSUME TypeOK, Owned, NEW d \in Devices, NEW j \in unsent[d], PublishCommand(d, j)
    PROVE  Owned'
<1> DEFINE m == CommandOf(j)
<1>1. /\ inbox' = [inbox EXCEPT ![d] = Append(inbox[d], m)]
      /\ unsent' = [unsent EXCEPT ![d] = unsent[d] \ {j}]
      /\ UNCHANGED <<request, call, sensor, mapping, intent, pending, enroll, misbooked>>
  BY DEF PublishCommand, TypeOK, deviceVars, historyVars
<1>2. /\ m.cmd = j.cmd /\ j.cmd \in {"ENROLL", "DELETE"}
      /\ j.cmd = "DELETE" => m.slot = j.slot
  <2>1. \A s : DeleteCommand(s).slot = s
    BY DEF DeleteCommand
  <2> QED
    BY <2>1, JobsTyped DEF TypeOK
<1> HIDE DEF m
<1>3. /\ inbox'[d] = Append(inbox[d], m) /\ \A x \in Devices : x # d => inbox'[x] = inbox[x]
      /\ unsent'[d] = unsent[d] \ {j} /\ \A x \in Devices : x # d => unsent'[x] = unsent[x]
  BY <1>1 DEF TypeOK
<1>4. \A i \in DOMAIN inbox'[d] :
        (i \in DOMAIN inbox[d] /\ inbox'[d][i] = inbox[d][i])
          \/ (i = Len(inbox[d]) + 1 /\ inbox'[d][i] = m)
  <2>1. inbox[d] \in Seq(Command)
    BY DEF TypeOK
  <2> QED
    BY <1>3, <2>1
<1>5. \A x \in Devices : Local(x)'
  BY <1>1, SameLocal DEF SameAt, Owned
<1>6. SyncsFit'
  BY <1>2, <1>3, <1>4 DEF Owned, SyncsFit
<1>7. \A x \in Devices : (Choosing(x)' <=> Choosing(x)) /\ (Reporting(x)' <=> Reporting(x))
  BY <1>1 DEF Choosing, Reporting
<1>8. \A x \in Devices : Starts(x)' \subseteq Starts(x) /\ (x # d => Enrolls(x)' = Enrolls(x))
  BY <1>3 DEF Starts, Enrolls
<1>9. CASE j.cmd = "ENROLL"
  <2>1. j \in Starts(d) /\ Early(d) /\ OnePhase(d)
    BY <1>9 DEF Starts, Early, Owned
  <2>2. Starts(d)' = {}
    BY <1>3, <2>1 DEF Starts, OnePhase
  <2>3. \A i \in Enrolls(d)' : i = Len(inbox[d]) + 1
    BY <1>4, <2>1 DEF Enrolls, OnePhase
  <2>4. OnePhase(d)'
    BY <1>7, <2>1, <2>2, <2>3 DEF OnePhase, OneCommand
  <2>5. \A x \in Devices : x # d => ~Early(x)
    BY <2>1 DEF Owned, OneEarly
  <2>6. \A x \in Devices : x # d => ~Early(x)' /\ OnePhase(x)'
    BY <1>7, <1>8, <2>5 DEF Early, OnePhase, OneCommand
  <2>7. \A x \in Devices : \A i \in DOMAIN inbox'[x] : inbox'[x][i].cmd # "SYNC"
    BY <1>2, <1>3, <1>4, <1>9, <2>1 DEF Owned, OneEarly
  <2>8. OneEarly'
    BY <2>6, <2>7 DEF OneEarly
  <2>9. DeletesFit'
    <3>1. EnrolmentOpen(d)
      BY <1>9 DEF EnrolmentOpen
    <3>2. \A x \in Devices : \A s : ~Deleting(x, s)
      BY <3>1 DEF Owned, DeletesFit
    <3>3. \A x \in Devices : \A s : ~Deleting(x, s)'
      BY <1>2, <1>3, <1>4, <1>9, <3>2 DEF Deleting
    <3> QED
      BY <3>3 DEF DeletesFit
  <2> QED
    BY <1>1, <1>5, <1>6, <2>4, <2>6, <2>8, <2>9 DEF Owned
<1>10. CASE j.cmd = "DELETE"
  <2>1. Deleting(d, j.slot)
    BY <1>10 DEF Deleting
  <2>2. \A x \in Devices : ~EnrolmentOpen(x)
    BY <2>1 DEF Owned, DeletesFit
  <2>3. \A x \in Devices : Starts(x)' = {} /\ ~Choosing(x)' /\ ~Reporting(x)'
    BY <1>7, <1>8, <2>2, NothingTyped DEF Starts, Choosing, Reporting, EnrolmentOpen
  <2>4. \A x \in Devices : \A i \in DOMAIN inbox'[x] : inbox'[x][i].cmd = "DELETE"
    BY <1>2, <1>3, <1>4, <1>10, <2>2 DEF EnrolmentOpen
  <2>5. \A x \in Devices : Enrolls(x)' = {}
    BY <2>4 DEF Enrolls
  <2>6. OneEarly' /\ \A x \in Devices : OnePhase(x)'
    BY <2>3, <2>5 DEF OneEarly, Early, OnePhase, OneCommand
  <2>7. \A x \in Devices : ~EnrolmentOpen(x)'
    <3>1. \A x \in Devices : ~\E k \in unsent'[x] : k.cmd = "ENROLL"
      BY <2>3 DEF Starts
    <3> QED
      BY <1>1, <2>2, <2>4, <3>1 DEF EnrolmentOpen
  <2>8. \A x \in Devices : \A s : Deleting(x, s)' => Deleting(x, s)
    BY <1>2, <1>3, <1>4, <1>10, <2>1 DEF Deleting
  <2>9. DeletesFit'
    BY <1>1, <2>7, <2>8 DEF Owned, DeletesFit
  <2> QED
    BY <1>1, <1>5, <1>6, <2>6, <2>9 DEF Owned
<1> QED
  BY <1>2, <1>9, <1>10


-----------------------------------------------------------------------------
(* Fingers stay with their owners. *)

LEMMA InitOwned == Init => OwnersInv
<1> SUFFICES ASSUME Init PROVE OwnersInv
  OBVIOUS
<1>1. /\ misbooked = {} /\ ~overrun
      /\ \A d \in Devices :
           /\ request[d].kind = "none" /\ call[d].kind = "none" /\ enroll[d].state = "IDLE"
           /\ \A i \in Entries : pending[d][i] = NoEntry
           /\ \A e \in Employees : mapping[d][e] = 0
           /\ inbox[d] = <<>> /\ DOMAIN inbox[d] = {} /\ unsent[d] = {}
  BY NothingTyped DEF Init
<1>2. \A d \in Devices : Local(d)
  BY <1>1 DEF Local, Linked, Mapped, ScanFits, SlotFits, CallbackFits, Reporting
<1>3. DeletesFit /\ SyncsFit
  BY <1>1 DEF DeletesFit, Deleting, SyncsFit
<1>4. \A d \in Devices : ~Early(d) /\ OnePhase(d)
  BY <1>1 DEF Early, OnePhase, OneCommand, Starts, Enrolls, Choosing, Reporting
<1>5. OneEarly
  BY <1>4 DEF OneEarly
<1> QED
  BY <1>1, <1>2, <1>3, <1>4, <1>5 DEF OwnersInv, Owned

LEMMA LoopOwned ==
    ASSUME IInv, ~overrun, Owned, NEW d \in Devices, Backend(d) \/ Loop(d) \/ AtSensor(d)
    PROVE  Owned'
<1>1. TypeOK
  BY DEF IInv
<1>2. CASE Backend(d)
  BY <1>1, <1>2, HandleMappingOwned, ReadIntentOwned, NextStepOwned, WriteMappingOwned,
     PublishSyncOwned, HandleCheckinOwned DEF Backend
<1>3. CASE Loop(d)
  <2>1. ASSUME ReceiveEnroll(d) \/ IgnoreSync(d) \/ StoreSync(d) \/ ReceiveDelete(d) PROVE Owned'
    BY <1>1, <2>1, ReceiveEnrollOwned, IgnoreSyncOwned, StoreSyncOwned, ReceiveDeleteOwned
  <2>2. ASSUME MappingAnswered(d) \/ FingerAnswered(d) \/ CheckinAnswered(d) PROVE Owned'
    BY <1>1, <2>2, MappingAnsweredOwned, FingerAnsweredOwned, CheckinAnsweredOwned
  <2>3. ASSUME FindSlot(d) \/ EnrollEnds(d) PROVE Owned'
    BY <1>1, <2>3, FindSlotOwned, EnrollEndsOwned
  <2>4. ASSUME NEW i \in Entries, RetryMapping(d, i) PROVE Owned'
    BY <2>4, RetryMappingOwned
  <2> QED
    BY <1>3, <2>1, <2>2, <2>3, <2>4 DEF Loop
<1>4. CASE AtSensor(d)
  BY <1>1, <1>4, StoreFingerOwned, ScanFingerOwned DEF AtSensor
<1> QED
  BY <1>2, <1>3, <1>4

\* A terminal's enrolment that is not over is unfinished.
LEMMA OverrunCrosses ==
    ASSUME NEW d \in Devices, SessionOpen(d)
    PROVE  Unfinished(d)
<1>1. CASE enroll[d].state \notin {"IDLE", "RESULT"}
  BY <1>1, NothingTyped DEF Unfinished, EnrolmentOpen
<1>2. CASE request[d].kind = "fingerprint"
  BY <1>2 DEF Unfinished, EnrolmentOpen
<1>3. CASE \E i \in DOMAIN inbox[d] : inbox[d][i].cmd = "ENROLL"
  BY <1>3 DEF Unfinished, EnrolmentOpen
<1>4. CASE \E j \in unsent[d] : j.cmd = "ENROLL"
  BY <1>4 DEF Unfinished, EnrolmentOpen
<1> QED
  BY <1>1, <1>2, <1>3, <1>4 DEF SessionOpen

\* A fault, once it has happened, stays.
LEMMA FaultDisturbs ==
    ASSUME TypeOK, Faults
    PROVE  ~Undisturbed'
<1>1. faults \in Nat /\ faults' = faults + 1
  BY SizeAssumption DEF TypeOK, Faults, LoseCommand, LoseRequest, GiveUp, ExpireIntent, RepeatSync,
                        PublishSyncFails, EnrollFails, RepeatCommand, PublishCommandFails, Fault
<1> QED
  BY <1>1 DEF Undisturbed

\* What a step does to the manager's history.
LEMMA HistoryMoves ==
    ASSUME TypeOK, Next
    PROVE  /\ Undisturbed' => Undisturbed
           /\ \/ overrun' = overrun /\ crossed' = crossed
              \/ \E d \in Devices, e \in Employees : StartEnroll(d, e)
<1>1. ASSUME NEW d \in Devices, Backend(d) \/ Publish(d) \/ Loop(d) \/ AtSensor(d)
      PROVE  UNCHANGED <<crossed, undercut, overrun, faults>>
  <2>1. CASE Backend(d)
    BY <2>1 DEF Backend, HandleMapping, ReadIntent, WriteTemplate, WriteMapping, ClearIntent,
                PublishSync, HandleCheckin, historyVars
  <2>2. CASE Loop(d)
    BY <2>2 DEF Loop, ReceiveEnroll, IgnoreSync, StoreSync, ReceiveDelete, RetryMapping, MappingAnswered,
                FingerAnswered, CheckinAnswered, FindSlot, EnrollEnds, historyVars
  <2>3. CASE AtSensor(d)
    BY <2>3 DEF AtSensor, StoreFinger, ScanFinger, historyVars
  <2>4. CASE Publish(d)
    BY <2>4 DEF Publish, PublishCommand, historyVars
  <2> QED
    BY <1>1, <2>1, <2>2, <2>3, <2>4
<1>2. ASSUME NEW e \in Employees, RemoveFingerprint(e)
      PROVE  /\ UNCHANGED <<crossed, overrun, faults>>
             /\ undercut => undercut'
  BY <1>2 DEF RemoveFingerprint
<1>3. ASSUME NEW d \in Devices, NEW e \in Employees, StartEnroll(d, e)
      PROVE  UNCHANGED <<undercut, faults>> /\ (crossed => crossed')
  BY <1>3 DEF StartEnroll
<1>4. ASSUME Faults
      PROVE  UNCHANGED <<crossed, overrun>> /\ ~Undisturbed'
  BY <1>4, FaultDisturbs DEF Faults, LoseCommand, LoseRequest, GiveUp, ExpireIntent, RepeatSync,
                             PublishSyncFails, EnrollFails, RepeatCommand, PublishCommandFails, SameHistory
<1>5. \/ \E d \in Devices : Backend(d) \/ Publish(d) \/ Loop(d) \/ AtSensor(d)
      \/ \E e \in Employees : RemoveFingerprint(e)
      \/ \E d \in Devices, e \in Employees : StartEnroll(d, e)
      \/ Faults
  BY DEF Next, Manager
<1>6. CASE \E d \in Devices : Backend(d) \/ Publish(d) \/ Loop(d) \/ AtSensor(d)
  BY <1>1, <1>6 DEF Undisturbed
<1>7. CASE \E e \in Employees : RemoveFingerprint(e)
  BY <1>2, <1>7 DEF Undisturbed
<1>8. CASE \E d \in Devices, e \in Employees : StartEnroll(d, e)
  BY <1>3, <1>8 DEF Undisturbed
<1> QED
  BY <1>4, <1>5, <1>6, <1>7, <1>8

LEMMA NextOwned == IInv /\ OwnersInv /\ [Next]_vars => OwnersInv'
<1> SUFFICES ASSUME IInv, OwnersInv, [Next]_vars PROVE OwnersInv'
  OBVIOUS
<1>1. CASE Next
  <2>1. overrun' => crossed'
    <3>1. ASSUME NEW d \in Devices, NEW e \in Employees, StartEnroll(d, e)
          PROVE  overrun' => crossed'
      <4>1. /\ crossed' = (crossed \/ \E x \in Devices : Unfinished(x))
            /\ overrun' = (overrun \/ SessionOpen(d))
        BY <3>1 DEF StartEnroll
      <4> QED
        BY <4>1, OverrunCrosses DEF OwnersInv
    <3> QED
      BY <1>1, <3>1, HistoryMoves DEF OwnersInv, IInv
  <2>2. ASSUME Undisturbed' PROVE Owned'
    <3>1. Undisturbed /\ Owned /\ ~overrun /\ ~crossed' /\ ~undercut' /\ TypeOK
      BY <1>1, <2>2, HistoryMoves DEF OwnersInv, Undisturbed, IInv
    <3>2. ~Faults
      BY <2>2, <3>1, FaultDisturbs
    <3> QED
      BY <1>1, <3>1, <3>2, LoopOwned, PublishCommandOwned, StartEnrollOwned, RemoveFingerprintOwned
         DEF Next, Manager, Publish
  <2> QED
    BY <2>1, <2>2 DEF OwnersInv
<1>2. CASE UNCHANGED vars
  <2>1. UNCHANGED <<mapping, request, unsent, inbox, sensor, pending, intent, enroll, call, misbooked,
                    crossed, undercut, overrun, faults>>
    BY <1>2 DEF vars
  <2>2. ASSUME Owned PROVE Owned'
    <3>1. \A x \in Devices : Local(x)'
      BY <2>1, <2>2, SameLocal DEF SameAt, Owned
    <3>2. DeletesFit' /\ SyncsFit'
      BY <2>1, <2>2 DEF Owned, DeletesFit, Deleting, SyncsFit, EnrolmentOpen
    <3>3. OneEarly'
      BY <2>1, <2>2 DEF Owned, OneEarly, Early, Starts, Enrolls, Choosing, Reporting
    <3>4. \A x \in Devices : OnePhase(x)'
      BY <2>1, <2>2 DEF Owned, OnePhase, OneCommand, Starts, Enrolls, Choosing, Reporting
    <3> QED
      BY <2>1, <2>2, <3>1, <3>2, <3>3, <3>4 DEF Owned
  <2> QED
    BY <2>1, <2>2 DEF OwnersInv, Undisturbed
<1> QED
  BY <1>1, <1>2

\* Undisturbed, fingers stay with their owners: every mapped slot holds the
\* finger of the employee it is mapped to and no accepted scan was booked on
\* somebody else, however enrolments, removals between them, broadcasts,
\* callbacks, scans and ghost clean-ups follow each other, on every number of
\* terminals, slots and employees.
THEOREM OwnersKeepTheirFingers == Spec => []FingersStayWithOwners
<1>1. OwnersInv => FingersStayWithOwners
  BY DEF OwnersInv, Owned, Local, Mapped, FingersStayWithOwners, MappedSlotHoldsOwner,
         ScanIsBookedOnItsOwner
<1>2. Spec => []IInv
  BY Invariance
<1> QED
  BY <1>1, <1>2, InitOwned, NextOwned, PTL DEF Spec
=============================================================================
