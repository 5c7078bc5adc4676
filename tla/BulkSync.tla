------------------------------ MODULE BulkSync ------------------------------
(***************************************************************************)
(* START_BULK_SYNC: a terminal fetches the templates it has no mapping     *)
(* for, a page at a time, stores each in a free slot and acknowledges the  *)
(* page.  BulkSyncService is a state machine of the terminal's loop and    *)
(* CredentialsService answers it.  Meanwhile other terminals enrol people  *)
(* whose templates reach this terminal by SYNC_FINGERPRINT as well, and    *)
(* fingerprints are removed.                                               *)
(*                                                                         *)
(* A request whose answer the terminal no longer awaits may still be       *)
(* carried out, at any time or never: what it asked for is kept in "late"  *)
(* and "lateAcks".                                                         *)
(***************************************************************************)
EXTENDS Integers, FiniteSets

CONSTANTS
    Employees,   \* employee ids, which order a page
    NoOne,
    MaxSlot,     \* kMaxTemplateId
    PageSize,    \* pageSize = kMaxEntriesPerPage: 5 in the code
    MaxRetries,  \* kBulkSyncMaxRetries: 3 in the code
    \* Bounds on a behaviour.
    MaxStarts,   \* START_BULK_SYNC commands
    Removable,   \* employees whose fingerprint may be removed, once each
    MaxFaults    \* requests or answers lost, pages spoilt, stores refused,
                 \* commands delivered again

ASSUME SizeAssumption ==
    /\ MaxSlot \in Nat \ {0} /\ PageSize \in Nat \ {0} /\ MaxRetries \in Nat \ {0}
    /\ MaxStarts \in Nat /\ MaxFaults \in Nat
ASSUME EmployeesAssumption ==
    Employees \subseteq Nat /\ IsFiniteSet(Employees) /\ NoOne \notin Employees

VARIABLES
    template,    \* employees with a master template
    mapping,     \* Mapping.fingerprint_id of this terminal, 0 if no row
    sensor,      \* slot -> stored template
    callbacks,   \* <<employee, slot>> stored by SYNC, mapping not reported yet
    late,        \* <<employee, slot>> reported, but the answer was not awaited
    lateAcks,    \* acknowledgements whose answer was not awaited
    syncs,       \* employees whose SYNC_FINGERPRINT is on its way
    deletes,     \* <<employee, slot>> whose DELETE_FINGER is on its way
    state,       \* BulkSyncService::state_
    step,        \* where tick() is within FETCHING
    items,       \* items of the page not processed yet
    hasMore,
    pending,     \* BulkSyncService::pending_
    retryCount,
    starts, faults,
    \* history
    repeats,     \* acknowledgements that failed or left somebody out, SYNCs repeated
    live,        \* employees enrolled at another terminal meanwhile
    removed,     \* employees whose fingerprint was removed
    orphaned,    \* <<employee, slot>>: the template was taken out of the slot while
                 \* the row existed or was still to be asked for
    owed,        \* who was unmapped when the last page was fetched
    left,        \* who of that page had left the unmapped when they were counted
    cut          \* that page was not stored and booked whole

reportVars == <<callbacks, late, lateAcks>>
commandVars == <<syncs, deletes>>
serviceVars == <<state, step, items, hasMore, pending, retryCount>>
pageVars == <<owed, left, cut>>
historyVars == <<starts, faults, repeats, live, removed, orphaned, pageVars>>
vars == <<template, mapping, sensor, reportVars, commandVars, serviceVars, historyVars>>

Slots == 1..MaxSlot
Mapped == Employees \X Slots

TypeOK ==
    /\ template \subseteq Employees
    /\ mapping \in [Employees -> 0..MaxSlot]
    /\ sensor \in [Slots -> Employees \cup {NoOne}]
    /\ callbacks \subseteq Mapped /\ late \subseteq Mapped
    /\ lateAcks \subseteq SUBSET Mapped
    /\ syncs \subseteq Employees /\ deletes \subseteq Mapped
    /\ state \in {"IDLE", "FETCHING", "PAGE_DELAY", "DONE", "FAILED"}
    /\ step \in {"fetch", "count", "process", "ack"}
    /\ items \subseteq Employees /\ Cardinality(items) <= PageSize
    /\ hasMore \in BOOLEAN
    /\ pending \subseteq Mapped /\ Cardinality(pending) <= PageSize
    /\ retryCount \in 0..MaxRetries
    /\ starts \in 0..MaxStarts /\ faults \in 0..MaxFaults
    /\ repeats \in Nat
    /\ live \subseteq Employees /\ removed \subseteq Employees
    /\ orphaned \subseteq Mapped
    /\ owed \subseteq Employees /\ left \subseteq Employees /\ cut \in BOOLEAN

\* A terminal joins with an empty sensor when people are enrolled already.
Init ==
    /\ template \in SUBSET Employees
    /\ mapping = [e \in Employees |-> 0]
    /\ sensor = [s \in Slots |-> NoOne]
    /\ callbacks = {} /\ late = {} /\ lateAcks = {} /\ syncs = {} /\ deletes = {}
    /\ state = "IDLE" /\ step = "fetch"
    /\ items = {} /\ hasMore = FALSE /\ pending = {} /\ retryCount = 0
    /\ starts = 0 /\ faults = 0 /\ repeats = 0
    /\ live = {} /\ removed = {} /\ orphaned = {}
    /\ owed = {} /\ left = {} /\ cut = FALSE

FreeSlots == {s \in Slots : sensor[s] = NoOne}
Least(S) == CHOOSE x \in S : \A y \in S : x <= y
Fault == faults < MaxFaults /\ faults' = faults + 1

\* tick() runs from the fetch to the end of the page in one go: the terminal
\* does nothing else meanwhile.
BetweenTicks == step = "fetch"

-----------------------------------------------------------------------------
(* The backend's answers. *)

Unmapped == {e \in template : mapping[e] = 0}
\* orderBy employee_id asc, take pageSize
FirstPage == {e \in Unmapped : Cardinality({o \in Unmapped : o < e}) < PageSize}

MoreThanNextPage(total) == total > PageSize + 1
MoreThanPage(total) == total > PageSize

-----------------------------------------------------------------------------
(* BulkSyncService *)

StartSync ==
    /\ BetweenTicks /\ starts < MaxStarts
    /\ state \notin {"FETCHING", "PAGE_DELAY"}
    /\ state' = "FETCHING" /\ retryCount' = 0 /\ pending' = {}
    /\ starts' = starts + 1
    /\ UNCHANGED <<template, mapping, sensor, reportVars, commandVars, step, items, hasMore,
                   faults, repeats, live, removed, orphaned, pageVars>>

\* getBulkSyncPage is two queries: the page ...
FetchPage ==
    /\ state = "FETCHING" /\ step = "fetch"
    /\ items' = FirstPage /\ step' = "count"
    /\ owed' = Unmapped /\ left' = {} /\ cut' = FALSE
    /\ UNCHANGED <<template, mapping, sensor, reportVars, commandVars, state, hasMore, pending,
                   retryCount, starts, faults, repeats, live, removed, orphaned>>

\* ... then the count.  A page that arrives resets the retry counter.
CountTotal ==
    /\ step = "count"
    /\ hasMore' = MoreThanPage(Cardinality(Unmapped))
    /\ step' = "process" /\ retryCount' = 0 /\ pending' = {}
    /\ left' = items \ Unmapped
    /\ UNCHANGED <<template, mapping, sensor, reportVars, commandVars, state, items,
                   starts, faults, repeats, live, removed, orphaned, owed, cut>>

AfterFailure(count) == IF count >= MaxRetries THEN "FAILED" ELSE "FETCHING"

FetchFails ==
    /\ Fault /\ state = "FETCHING" /\ step \in {"fetch", "count"}
    /\ retryCount' = retryCount + 1
    /\ state' = AfterFailure(retryCount')
    /\ step' = "fetch" /\ items' = {}
    /\ UNCHANGED <<template, mapping, sensor, reportVars, commandVars, hasMore, pending, starts,
                   repeats, live, removed, orphaned, pageVars>>

\* processPage: deserializeJson fails, which looks like a last, empty page.
SpoiltPage ==
    /\ Fault /\ step = "count"
    /\ state' = "DONE" /\ step' = "fetch" /\ items' = {} /\ hasMore' = FALSE
    /\ retryCount' = 0 /\ pending' = {}
    /\ cut' = TRUE
    /\ UNCHANGED <<template, mapping, sensor, reportVars, commandVars, starts, repeats, live,
                   removed, orphaned, owed, left>>

AnySlot == Slots
UsableSlots == FreeSlots

StoreItem ==
    LET e == Least(items)
        s == Least(UsableSlots)
    IN
    /\ step = "process" /\ items # {} /\ FreeSlots # {}
    /\ sensor' = [sensor EXCEPT ![s] = e]
    /\ pending' = pending \cup {<<e, s>>}
    /\ items' = items \ {e}
    /\ UNCHANGED <<template, mapping, reportVars, commandVars, state, step, hasMore, retryCount,
                   historyVars>>

\* setTemplateFromHex fails: the item is skipped.
StoreFails ==
    /\ Fault /\ step = "process" /\ items # {} /\ FreeSlots # {}
    /\ items' = items \ {Least(items)}
    /\ cut' = TRUE
    /\ UNCHANGED <<template, mapping, sensor, reportVars, commandVars, state, step, hasMore,
                   pending, retryCount, starts, repeats, live, removed, orphaned, owed, left>>

AlwaysNextPage == "PAGE_DELAY"
EndOfPage == IF hasMore THEN "PAGE_DELAY" ELSE "DONE"

\* Nothing (left) to store, or no free slot: acknowledge what was stored, if
\* anything.
PageProcessed ==
    /\ step = "process" /\ (items = {} \/ FreeSlots = {})
    /\ items' = {}
    /\ cut' = (cut \/ items # {})
    /\ IF pending = {} THEN step' = "fetch" /\ state' = EndOfPage
                       ELSE step' = "ack" /\ UNCHANGED state
    /\ UNCHANGED <<template, mapping, sensor, reportVars, commandVars, hasMore, pending,
                   retryCount, starts, faults, repeats, live, removed, orphaned, owed, left>>

\* createMany with skipDuplicates: an employee or a slot that has a row
\* keeps it.
Skipped(p) == mapping[p[1]] # 0 \/ \E e \in Employees : mapping[e] = p[2]
WithAck(page) ==
    [e \in Employees |->
       IF \E s \in Slots : <<e, s>> \in page /\ ~Skipped(<<e, s>>)
         THEN CHOOSE s \in Slots : <<e, s>> \in page
         ELSE mapping[e]]

\* The slot of somebody on the page had a row already.
LeftOut == \E p \in pending : WithAck(pending)[p[1]] = 0

AckOk ==
    /\ step = "ack"
    /\ mapping' = WithAck(pending)
    /\ state' = EndOfPage /\ step' = "fetch"
    /\ pending' = {} /\ retryCount' = 0
    /\ cut' = (cut \/ LeftOut)
    /\ repeats' = IF LeftOut THEN repeats + 1 ELSE repeats
    /\ UNCHANGED <<template, sensor, reportVars, commandVars, items, hasMore, starts, faults,
                   live, removed, orphaned, owed, left>>

\* No answer: the page is forgotten but its templates stay in the sensor,
\* and the backend may have the acknowledgement.
AckFails ==
    /\ Fault /\ step = "ack"
    /\ lateAcks' = lateAcks \cup {pending}
    /\ retryCount' = retryCount + 1
    /\ state' = AfterFailure(retryCount')
    /\ step' = "fetch"
    /\ repeats' = repeats + 1
    /\ UNCHANGED <<template, mapping, sensor, callbacks, late, commandVars, items, hasMore,
                   pending, starts, live, removed, orphaned, pageVars>>

AckLands(page) ==
    /\ page \in lateAcks /\ lateAcks' = lateAcks \ {page}
    /\ mapping' = WithAck(page)
    /\ UNCHANGED <<template, sensor, callbacks, late, commandVars, serviceVars, historyVars>>

PageDelayOver ==
    /\ state = "PAGE_DELAY" /\ state' = "FETCHING"
    /\ UNCHANGED <<template, mapping, sensor, reportVars, commandVars, step, items, hasMore,
                   pending, retryCount, historyVars>>

-----------------------------------------------------------------------------
(* Enrolment at another terminal, and removal. *)

\* cacheFingerprint writes the template and publishes SYNC_FINGERPRINT ...
EnrollElsewhere(e) ==
    /\ e \notin live /\ live' = live \cup {e}
    /\ template' = template \cup {e}
    /\ syncs' = syncs \cup {e}
    /\ UNCHANGED <<mapping, sensor, reportVars, deletes, serviceVars, starts, faults, repeats,
                   removed, orphaned, pageVars>>

\* ... which is handled here between two ticks, and dropped by a full sensor.
StoreSync(e) ==
    IF FreeSlots = {} THEN UNCHANGED <<sensor, callbacks>>
    ELSE LET s == Least(FreeSlots) IN
         /\ sensor' = [sensor EXCEPT ![s] = e]
         /\ callbacks' = callbacks \cup {<<e, s>>}

SyncArrives(e) ==
    /\ BetweenTicks /\ e \in syncs
    /\ StoreSync(e)
    /\ syncs' = syncs \ {e}
    /\ UNCHANGED <<template, mapping, late, lateAcks, deletes, serviceVars, historyVars>>

\* QoS 1: the publication is repeated, so the command is still to come.
SyncRepeats(e) ==
    /\ Fault /\ BetweenTicks /\ e \in syncs
    /\ StoreSync(e)
    /\ repeats' = repeats + 1
    /\ UNCHANGED <<template, mapping, late, lateAcks, commandVars, serviceVars,
                   starts, live, removed, orphaned, pageVars>>

\* The rows and reports that (will) say that an employee is in a slot.
Promised ==
    {p \in Mapped : \/ mapping[p[1]] = p[2] \/ p \in callbacks \/ p \in late
                    \/ \E page \in lateAcks : p \in page}

\* deleteModel
Vacate(s) ==
    /\ sensor' = [sensor EXCEPT ![s] = NoOne]
    /\ orphaned' = orphaned \cup {p \in Promised' : p[2] = s}

\* upsertSyncMapping: @@unique([device_id, fingerprint_id]) may refuse it.
SlotTaken(e, s) == \E o \in Employees \ {e} : mapping[o] = s
Upsert(e, s) == mapping' = IF SlotTaken(e, s) THEN mapping ELSE [mapping EXCEPT ![e] = s]

CallbackOk(e, s) ==
    /\ BetweenTicks /\ <<e, s>> \in callbacks /\ ~SlotTaken(e, s)
    /\ callbacks' = callbacks \ {<<e, s>>}
    /\ Upsert(e, s)
    /\ UNCHANGED <<template, sensor, late, lateAcks, commandVars, serviceVars, historyVars>>

\* The last attempt was refused: SyncMappingService rolls the slot back.
CallbackRefused(e, s) ==
    /\ BetweenTicks /\ <<e, s>> \in callbacks /\ SlotTaken(e, s)
    /\ callbacks' = callbacks \ {<<e, s>>}
    /\ UNCHANGED <<template, mapping, late, lateAcks, commandVars, serviceVars,
                   starts, faults, repeats, live, removed, pageVars>>
    /\ Vacate(s)

\* No answer: the report is made again, or rolled back if it was the last
\* attempt; the backend may have it all the same.
CallbackUnanswered(e, s) ==
    /\ Fault /\ BetweenTicks /\ <<e, s>> \in callbacks
    /\ late' = late \cup {<<e, s>>}
    /\ UNCHANGED <<template, mapping, lateAcks, commandVars, serviceVars,
                   starts, repeats, live, removed, pageVars>>
    /\ \/ UNCHANGED <<callbacks, sensor, orphaned>>
       \/ callbacks' = callbacks \ {<<e, s>>} /\ Vacate(s)

CallbackLands(e, s) ==
    /\ <<e, s>> \in late /\ late' = late \ {<<e, s>>}
    /\ Upsert(e, s)
    /\ UNCHANGED <<template, sensor, callbacks, lateAcks, commandVars, serviceVars, historyVars>>

\* removeCredentialIdentifier, softDeleteEmployee: the transaction; a
\* DELETE_FINGER for the slot of the row follows.
RemoveFingerprint(e) ==
    /\ e \in Removable \ removed /\ removed' = removed \cup {e}
    /\ template' = template \ {e}
    /\ mapping' = [mapping EXCEPT ![e] = 0]
    /\ deletes' = IF mapping[e] = 0 THEN deletes ELSE deletes \cup {<<e, mapping[e]>>}
    /\ owed' = owed \ {e}
    /\ UNCHANGED <<sensor, reportVars, syncs, serviceVars, starts, faults, repeats, live,
                   orphaned, left, cut>>

DeleteArrives(e, s) ==
    /\ BetweenTicks /\ <<e, s>> \in deletes
    /\ deletes' = deletes \ {<<e, s>>}
    /\ UNCHANGED <<template, mapping, reportVars, syncs, serviceVars,
                   starts, faults, repeats, live, removed, pageVars>>
    /\ Vacate(s)

DeleteRepeats(e, s) ==
    /\ Fault /\ BetweenTicks /\ <<e, s>> \in deletes
    /\ UNCHANGED <<template, mapping, reportVars, commandVars, serviceVars,
                   starts, repeats, live, removed, pageVars>>
    /\ Vacate(s)

-----------------------------------------------------------------------------
Tick ==
    \/ FetchPage \/ CountTotal \/ StoreItem \/ PageProcessed \/ AckOk \/ PageDelayOver

Faults == FetchFails \/ SpoiltPage \/ StoreFails \/ AckFails

\* The SYNC of one employee, and what its callback comes to.
LiveSync(e) ==
    \/ EnrollElsewhere(e) \/ SyncArrives(e) \/ SyncRepeats(e)
    \/ \E s \in Slots :
         \/ CallbackOk(e, s) \/ CallbackRefused(e, s) \/ CallbackUnanswered(e, s)
         \/ CallbackLands(e, s)

Removal(e) ==
    RemoveFingerprint(e) \/ \E s \in Slots : DeleteArrives(e, s) \/ DeleteRepeats(e, s)

Next ==
    \/ StartSync \/ Tick \/ Faults
    \/ \E page \in lateAcks : AckLands(page)
    \/ \E e \in Employees : LiveSync(e) \/ Removal(e)

Spec == Init /\ [][Next]_vars

\* The terminal's loop keeps calling tick().
FairSpec == Spec /\ WF_vars(Tick)

-----------------------------------------------------------------------------
(* Properties. *)

\* A row of this terminal points at that employee's own template, in whatever
\* order pages, acknowledgements, live syncs, removals and their answers
\* interleave, unless the terminal itself took the template out while the row
\* existed or was still on its way: a roll-back whose report had reached the
\* backend, or a DELETE_FINGER for an earlier owner of the slot.
MappingPointsAtOwnTemplate ==
    \A e \in Employees :
      mapping[e] # 0 => sensor[mapping[e]] = e \/ <<e, mapping[e]>> \in orphaned

\* Only a lost acknowledgement, a repeated command, a live sync or a removal
\* of the same employee, or a slot that had a row already, makes the terminal
\* hold a second copy.
Copies(e) == Cardinality({s \in Slots : sensor[s] = e})
CopiesAreExplained ==
    \A e \in Employees :
      Copies(e) <= 1 + repeats + Cardinality(live \cap {e}) + Cardinality(removed \cap {e})

\* Sensor, rows and acknowledgements fit together, whatever is lost.
SlotsAreExplained == TypeOK /\ MappingPointsAtOwnTemplate /\ CopiesAreExplained

\* has_more is computed from a count taken after the page was read.  A sync
\* that says DONE has mapped everybody who was unmapped when its last page
\* was read, up to as many as left the unmapped in between (removed, or
\* mapped by a late report), if that page was stored and booked whole.
Missed == {e \in owed : mapping[e] = 0}
DoneIsComplete ==
    state = "DONE" /\ ~cut => Cardinality(Missed) <= Cardinality(left)

\* A sync that was started ends, if slots do not run out.
SyncEnds == (state = "FETCHING") ~> (state \in {"DONE", "FAILED"} \/ FreeSlots = {})
=============================================================================
