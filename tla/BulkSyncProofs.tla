--------------------------- MODULE BulkSyncProofs ---------------------------
(***************************************************************************)
(* Theorems about BulkSync, for any number of employees, slots, starts and *)
(* faults and any size of a page.                                          *)
(***************************************************************************)
EXTENDS BulkSync, FiniteSetTheorems, WellFoundedInduction, TLAPS

\* A tick that has begun belongs to a sync that is running, and a running one
\* has an attempt left.
Running ==
    /\ step # "fetch" => state = "FETCHING"
    /\ state \in {"FETCHING", "PAGE_DELAY"} => retryCount < MaxRetries

Acknowledging == step \in {"process", "ack"}

\* None of what is left of a page has been stored for it, and there is no
\* more of it than the page had.  What is to be acknowledged is in the sensor.
PageInHand ==
    /\ items # {} => step \in {"count", "process"}
    /\ step = "process" =>
         /\ \A e \in items, s \in Slots : <<e, s>> \notin pending
         /\ Cardinality(items) + Cardinality(pending) <= PageSize
    /\ Acknowledging => \A p \in pending : sensor[p[2]] = p[1]

\* Every row, and every report or acknowledgement that may still make one,
\* is about a template that is in its slot or was taken out of it.
PromisesKept == \A p \in Promised : sensor[p[2]] = p[1] \/ p \in orphaned

\* An employee's first copy is the one that has a row or is about to get one;
\* who is on the page being processed is about to get another copy, and so is
\* an employee whose SYNC is on its way.
One(S, e) == IF e \in S THEN 1 ELSE 0
Held(e) == mapping[e] # 0 \/ (Acknowledging /\ \E s \in Slots : <<e, s>> \in pending)
First(e) == IF Held(e) /\ e \notin items THEN 1 ELSE 0
CopiesBound ==
    \A e \in Employees :
      Copies(e) + One(syncs, e) <= First(e) + repeats + One(live, e) + One(removed, e)

IInv == TypeOK /\ Running /\ PageInHand /\ PromisesKept /\ CopiesBound

-----------------------------------------------------------------------------
(* Facts about naturals, pages and copies. *)

LEMMA LeastIsLeast ==
    ASSUME NEW S \in SUBSET Nat, S # {}
    PROVE  Least(S) \in S /\ \A y \in S : Least(S) <= y
<1>1. PICK x \in S : \A y \in S : ~(<<y, x>> \in OpToRel(<, Nat))
  BY NatLessThanWellFounded, WFMin
<1>2. \A y \in S : <<y, x>> \in Nat \X Nat /\ ~(y < x)
  BY <1>1 DEF OpToRel
<1>3. \A y \in S : x <= y
  <2> SUFFICES ASSUME NEW y \in S PROVE x <= y
    OBVIOUS
  <2>1. x \in Nat /\ y \in Nat /\ ~(y < x)
    BY <1>2
  <2> QED
    BY <2>1
<1> QED
  BY <1>1, <1>3 DEF Least

LEMMA FreeSlotIsFree ==
    ASSUME TypeOK, FreeSlots # {}
    PROVE  Least(FreeSlots) \in Slots /\ sensor[Least(FreeSlots)] = NoOne
<1>1. FreeSlots \in SUBSET Nat
  BY SizeAssumption DEF FreeSlots, Slots
<1>2. Least(FreeSlots) \in FreeSlots
  BY <1>1, LeastIsLeast
<1> QED
  BY <1>2 DEF FreeSlots

LEMMA SlotsAreNumbers == Slots \subseteq 1..MaxSlot /\ IsFiniteSet(Slots) /\ 0 \notin Slots
BY SizeAssumption, FS_Interval DEF Slots

\* The page is cut after PageSize employees: two of them cannot have the same
\* number of employees before them.
LEMMA PageFits ==
    ASSUME TypeOK
    PROVE  FirstPage \subseteq Employees /\ Cardinality(FirstPage) <= PageSize
<1> DEFINE before(e) == {o \in Unmapped : o < e}
<1> DEFINE places == 0..(PageSize - 1)
<1>1. Unmapped \subseteq Employees /\ IsFiniteSet(Unmapped)
  BY EmployeesAssumption, FS_Subset DEF Unmapped, TypeOK
<1>2. FirstPage \subseteq Unmapped /\ IsFiniteSet(FirstPage)
  BY <1>1, FS_Subset DEF FirstPage
<1>3. \A e \in FirstPage : /\ IsFiniteSet(before(e)) /\ Cardinality(before(e)) \in Nat
                           /\ Cardinality(before(e)) < PageSize
  <2> SUFFICES ASSUME NEW e \in FirstPage
               PROVE  /\ IsFiniteSet(before(e)) /\ Cardinality(before(e)) \in Nat
                      /\ Cardinality(before(e)) < PageSize
    OBVIOUS
  <2>1. before(e) \subseteq Unmapped
    OBVIOUS
  <2>2. IsFiniteSet(before(e))
    BY <1>1, <2>1, FS_Subset
  <2>3. Cardinality(before(e)) \in Nat
    BY <2>2, FS_CardinalityType
  <2> QED
    BY <2>2, <2>3 DEF FirstPage
<1>4. \A x, y \in FirstPage : x < y => Cardinality(before(x)) # Cardinality(before(y))
  <2> SUFFICES ASSUME NEW x \in FirstPage, NEW y \in FirstPage, x < y
               PROVE  Cardinality(before(x)) # Cardinality(before(y))
    OBVIOUS
  <2>1. x \in Nat /\ y \in Nat /\ \A o \in Unmapped : o \in Nat
    BY <1>1, <1>2, EmployeesAssumption
  <2>2. before(x) \subseteq before(y)
    BY <2>1
  <2>3. x \in before(y) /\ x \notin before(x)
    BY <1>2, <2>1
  <2> HIDE DEF before
  <2>4. Cardinality(before(y)) = Cardinality(before(x)) => before(y) = before(x)
    BY <1>3, <2>2, FS_Subset
  <2> QED
    BY <2>3, <2>4
<1>5. IsFiniteSet(places) /\ Cardinality(places) = PageSize
  BY SizeAssumption, FS_Interval
<1>6. ASSUME Cardinality(places) < Cardinality(FirstPage) PROVE FALSE
  <2> DEFINE f == [e \in FirstPage |-> Cardinality(before(e))]
  <2>1. f \in [FirstPage -> places]
    <3>1. \A e \in FirstPage : Cardinality(before(e)) \in places
      BY <1>3, SizeAssumption
    <3> HIDE DEF before, places
    <3> QED
      BY <3>1
  <2>2. PICK x \in FirstPage, y \in FirstPage : x # y /\ f[x] = f[y]
    <3> HIDE DEF f, places
    <3> QED
      BY <1>2, <1>5, <1>6, <2>1, FS_PigeonHole
  <2>3. Cardinality(before(x)) = Cardinality(before(y))
    <3> HIDE DEF before
    <3> QED
      BY <2>2
  <2>4. x \in Nat /\ y \in Nat
    BY <1>1, <1>2, EmployeesAssumption
  <2>5. x < y \/ y < x
    BY <2>2, <2>4
  <2> HIDE DEF before
  <2> QED
    BY <1>4, <2>3, <2>5
<1>7. Cardinality(FirstPage) \in Nat
  BY <1>2, FS_CardinalityType
<1> HIDE DEF places
<1> QED
  BY <1>1, <1>2, <1>5, <1>6, <1>7, SizeAssumption

LEMMA CopiesType ==
    ASSUME NEW e
    PROVE  Copies(e) \in Nat /\ IsFiniteSet({s \in Slots : sensor[s] = e})
<1>1. {s \in Slots : sensor[s] = e} \subseteq Slots
  OBVIOUS
<1>2. IsFiniteSet({s \in Slots : sensor[s] = e})
  BY <1>1, SlotsAreNumbers, FS_Subset
<1> QED
  BY <1>2, FS_CardinalityType DEF Copies

\* A free slot that is filled is one more copy of that employee.
LEMMA StoredOnce ==
    ASSUME TypeOK, NEW s \in Slots, sensor[s] = NoOne, NEW e \in Employees,
           sensor' = [sensor EXCEPT ![s] = e]
    PROVE  /\ sensor' \in [Slots -> Employees \cup {NoOne}]
           /\ \A q \in Slots : sensor'[q] = IF q = s THEN e ELSE sensor[q]
           /\ Copies(e)' = Copies(e) + 1
           /\ \A o \in Employees \ {e} : Copies(o)' = Copies(o)
<1>1. \A q \in Slots : sensor'[q] = IF q = s THEN e ELSE sensor[q]
  BY DEF TypeOK
<1>2. sensor' \in [Slots -> Employees \cup {NoOne}]
  BY DEF TypeOK
<1>3. Copies(e)' = Copies(e) + 1
  <2> DEFINE S == {q \in Slots : sensor[q] = e}
  <2>1. {q \in Slots : sensor'[q] = e} = S \cup {s} /\ s \notin S
    BY <1>1, EmployeesAssumption
  <2>2. IsFiniteSet(S)
    BY CopiesType
  <2> HIDE DEF S
  <2>3. Cardinality(S \cup {s}) = Cardinality(S) + 1
    BY <2>1, <2>2, FS_AddElement
  <2> QED
    BY <2>1, <2>3 DEF Copies, S
<1>4. ASSUME NEW o \in Employees \ {e} PROVE Copies(o)' = Copies(o)
  <2>1. {q \in Slots : sensor'[q] = o} = {q \in Slots : sensor[q] = o}
    BY <1>1, EmployeesAssumption
  <2> QED
    BY <2>1 DEF Copies
<1> QED
  BY <1>1, <1>2, <1>3, <1>4

LEMMA LiveCount ==
    ASSUME NEW S, NEW e
    PROVE  Cardinality(S \cap {e}) = IF e \in S THEN 1 ELSE 0
<1>1. CASE e \in S
  <2>1. S \cap {e} = {e}
    BY <1>1
  <2> QED
    BY <1>1, <2>1, FS_Singleton
<1>2. CASE e \notin S
  <2>1. S \cap {e} = {}
    BY <1>2
  <2> QED
    BY <1>2, <2>1, FS_EmptySet
<1> QED
  BY <1>1, <1>2


\* The page is whole, or it has as many employees as a page may have.
LEMMA PageIsFull ==
    ASSUME TypeOK
    PROVE  Unmapped \subseteq FirstPage \/ Cardinality(FirstPage) = PageSize
<1> DEFINE rest == Unmapped \ FirstPage
<1> SUFFICES ASSUME rest # {} PROVE Cardinality(FirstPage) = PageSize
  OBVIOUS
<1>1. Unmapped \subseteq Nat /\ IsFiniteSet(Unmapped) /\ FirstPage \subseteq Unmapped
  BY EmployeesAssumption, FS_Subset DEF Unmapped, TypeOK, FirstPage
<1>2. PICK e \in rest : \A o \in rest : e <= o
  <2>1. rest \in SUBSET Nat
    BY <1>1
  <2> HIDE DEF rest
  <2> QED
    BY <2>1, LeastIsLeast
<1> DEFINE before == {o \in Unmapped : o < e}
<1>3. before \subseteq FirstPage
  <2> SUFFICES ASSUME NEW o \in Unmapped, o < e, o \notin FirstPage PROVE FALSE
    OBVIOUS
  <2>1. o \in rest /\ o \in Nat /\ e \in Nat
    BY <1>1
  <2> QED
    BY <1>2, <2>1
<1>4. ~(Cardinality(before) < PageSize)
  BY <1>2 DEF FirstPage
<1>5. IsFiniteSet(FirstPage) /\ Cardinality(FirstPage) <= PageSize
  BY <1>1, PageFits, FS_Subset
<1>6. /\ Cardinality(before) <= Cardinality(FirstPage)
      /\ Cardinality(before) \in Nat /\ Cardinality(FirstPage) \in Nat
  <2> HIDE DEF before
  <2>1. IsFiniteSet(before) /\ Cardinality(before) <= Cardinality(FirstPage)
    BY <1>3, <1>5, FS_Subset
  <2> QED
    BY <1>5, <2>1, FS_CardinalityType
<1> HIDE DEF before
<1> QED
  BY <1>4, <1>5, <1>6, SizeAssumption

\* What is in hand is finite.
LEMMA HandIsFinite ==
    ASSUME TypeOK
    PROVE  /\ IsFiniteSet(items) /\ IsFiniteSet(pending)
           /\ Cardinality(items) \in Nat /\ Cardinality(pending) \in Nat
<1>1. IsFiniteSet(Mapped)
  BY EmployeesAssumption, SlotsAreNumbers, FS_Product DEF Mapped
<1>2. IsFiniteSet(items) /\ IsFiniteSet(pending)
  BY <1>1, EmployeesAssumption, FS_Subset DEF TypeOK
<1> QED
  BY <1>2, FS_CardinalityType

LEMMA SmallNumbers == \A e, S : First(e) \in 0..1 /\ One(S, e) \in 0..1
BY DEF First, One

LEMMA EmptyIsSmall == Cardinality({}) = 0 /\ IsFiniteSet({})
BY FS_EmptySet

-----------------------------------------------------------------------------
(* How the parts of the invariant are kept. *)

\* Copies are still explained if there are no more of them, no SYNC is new,
\* and whoever loses the place of a first copy gains an explanation.
LEMMA BoundStays ==
    ASSUME TypeOK, TypeOK', CopiesBound, syncs' \subseteq syncs,
           \A e \in Employees : Copies(e)' <= Copies(e),
           live \subseteq live', removed \subseteq removed', repeats' \in {repeats, repeats + 1},
           \A e \in Employees : Held(e) /\ e \notin items =>
             \/ Held(e)' /\ e \notin items'
             \/ repeats' = repeats + 1
             \/ e \in removed' \ removed
    PROVE  CopiesBound'
<1> SUFFICES ASSUME NEW e \in Employees
             PROVE  Copies(e)' + One(syncs', e)
                      <= First(e)' + repeats' + One(live', e) + One(removed', e)
  BY DEF CopiesBound
<1>1. Copies(e) + One(syncs, e) <= First(e) + repeats + One(live, e) + One(removed, e)
  BY DEF CopiesBound
<1>2. Copies(e)' <= Copies(e) /\ Copies(e) \in Nat /\ Copies(e)' \in Nat
  <2>1. Copies(e)' \in Nat
    <3>1. {s \in Slots : sensor'[s] = e} \subseteq Slots
      OBVIOUS
    <3>2. IsFiniteSet({s \in Slots : sensor'[s] = e})
      BY <3>1, SlotsAreNumbers, FS_Subset
    <3> QED
      BY <3>2, FS_CardinalityType DEF Copies
  <2> QED
    BY <2>1, CopiesType
<1>3. repeats \in Nat /\ repeats' \in Nat
  BY DEF TypeOK
<1>4. One(syncs', e) <= One(syncs, e) /\ One(syncs, e) \in 0..1 /\ One(syncs', e) \in 0..1
  BY DEF One
<1>5. /\ One(live', e) >= One(live, e) /\ One(live, e) \in 0..1 /\ One(live', e) \in 0..1
      /\ One(removed', e) >= One(removed, e)
      /\ One(removed, e) \in 0..1 /\ One(removed', e) \in 0..1
  BY DEF One
<1>6. First(e) \in 0..1 /\ First(e)' \in 0..1
  BY DEF First
<1>7. First(e)' + repeats' + One(removed', e) >= First(e) + repeats + One(removed, e)
  <2>1. CASE First(e)' >= First(e)
    BY <1>3, <1>5, <1>6, <2>1
  <2>2. CASE repeats' = repeats + 1
    BY <1>3, <1>5, <1>6, <2>2
  <2>3. CASE e \in removed' \ removed
    <3>1. One(removed, e) = 0 /\ One(removed', e) = 1
      BY <2>3 DEF One
    <3> QED
      BY <1>3, <1>6, <3>1
  <2>4. First(e)' >= First(e) \/ repeats' = repeats + 1 \/ e \in removed' \ removed
    BY DEF First
  <2> QED
    BY <2>1, <2>2, <2>3, <2>4
<1> QED
  BY <1>1, <1>2, <1>3, <1>4, <1>5, <1>6, <1>7

LEMMA SameCopies ==
    ASSUME sensor' = sensor
    PROVE  \A e \in Employees : Copies(e)' <= Copies(e)
<1>1. \A e \in Employees : Copies(e)' = Copies(e) /\ Copies(e) \in Nat
  BY CopiesType DEF Copies
<1> QED
  BY <1>1

\* Promises are kept if the sensor is as it was and only what is in it is
\* promised anew.
LEMMA PromisesStay ==
    ASSUME PromisesKept, sensor' = sensor, orphaned' = orphaned,
           \A p \in Promised' : p \in Promised \/ sensor[p[2]] = p[1]
    PROVE  PromisesKept'
BY DEF PromisesKept

\* Promises are the same as long as nothing that makes them changes.
LEMMA SamePromises ==
    ASSUME UNCHANGED <<mapping, callbacks, late, lateAcks>>
    PROVE  Promised' = Promised
BY DEF Promised

\* A slot that is filled was free: nobody's template is lost.
LEMMA PromisesSurviveStore ==
    ASSUME TypeOK, PromisesKept, NEW s \in Slots, sensor[s] = NoOne, NEW e \in Employees,
           sensor' = [sensor EXCEPT ![s] = e], orphaned' = orphaned,
           \A p \in Promised' : p \in Promised \/ p = <<e, s>>
    PROVE  PromisesKept'
<1>1. \A q \in Slots : sensor'[q] = IF q = s THEN e ELSE sensor[q]
  BY DEF TypeOK
<1> SUFFICES ASSUME NEW p \in Promised' PROVE sensor'[p[2]] = p[1] \/ p \in orphaned
  BY DEF PromisesKept
<1>2. p \in Mapped
  BY DEF Promised
<1>3. CASE p = <<e, s>>
  BY <1>1, <1>3
<1>4. CASE p \in Promised /\ p[2] # s
  BY <1>1, <1>2, <1>4 DEF PromisesKept, Mapped
<1>5. CASE p \in Promised /\ p[2] = s
  <2>1. sensor[p[2]] # p[1]
    BY <1>2, <1>5, EmployeesAssumption DEF Mapped
  <2> QED
    BY <1>5, <2>1 DEF PromisesKept
<1> QED
  BY <1>3, <1>4, <1>5

\* A slot that is emptied orphans what was promised about it.
LEMMA PromisesSurviveVacate ==
    ASSUME TypeOK, PromisesKept, NEW s \in Slots, Vacate(s),
           \A p \in Promised' : p \in Promised \/ p[2] = s
    PROVE  PromisesKept'
<1>1. \A q \in Slots : q # s => sensor'[q] = sensor[q]
  BY DEF TypeOK, Vacate
<1> SUFFICES ASSUME NEW p \in Promised' PROVE sensor'[p[2]] = p[1] \/ p \in orphaned'
  BY DEF PromisesKept
<1>2. p \in Mapped
  BY DEF Promised
<1>3. CASE p[2] = s
  BY <1>3 DEF Vacate
<1>4. CASE p[2] # s
  BY <1>1, <1>2, <1>4 DEF PromisesKept, Mapped, Vacate
<1> QED
  BY <1>3, <1>4

LEMMA VacateType ==
    ASSUME TypeOK, NEW s \in Slots, Vacate(s)
    PROVE  /\ sensor' \in [Slots -> Employees \cup {NoOne}] /\ orphaned' \subseteq Mapped
           /\ \A e \in Employees : Copies(e)' <= Copies(e)
<1>1. sensor' \in [Slots -> Employees \cup {NoOne}]
      /\ \A q \in Slots : sensor'[q] = IF q = s THEN NoOne ELSE sensor[q]
  BY DEF TypeOK, Vacate
<1>2. orphaned' \subseteq Mapped
  BY DEF TypeOK, Vacate, Promised
<1>3. ASSUME NEW e \in Employees PROVE Copies(e)' <= Copies(e)
  <2> DEFINE S == {q \in Slots : sensor[q] = e}
             T == {q \in Slots : sensor'[q] = e}
  <2>1. T \subseteq S
    BY <1>1, EmployeesAssumption
  <2>2. IsFiniteSet(S)
    BY CopiesType
  <2> HIDE DEF S, T
  <2>3. Cardinality(T) <= Cardinality(S)
    BY <2>1, <2>2, FS_Subset
  <2> QED
    BY <2>3 DEF Copies, S, T
<1> QED
  BY <1>1, <1>2, <1>3

-----------------------------------------------------------------------------
(* Initially, and one lemma for each action. *)

LEMMA InitHolds == Init => IInv
<1> SUFFICES ASSUME Init PROVE IInv
  OBVIOUS
<1>1. TypeOK
  <2>1. mapping \in [Employees -> 0..MaxSlot] /\ sensor \in [Slots -> Employees \cup {NoOne}]
    BY SizeAssumption DEF Init
  <2>2. /\ items \subseteq Employees /\ Cardinality(items) <= PageSize
        /\ pending \subseteq Mapped /\ Cardinality(pending) <= PageSize
    BY SizeAssumption, EmptyIsSmall DEF Init
  <2>3. /\ callbacks \subseteq Mapped /\ late \subseteq Mapped /\ lateAcks \subseteq SUBSET Mapped
        /\ syncs \subseteq Employees /\ deletes \subseteq Mapped
    BY DEF Init
  <2>4. /\ retryCount \in 0..MaxRetries /\ starts \in 0..MaxStarts
        /\ faults \in 0..MaxFaults /\ repeats \in Nat
    BY SizeAssumption DEF Init
  <2>5. /\ live \subseteq Employees /\ removed \subseteq Employees /\ orphaned \subseteq Mapped
        /\ owed \subseteq Employees /\ left \subseteq Employees /\ cut \in BOOLEAN
    BY DEF Init
  <2>6. /\ template \subseteq Employees /\ hasMore \in BOOLEAN
        /\ state \in {"IDLE", "FETCHING", "PAGE_DELAY", "DONE", "FAILED"}
        /\ step \in {"fetch", "count", "process", "ack"}
    BY DEF Init
  <2> QED
    BY <2>1, <2>2, <2>3, <2>4, <2>5, <2>6 DEF TypeOK
<1>2. Running /\ PageInHand
  BY DEF Init, Running, PageInHand, Acknowledging
<1>3. PromisesKept
  <2>1. Promised = {}
    BY SlotsAreNumbers DEF Init, Promised, Mapped
  <2> QED
    BY <2>1 DEF PromisesKept
<1>4. CopiesBound
  <2> SUFFICES ASSUME NEW e \in Employees
               PROVE  Copies(e) + One(syncs, e)
                        <= First(e) + repeats + One(live, e) + One(removed, e)
    BY DEF CopiesBound
  <2>1. {s \in Slots : sensor[s] = e} = {}
    BY EmployeesAssumption DEF Init
  <2>2. Copies(e) = 0 /\ One(syncs, e) = 0
    BY <2>1, EmptyIsSmall DEF Copies, Init, One
  <2>3. First(e) \in 0..1 /\ repeats = 0 /\ One(live, e) \in 0..1 /\ One(removed, e) \in 0..1
    BY DEF First, Init, One
  <2> QED
    BY <2>2, <2>3
<1> QED
  BY <1>1, <1>2, <1>3, <1>4 DEF IInv

\* Copies and promises do not change with the service alone, as long as
\* nobody about to get a row is forgotten.
LEMMA ServiceStep ==
    ASSUME IInv, TypeOK', UNCHANGED <<mapping, sensor, callbacks, late, lateAcks, syncs>>,
           UNCHANGED <<live, removed, orphaned>>,
           \/ repeats' = repeats + 1
           \/ repeats' = repeats /\ \A e \in Employees : Held(e) /\ e \notin items
                                                           => Held(e)' /\ e \notin items'
    PROVE  PromisesKept' /\ CopiesBound'
<1>1. PromisesKept'
  BY SamePromises, PromisesStay DEF IInv
<1>2. \A e \in Employees : Copies(e)' <= Copies(e)
  BY SameCopies
<1>3. CopiesBound'
  BY <1>2, BoundStays DEF IInv
<1> QED
  BY <1>1, <1>3

LEMMA StartSyncKeeps ==
    ASSUME IInv, StartSync
    PROVE  IInv'
<1> USE DEF StartSync, BetweenTicks, reportVars, commandVars, pageVars
<1>1. TypeOK'
  BY SizeAssumption, EmptyIsSmall DEF IInv, TypeOK, Mapped
<1>2. Running' /\ PageInHand'
  BY SizeAssumption DEF IInv, Running, PageInHand, Acknowledging
<1>3. \A e \in Employees : Held(e) /\ e \notin items => Held(e)' /\ e \notin items'
  BY DEF Held, Acknowledging
<1>4. PromisesKept' /\ CopiesBound'
  BY <1>1, <1>3, ServiceStep
<1> QED
  BY <1>1, <1>2, <1>4 DEF IInv

LEMMA FetchPageKeeps ==
    ASSUME IInv, FetchPage
    PROVE  IInv'
<1> USE DEF FetchPage, reportVars, commandVars
<1>1. TypeOK'
  <2>1. FirstPage \subseteq Employees /\ Cardinality(FirstPage) <= PageSize
    BY PageFits DEF IInv
  <2> HIDE DEF FetchPage
  <2>2. /\ template' \subseteq Employees /\ mapping' \in [Employees -> 0..MaxSlot]
        /\ sensor' \in [Slots -> Employees \cup {NoOne}]
        /\ callbacks' \subseteq Mapped /\ late' \subseteq Mapped /\ lateAcks' \subseteq SUBSET Mapped
        /\ syncs' \subseteq Employees /\ deletes' \subseteq Mapped
    BY DEF IInv, TypeOK, FetchPage
  <2>3. /\ state' \in {"IDLE", "FETCHING", "PAGE_DELAY", "DONE", "FAILED"}
        /\ step' \in {"fetch", "count", "process", "ack"} /\ hasMore' \in BOOLEAN
        /\ pending' \subseteq Mapped /\ Cardinality(pending') <= PageSize
        /\ retryCount' \in 0..MaxRetries
    BY DEF IInv, TypeOK, FetchPage
  <2>4. items' \subseteq Employees /\ Cardinality(items') <= PageSize
    BY <2>1 DEF FetchPage
  <2>5. /\ starts' \in 0..MaxStarts /\ faults' \in 0..MaxFaults /\ repeats' \in Nat
        /\ live' \subseteq Employees /\ removed' \subseteq Employees /\ orphaned' \subseteq Mapped
        /\ owed' \subseteq Employees /\ left' \subseteq Employees /\ cut' \in BOOLEAN
    BY DEF IInv, TypeOK, FetchPage, Unmapped
  <2> QED
    BY <2>2, <2>3, <2>4, <2>5 DEF TypeOK
<1>2. Running' /\ PageInHand'
  BY DEF IInv, Running, PageInHand, Acknowledging
<1>3. \A e \in Employees : Held(e) /\ e \notin items => Held(e)' /\ e \notin items'
  BY DEF Held, Acknowledging, FirstPage, Unmapped
<1>4. PromisesKept' /\ CopiesBound'
  BY <1>1, <1>3, ServiceStep
<1> QED
  BY <1>1, <1>2, <1>4 DEF IInv

LEMMA CountTotalKeeps ==
    ASSUME IInv, CountTotal
    PROVE  IInv'
<1> USE DEF CountTotal, reportVars, commandVars
<1>1. TypeOK'
  BY SizeAssumption, EmptyIsSmall DEF IInv, TypeOK, MoreThanPage
<1>2. Running' /\ PageInHand'
  BY HandIsFinite, SizeAssumption, EmptyIsSmall DEF IInv, TypeOK, Running, PageInHand, Acknowledging
<1>3. \A e \in Employees : Held(e) /\ e \notin items => Held(e)' /\ e \notin items'
  BY DEF Held, Acknowledging
<1>4. PromisesKept' /\ CopiesBound'
  BY <1>1, <1>3, ServiceStep
<1> QED
  BY <1>1, <1>2, <1>4 DEF IInv

\* An attempt less is still a state of the counter.
LEMMA OneMoreFailure ==
    ASSUME TypeOK, Running, state = "FETCHING", retryCount' = retryCount + 1,
           state' = AfterFailure(retryCount')
    PROVE  /\ retryCount' \in 0..MaxRetries
           /\ state' \in {"FETCHING", "FAILED"}
           /\ state' = "FETCHING" => retryCount' < MaxRetries
BY SizeAssumption DEF TypeOK, Running, AfterFailure

LEMMA FetchFailsKeeps ==
    ASSUME IInv, FetchFails
    PROVE  IInv'
<1> USE DEF FetchFails, Fault, reportVars, commandVars, pageVars
<1>1. /\ retryCount' \in 0..MaxRetries /\ state' \in {"FETCHING", "FAILED"}
      /\ state' = "FETCHING" => retryCount' < MaxRetries
  BY OneMoreFailure DEF IInv
<1>2. TypeOK'
  BY <1>1, SizeAssumption, EmptyIsSmall DEF IInv, TypeOK, Mapped
<1>3. Running' /\ PageInHand'
  BY <1>1, SizeAssumption DEF IInv, Running, PageInHand, Acknowledging
<1>4. \A e \in Employees : Held(e) /\ e \notin items => Held(e)' /\ e \notin items'
  BY DEF Held, Acknowledging
<1>5. PromisesKept' /\ CopiesBound'
  BY <1>2, <1>4, ServiceStep
<1> QED
  BY <1>2, <1>3, <1>5 DEF IInv

LEMMA SpoiltPageKeeps ==
    ASSUME IInv, SpoiltPage
    PROVE  IInv'
<1> USE DEF SpoiltPage, Fault, reportVars, commandVars
<1>1. TypeOK'
  <2>1. faults' \in 0..MaxFaults /\ retryCount' \in 0..MaxRetries
    BY SizeAssumption DEF IInv, TypeOK
  <2>2. /\ items' \subseteq Employees /\ Cardinality(items') <= PageSize
        /\ pending' \subseteq Mapped /\ Cardinality(pending') <= PageSize
    BY SizeAssumption, EmptyIsSmall
  <2> QED
    BY <2>1, <2>2 DEF IInv, TypeOK
<1>2. Running' /\ PageInHand'
  BY SizeAssumption DEF IInv, Running, PageInHand, Acknowledging
<1>3. \A e \in Employees : Held(e) /\ e \notin items => Held(e)' /\ e \notin items'
  BY DEF Held, Acknowledging
<1>4. PromisesKept' /\ CopiesBound'
  BY <1>1, <1>3, ServiceStep
<1> QED
  BY <1>1, <1>2, <1>4 DEF IInv

\* A template of the page goes into a free slot: the copy that was expected
\* of its employee.
LEMMA StoreItemKeeps ==
    ASSUME IInv, StoreItem
    PROVE  IInv'
<1>0. PICK e, s : e = Least(items) /\ s = Least(FreeSlots)
  OBVIOUS
<1>1. /\ step = "process" /\ step' = "process" /\ items # {}
      /\ sensor' = [sensor EXCEPT ![s] = e]
      /\ pending' = pending \cup {<<e, s>>} /\ items' = items \ {e}
      /\ UNCHANGED <<mapping, callbacks, late, lateAcks, syncs, live, removed, repeats, orphaned>>
  BY <1>0 DEF StoreItem, UsableSlots, historyVars, reportVars, commandVars
<1>2. e \in items /\ e \in Employees
  <2>1. items \in SUBSET Nat /\ items \subseteq Employees
    BY EmployeesAssumption DEF IInv, TypeOK
  <2> QED
    BY <1>0, <1>1, <2>1, LeastIsLeast
<1>3. s \in Slots /\ sensor[s] = NoOne
  BY <1>0, FreeSlotIsFree DEF IInv, StoreItem
<1>4. /\ sensor' \in [Slots -> Employees \cup {NoOne}]
      /\ \A q \in Slots : sensor'[q] = IF q = s THEN e ELSE sensor[q]
      /\ Copies(e)' = Copies(e) + 1
      /\ \A o \in Employees \ {e} : Copies(o)' = Copies(o)
  BY <1>1, <1>2, <1>3, StoredOnce DEF IInv
<1>5. <<e, s>> \notin pending
  BY <1>1, <1>2, <1>3 DEF IInv, PageInHand
<1>6. /\ IsFiniteSet(items) /\ IsFiniteSet(pending)
      /\ Cardinality(items) \in Nat /\ Cardinality(pending) \in Nat
  BY HandIsFinite DEF IInv
<1>7. Cardinality(items') = Cardinality(items) - 1 /\ Cardinality(pending') = Cardinality(pending) + 1
  BY <1>1, <1>2, <1>5, <1>6, FS_RemoveElement, FS_AddElement
<1>8. Cardinality(items) + Cardinality(pending) <= PageSize
  BY <1>1 DEF IInv, PageInHand
<1>9. Cardinality(items) >= 1
  BY <1>2, <1>6, FS_EmptySet
<1>10. TypeOK'
  <2>1. Cardinality(items') <= PageSize /\ Cardinality(pending') <= PageSize
    BY <1>6, <1>7, <1>8, <1>9, SizeAssumption
  <2>2. items' \subseteq Employees /\ pending' \subseteq Mapped
    BY <1>1, <1>2, <1>3 DEF IInv, TypeOK, Mapped
  <2> QED
    BY <1>4, <2>1, <2>2
    DEF IInv, TypeOK, StoreItem, historyVars, pageVars, reportVars, commandVars
<1>11. Running'
  BY DEF IInv, Running, StoreItem
<1>12. PageInHand'
  <2>1. \A o \in items', q \in Slots : <<o, q>> \notin pending'
    BY <1>1 DEF IInv, PageInHand
  <2>2. Cardinality(items') + Cardinality(pending') <= PageSize
    BY <1>6, <1>7, <1>8, SizeAssumption
  <2>3. ASSUME NEW p \in pending' PROVE sensor'[p[2]] = p[1]
    <3>1. CASE p = <<e, s>>
      BY <1>3, <1>4, <3>1
    <3>2. CASE p \in pending
      <4>1. p \in Mapped /\ sensor[p[2]] = p[1]
        BY <1>1, <3>2 DEF IInv, TypeOK, PageInHand, Acknowledging
      <4> QED
        BY <1>3, <1>4, <4>1, EmployeesAssumption DEF Mapped
    <3> QED
      BY <1>1, <2>3, <3>1, <3>2
  <2> QED
    BY <1>1, <2>1, <2>2, <2>3 DEF PageInHand
<1>13. PromisesKept'
  <2>1. Promised' = Promised
    BY <1>1, SamePromises
  <2> QED
    BY <1>1, <1>2, <1>3, <2>1, PromisesSurviveStore DEF IInv
<1>14. CopiesBound'
  <2> SUFFICES ASSUME NEW o \in Employees
               PROVE  Copies(o)' + One(syncs', o)
                        <= First(o)' + repeats' + One(live', o) + One(removed', o)
    BY DEF CopiesBound
  <2>1. Copies(o) + One(syncs, o) <= First(o) + repeats + One(live, o) + One(removed, o)
    BY DEF IInv, CopiesBound
  <2>2. repeats \in Nat /\ Copies(o) \in Nat
    BY CopiesType DEF IInv, TypeOK
  <2>3. One(syncs, o) \in 0..1 /\ One(live, o) \in 0..1 /\ One(removed, o) \in 0..1
    BY DEF One
  <2>4. syncs' = syncs /\ repeats' = repeats /\ live' = live /\ removed' = removed
    BY <1>1
  <2>5. CASE o = e
    <3>1. First(o) = 0
      BY <1>2, <2>5 DEF First
    <3>2. First(o)' = 1
      BY <1>1, <1>3, <2>5 DEF First, Held, Acknowledging
    <3>3. Copies(o)' = Copies(o) + 1
      BY <1>4, <2>5
    <3> QED
      BY <2>1, <2>2, <2>3, <2>4, <3>1, <3>2, <3>3
  <2>6. CASE o # e
    <3>1. First(o)' \in 0..1 /\ First(o) \in 0..1 /\ First(o)' >= First(o)
      BY <1>1 DEF First, Held, Acknowledging
    <3>2. Copies(o)' = Copies(o)
      BY <1>4, <2>6
    <3> QED
      BY <2>1, <2>2, <2>3, <2>4, <3>1, <3>2
  <2> QED
    BY <2>5, <2>6
<1> QED
  BY <1>10, <1>11, <1>12, <1>13, <1>14 DEF IInv

LEMMA StoreFailsKeeps ==
    ASSUME IInv, StoreFails
    PROVE  IInv'
<1> USE DEF StoreFails, Fault, reportVars, commandVars
<1>1. /\ items' \subseteq items /\ Cardinality(items') <= Cardinality(items)
      /\ Cardinality(items') \in Nat
  <2>1. IsFiniteSet(items) /\ items' \subseteq items
    BY HandIsFinite DEF IInv
  <2> QED
    BY <2>1, FS_Subset, FS_CardinalityType
<1>2. Cardinality(items) \in Nat /\ Cardinality(pending) \in Nat
  BY HandIsFinite DEF IInv
<1>3. TypeOK'
  <2>1. faults' \in 0..MaxFaults
    BY SizeAssumption DEF IInv, TypeOK
  <2>2. items' \subseteq Employees /\ Cardinality(items') <= PageSize
    BY <1>1, <1>2, SizeAssumption DEF IInv, TypeOK
  <2> QED
    BY <2>1, <2>2 DEF IInv, TypeOK
<1>4. Running'
  BY DEF IInv, Running
<1>5. PageInHand'
  BY <1>1, <1>2, SizeAssumption DEF IInv, PageInHand, Acknowledging
<1>6. \A e \in Employees : Held(e) /\ e \notin items => Held(e)' /\ e \notin items'
  BY DEF Held, Acknowledging
<1>7. PromisesKept' /\ CopiesBound'
  BY <1>3, <1>6, ServiceStep
<1> QED
  BY <1>3, <1>4, <1>5, <1>7 DEF IInv

LEMMA PageProcessedKeeps ==
    ASSUME IInv, PageProcessed
    PROVE  IInv'
<1> USE DEF PageProcessed, reportVars, commandVars
<1>1. /\ step = "process" /\ state = "FETCHING" /\ items' = {}
      /\ step' \in {"fetch", "ack"} /\ state' \in {"FETCHING", "PAGE_DELAY", "DONE"}
      /\ step' = "fetch" => pending = {}
      /\ step' = "ack" => state' = "FETCHING"
  BY DEF IInv, Running, EndOfPage
<1>2. TypeOK'
  BY <1>1, SizeAssumption, EmptyIsSmall DEF IInv, TypeOK
<1>3. Running' /\ PageInHand'
  BY <1>1 DEF IInv, Running, PageInHand, Acknowledging
<1>4. \A e \in Employees : Held(e) /\ e \notin items => Held(e)' /\ e \notin items'
  BY <1>1 DEF Held, Acknowledging
<1>5. PromisesKept' /\ CopiesBound'
  BY <1>2, <1>4, ServiceStep
<1> QED
  BY <1>2, <1>3, <1>5 DEF IInv

\* An acknowledgement only adds rows, and only for what is on it.
LEMMA AckIsTrue ==
    ASSUME TypeOK, NEW page \in SUBSET Mapped
    PROVE  /\ WithAck(page) \in [Employees -> 0..MaxSlot]
           /\ \A e \in Employees :
                /\ WithAck(page)[e] = mapping[e] \/ <<e, WithAck(page)[e]>> \in page
                /\ mapping[e] # 0 => WithAck(page)[e] # 0
<1> DEFINE Owns(e, s) == <<e, s>> \in page
<1> SUFFICES ASSUME NEW e \in Employees
             PROVE  /\ WithAck(page)[e] \in 0..MaxSlot
                    /\ WithAck(page)[e] = mapping[e] \/ <<e, WithAck(page)[e]>> \in page
                    /\ mapping[e] # 0 => WithAck(page)[e] # 0
  BY DEF WithAck
<1>1. CASE \E s \in Slots : Owns(e, s) /\ ~Skipped(<<e, s>>)
  <2>1. WithAck(page)[e] = CHOOSE s \in Slots : Owns(e, s)
    BY <1>1 DEF WithAck
  <2>2. WithAck(page)[e] \in Slots /\ Owns(e, WithAck(page)[e])
    BY <1>1, <2>1
  <2>3. WithAck(page)[e] \in 0..MaxSlot /\ WithAck(page)[e] # 0
    BY <2>2, SizeAssumption DEF Slots
  <2> QED
    BY <2>2, <2>3
<1>2. CASE ~\E s \in Slots : Owns(e, s) /\ ~Skipped(<<e, s>>)
  BY <1>2 DEF WithAck, TypeOK
<1> QED
  BY <1>1, <1>2

LEMMA AckOkKeeps ==
    ASSUME IInv, AckOk
    PROVE  IInv'
<1> USE DEF AckOk, reportVars, commandVars
<1>0. pending \in SUBSET Mapped /\ TypeOK
  BY DEF IInv, TypeOK
<1>1. state' \in {"PAGE_DELAY", "DONE"} /\ repeats' \in {repeats, repeats + 1}
  BY DEF EndOfPage
<1>2. TypeOK'
  <2>1. mapping' \in [Employees -> 0..MaxSlot]
    BY <1>0, AckIsTrue
  <2>2. repeats' \in Nat /\ cut' \in BOOLEAN
    BY <1>0, <1>1 DEF TypeOK
  <2> QED
    BY <1>0, <1>1, <2>1, <2>2, SizeAssumption, EmptyIsSmall DEF TypeOK
<1>3. Running' /\ PageInHand'
  BY <1>1, SizeAssumption DEF IInv, Running, PageInHand, Acknowledging
<1>4. PromisesKept'
  <2>1. ASSUME NEW p \in Promised' PROVE p \in Promised \/ sensor[p[2]] = p[1]
    <3>1. p \in Mapped
      BY DEF Promised
    <3>2. CASE mapping'[p[1]] = p[2]
      <4>1. mapping[p[1]] = p[2] \/ p \in pending
        <5>1. p = <<p[1], p[2]>> /\ p[1] \in Employees
          BY <3>1 DEF Mapped
        <5> QED
          BY <1>0, <3>2, <5>1, AckIsTrue
      <4> QED
        BY <3>1, <4>1 DEF Promised, IInv, PageInHand, Acknowledging
    <3>3. CASE mapping'[p[1]] # p[2]
      BY <3>1, <3>3 DEF Promised
    <3> QED
      BY <3>2, <3>3
  <2> QED
    BY <2>1, PromisesStay DEF IInv
<1>5. CopiesBound'
  <2>1. ASSUME NEW e \in Employees, Held(e), ~LeftOut PROVE mapping'[e] # 0
    <3>1. CASE mapping[e] # 0
      BY <1>0, <3>1, AckIsTrue
    <3>2. CASE \E s \in Slots : <<e, s>> \in pending
      BY <2>1, <3>2 DEF LeftOut
    <3> QED
      BY <2>1, <3>1, <3>2 DEF Held
  <2>2. \A e \in Employees : Held(e) /\ e \notin items =>
          \/ Held(e)' /\ e \notin items'
          \/ repeats' = repeats + 1
          \/ e \in removed' \ removed
    BY <2>1 DEF Held
  <2>3. \A e \in Employees : Copies(e)' <= Copies(e)
    BY SameCopies
  <2> QED
    BY <1>1, <1>2, <2>2, <2>3, BoundStays DEF IInv
<1> QED
  BY <1>2, <1>3, <1>4, <1>5 DEF IInv

\* What was stored for the page is still in the sensor when the page is
\* given up, so it may be booked later.
LEMMA AckFailsKeeps ==
    ASSUME IInv, AckFails
    PROVE  IInv'
<1> USE DEF AckFails, Fault, commandVars, pageVars
<1>1. /\ retryCount' \in 0..MaxRetries /\ state' \in {"FETCHING", "FAILED"}
      /\ state' = "FETCHING" => retryCount' < MaxRetries
  BY OneMoreFailure DEF IInv, Running
<1>2. repeats' \in Nat /\ faults' \in 0..MaxFaults
  BY SizeAssumption DEF IInv, TypeOK
<1>3. TypeOK'
  BY <1>1, <1>2 DEF IInv, TypeOK
<1>4. Running' /\ PageInHand'
  BY <1>1 DEF IInv, Running, PageInHand, Acknowledging
<1>5. PromisesKept'
  <2>1. \A p \in Promised' : p \in Promised \/ sensor[p[2]] = p[1]
    BY DEF Promised, IInv, PageInHand, Acknowledging
  <2> QED
    BY <2>1, PromisesStay DEF IInv
<1>6. CopiesBound'
  <2>1. \A e \in Employees : Copies(e)' <= Copies(e)
    BY SameCopies
  <2> QED
    BY <1>3, <2>1, BoundStays DEF IInv
<1> QED
  BY <1>3, <1>4, <1>5, <1>6 DEF IInv

LEMMA AckLandsKeeps ==
    ASSUME IInv, NEW page \in lateAcks, AckLands(page)
    PROVE  IInv'
<1>0. /\ TypeOK /\ page \in SUBSET Mapped
      /\ mapping' = WithAck(page) /\ lateAcks' = lateAcks \ {page}
      /\ UNCHANGED <<template, sensor, callbacks, late, commandVars, serviceVars, historyVars>>
  BY DEF IInv, TypeOK, AckLands
<1>1. TypeOK'
  BY <1>0, AckIsTrue DEF TypeOK, commandVars, serviceVars, historyVars, pageVars
<1>2. Running' /\ PageInHand'
  BY <1>0 DEF IInv, Running, PageInHand, Acknowledging, serviceVars
<1>3. PromisesKept'
  <2>1. ASSUME NEW p \in Promised' PROVE p \in Promised
    <3>1. p \in Mapped
      BY DEF Promised
    <3>2. CASE mapping'[p[1]] = p[2]
      <4>1. p = <<p[1], p[2]>> /\ p[1] \in Employees
        BY <3>1 DEF Mapped
      <4>2. mapping[p[1]] = p[2] \/ p \in page
        BY <1>0, <3>2, <4>1, AckIsTrue
      <4> QED
        BY <3>1, <4>2 DEF Promised
    <3>3. CASE mapping'[p[1]] # p[2]
      BY <1>0, <3>1, <3>3 DEF Promised
    <3> QED
      BY <3>2, <3>3
  <2> QED
    BY <1>0, <2>1, PromisesStay DEF IInv, historyVars
<1>4. CopiesBound'
  <2>1. \A e \in Employees : Held(e) /\ e \notin items => Held(e)' /\ e \notin items'
    BY <1>0, AckIsTrue DEF Held, Acknowledging, serviceVars
  <2>2. \A e \in Employees : Copies(e)' <= Copies(e)
    BY <1>0, SameCopies
  <2>3. syncs' = syncs /\ live' = live /\ removed' = removed /\ repeats' = repeats
    BY <1>0 DEF commandVars, historyVars
  <2> QED
    BY <1>1, <2>1, <2>2, <2>3, BoundStays DEF IInv
<1> QED
  BY <1>1, <1>2, <1>3, <1>4 DEF IInv

LEMMA PageDelayOverKeeps ==
    ASSUME IInv, PageDelayOver
    PROVE  IInv'
<1> USE DEF PageDelayOver, historyVars, reportVars, commandVars, pageVars
<1>1. TypeOK'
  BY DEF IInv, TypeOK
<1>2. Running' /\ PageInHand'
  BY DEF IInv, Running, PageInHand, Acknowledging
<1>3. \A e \in Employees : Held(e) /\ e \notin items => Held(e)' /\ e \notin items'
  BY DEF Held, Acknowledging
<1>4. PromisesKept' /\ CopiesBound'
  BY <1>1, <1>3, ServiceStep
<1> QED
  BY <1>1, <1>2, <1>4 DEF IInv

\* The SYNC that is sent is paid for by the enrolment.
LEMMA EnrollElsewhereKeeps ==
    ASSUME IInv, NEW e \in Employees, EnrollElsewhere(e)
    PROVE  IInv'
<1> USE DEF EnrollElsewhere, reportVars, serviceVars, pageVars
<1>1. TypeOK'
  BY DEF IInv, TypeOK
<1>2. Running' /\ PageInHand'
  BY DEF IInv, Running, PageInHand, Acknowledging
<1>3. PromisesKept'
  BY SamePromises, PromisesStay DEF IInv
<1>4. CopiesBound'
  <2> SUFFICES ASSUME NEW o \in Employees
               PROVE  Copies(o)' + One(syncs', o)
                        <= First(o)' + repeats' + One(live', o) + One(removed', o)
    BY DEF CopiesBound
  <2>1. Copies(o) + One(syncs, o) <= First(o) + repeats + One(live, o) + One(removed, o)
    BY DEF IInv, CopiesBound
  <2>2. Copies(o)' = Copies(o) /\ First(o)' = First(o)
    BY DEF Copies, First, Held, Acknowledging
  <2>3. removed' = removed /\ repeats' = repeats
    OBVIOUS
  <2>4. repeats \in Nat /\ Copies(o) \in Nat /\ First(o) \in 0..1 /\ One(removed, o) \in 0..1
    BY CopiesType, SmallNumbers DEF IInv, TypeOK
  <2>5. One(syncs, o) \in 0..1 /\ One(syncs', o) \in 0..1 /\ One(live, o) \in 0..1
    BY DEF One
  <2>6. CASE o = e
    <3>1. One(live, o) = 0 /\ One(live', o) = 1
      BY <2>6 DEF One
    <3> QED
      BY <2>1, <2>2, <2>3, <2>4, <2>5, <3>1
  <2>7. CASE o # e
    <3>1. One(live', o) = One(live, o) /\ One(syncs', o) = One(syncs, o)
      BY <2>7 DEF One
    <3> QED
      BY <2>1, <2>2, <2>3, <2>4, <2>5, <3>1
  <2> QED
    BY <2>6, <2>7
<1> QED
  BY <1>1, <1>2, <1>3, <1>4 DEF IInv

\* What a SYNC does to the sensor, between two ticks.
LEMMA SyncIsStored ==
    ASSUME IInv, NEW e \in Employees, StoreSync(e),
           UNCHANGED <<mapping, late, lateAcks, orphaned>>
    PROVE  /\ sensor' \in [Slots -> Employees \cup {NoOne}]
           /\ callbacks' \subseteq Mapped
           /\ Copies(e)' \in {Copies(e), Copies(e) + 1}
           /\ \A o \in Employees \ {e} : Copies(o)' = Copies(o)
           /\ PromisesKept'
<1>0. TypeOK
  BY DEF IInv
<1>1. CASE FreeSlots = {}
  <2>1. sensor' = sensor /\ callbacks' = callbacks
    BY <1>1 DEF StoreSync
  <2>2. PromisesKept'
    BY <2>1, SamePromises, PromisesStay DEF IInv
  <2>3. \A o \in Employees : Copies(o)' = Copies(o)
    BY <2>1 DEF Copies
  <2> QED
    BY <1>0, <2>1, <2>2, <2>3 DEF TypeOK
<1>2. CASE FreeSlots # {}
  <2>1. PICK s : s = Least(FreeSlots)
    OBVIOUS
  <2>2. sensor' = [sensor EXCEPT ![s] = e] /\ callbacks' = callbacks \cup {<<e, s>>}
    BY <1>2, <2>1 DEF StoreSync
  <2>3. s \in Slots /\ sensor[s] = NoOne
    BY <1>0, <1>2, <2>1, FreeSlotIsFree
  <2>4. /\ sensor' \in [Slots -> Employees \cup {NoOne}]
        /\ Copies(e)' = Copies(e) + 1
        /\ \A o \in Employees \ {e} : Copies(o)' = Copies(o)
    BY <1>0, <2>2, <2>3, StoredOnce
  <2>5. callbacks' \subseteq Mapped
    BY <1>0, <2>2, <2>3 DEF TypeOK, Mapped
  <2>6. \A p \in Promised' : p \in Promised \/ p = <<e, s>>
    BY <2>2 DEF Promised
  <2>7. PromisesKept'
    BY <1>0, <2>2, <2>3, <2>6, PromisesSurviveStore DEF IInv
  <2> QED
    BY <2>4, <2>5, <2>7
<1> QED
  BY <1>1, <1>2

LEMMA SyncArrivesKeeps ==
    ASSUME IInv, NEW e \in Employees, SyncArrives(e)
    PROVE  IInv'
<1>1. /\ step = "fetch" /\ StoreSync(e) /\ e \in syncs /\ syncs' = syncs \ {e}
      /\ UNCHANGED <<template, mapping, late, lateAcks, deletes, serviceVars, historyVars>>
  BY DEF SyncArrives, BetweenTicks
<1>2. /\ sensor' \in [Slots -> Employees \cup {NoOne}]
      /\ callbacks' \subseteq Mapped
      /\ Copies(e)' \in {Copies(e), Copies(e) + 1}
      /\ \A o \in Employees \ {e} : Copies(o)' = Copies(o)
      /\ PromisesKept'
  BY <1>1, SyncIsStored DEF historyVars
<1>3. TypeOK'
  BY <1>1, <1>2 DEF IInv, TypeOK, serviceVars, historyVars, pageVars
<1>4. Running' /\ PageInHand'
  BY <1>1 DEF IInv, Running, PageInHand, Acknowledging, serviceVars
<1>5. CopiesBound'
  <2> SUFFICES ASSUME NEW o \in Employees
               PROVE  Copies(o)' + One(syncs', o)
                        <= First(o)' + repeats' + One(live', o) + One(removed', o)
    BY DEF CopiesBound
  <2>1. Copies(o) + One(syncs, o) <= First(o) + repeats + One(live, o) + One(removed, o)
    BY DEF IInv, CopiesBound
  <2>2. First(o)' = First(o) /\ repeats' = repeats /\ live' = live /\ removed' = removed
    BY <1>1 DEF First, Held, Acknowledging, serviceVars, historyVars
  <2>3. repeats \in Nat /\ Copies(o) \in Nat /\ First(o) \in 0..1
    BY CopiesType, SmallNumbers DEF IInv, TypeOK
  <2>4. One(live, o) \in 0..1 /\ One(removed, o) \in 0..1 /\ One(syncs, o) \in 0..1
    BY DEF One
  <2>5. CASE o = e
    <3>1. One(syncs, o) = 1 /\ One(syncs', o) = 0
      BY <1>1, <2>5 DEF One
    <3>2. Copies(o)' \in {Copies(o), Copies(o) + 1}
      BY <1>2, <2>5
    <3> QED
      BY <2>1, <2>2, <2>3, <2>4, <3>1, <3>2
  <2>6. CASE o # e
    <3>1. One(syncs', o) = One(syncs, o) /\ Copies(o)' = Copies(o)
      BY <1>1, <1>2, <2>6 DEF One
    <3> QED
      BY <2>1, <2>2, <2>3, <2>4, <3>1
  <2> QED
    BY <2>5, <2>6
<1> QED
  BY <1>2, <1>3, <1>4, <1>5 DEF IInv

LEMMA SyncRepeatsKeeps ==
    ASSUME IInv, NEW e \in Employees, SyncRepeats(e)
    PROVE  IInv'
<1>1. /\ step = "fetch" /\ StoreSync(e) /\ repeats' = repeats + 1
      /\ faults < MaxFaults /\ faults' = faults + 1
      /\ UNCHANGED <<template, mapping, late, lateAcks, commandVars, serviceVars>>
      /\ UNCHANGED <<starts, live, removed, orphaned, pageVars>>
  BY DEF SyncRepeats, BetweenTicks, Fault
<1>2. /\ sensor' \in [Slots -> Employees \cup {NoOne}]
      /\ callbacks' \subseteq Mapped
      /\ Copies(e)' \in {Copies(e), Copies(e) + 1}
      /\ \A o \in Employees \ {e} : Copies(o)' = Copies(o)
      /\ PromisesKept'
  BY <1>1, SyncIsStored
<1>3. TypeOK'
  <2>1. faults' \in 0..MaxFaults /\ repeats' \in Nat
    BY <1>1, SizeAssumption DEF IInv, TypeOK
  <2> QED
    BY <1>1, <1>2, <2>1 DEF IInv, TypeOK, serviceVars, commandVars, pageVars
<1>4. Running' /\ PageInHand'
  BY <1>1 DEF IInv, Running, PageInHand, Acknowledging, serviceVars
<1>5. CopiesBound'
  <2> SUFFICES ASSUME NEW o \in Employees
               PROVE  Copies(o)' + One(syncs', o)
                        <= First(o)' + repeats' + One(live', o) + One(removed', o)
    BY DEF CopiesBound
  <2>1. Copies(o) + One(syncs, o) <= First(o) + repeats + One(live, o) + One(removed, o)
    BY DEF IInv, CopiesBound
  <2>2. First(o)' = First(o) /\ live' = live /\ removed' = removed /\ syncs' = syncs
    BY <1>1 DEF First, Held, Acknowledging, serviceVars, commandVars
  <2>3. repeats \in Nat /\ Copies(o) \in Nat /\ First(o) \in 0..1
    BY CopiesType, SmallNumbers DEF IInv, TypeOK
  <2>4. One(live, o) \in 0..1 /\ One(removed, o) \in 0..1 /\ One(syncs, o) \in 0..1
    BY DEF One
  <2>5. Copies(o)' \in {Copies(o), Copies(o) + 1}
    BY <1>2
  <2> QED
    BY <1>1, <2>1, <2>2, <2>3, <2>4, <2>5
<1> QED
  BY <1>2, <1>3, <1>4, <1>5 DEF IInv

\* A report makes a row for what was promised already, or nothing.
LEMMA UpsertKeeps ==
    ASSUME IInv, NEW e \in Employees, NEW s \in Slots, Upsert(e, s), <<e, s>> \in Promised,
           callbacks' \subseteq callbacks, late' \subseteq late,
           UNCHANGED <<template, sensor, lateAcks, commandVars, serviceVars, historyVars>>
    PROVE  IInv'
<1>1. /\ mapping' \in [Employees -> 0..MaxSlot]
      /\ \A o \in Employees : mapping'[o] = mapping[o] \/ (o = e /\ mapping'[o] = s)
  <2>1. CASE SlotTaken(e, s)
    BY <2>1 DEF Upsert, IInv, TypeOK
  <2>2. CASE ~SlotTaken(e, s)
    BY <2>2, SlotsAreNumbers DEF Upsert, IInv, TypeOK
  <2> QED
    BY <2>1, <2>2
<1>2. TypeOK'
  BY <1>1 DEF IInv, TypeOK, commandVars, serviceVars, historyVars, pageVars
<1>3. Running' /\ PageInHand'
  BY DEF IInv, Running, PageInHand, Acknowledging, serviceVars
<1>4. PromisesKept'
  <2>1. ASSUME NEW p \in Promised' PROVE p \in Promised
    <3>1. p \in Mapped /\ p = <<p[1], p[2]>> /\ p[1] \in Employees
      BY DEF Promised, Mapped
    <3>2. CASE mapping'[p[1]] = p[2]
      BY <1>1, <3>1, <3>2 DEF Promised
    <3>3. CASE mapping'[p[1]] # p[2]
      BY <3>1, <3>3 DEF Promised
    <3> QED
      BY <3>2, <3>3
  <2> QED
    BY <2>1, PromisesStay DEF IInv, historyVars
<1>5. CopiesBound'
  <2>1. \A o \in Employees : Held(o) /\ o \notin items => Held(o)' /\ o \notin items'
    BY <1>1, SlotsAreNumbers DEF Held, Acknowledging, serviceVars
  <2>2. \A o \in Employees : Copies(o)' <= Copies(o)
    BY SameCopies
  <2>3. syncs' = syncs /\ live' = live /\ removed' = removed /\ repeats' = repeats
    BY DEF commandVars, historyVars
  <2> QED
    BY <1>2, <2>1, <2>2, <2>3, BoundStays DEF IInv
<1> QED
  BY <1>2, <1>3, <1>4, <1>5 DEF IInv

LEMMA CallbackOkKeeps ==
    ASSUME IInv, NEW e \in Employees, NEW s \in Slots, CallbackOk(e, s)
    PROVE  IInv'
<1>1. <<e, s>> \in Promised
  BY DEF CallbackOk, Promised, Mapped
<1> QED
  BY <1>1, UpsertKeeps DEF CallbackOk

LEMMA CallbackLandsKeeps ==
    ASSUME IInv, NEW e \in Employees, NEW s \in Slots, CallbackLands(e, s)
    PROVE  IInv'
<1>1. <<e, s>> \in Promised
  BY DEF CallbackLands, Promised, Mapped
<1> QED
  BY <1>1, UpsertKeeps DEF CallbackLands

\* A slot is emptied between two ticks, with or without a fault.
LEMMA VacateKeeps ==
    ASSUME IInv, NEW s \in Slots, step = "fetch", Vacate(s),
           callbacks' \subseteq callbacks, late' \subseteq late \cup callbacks,
           deletes' \subseteq deletes, faults' \in {faults, faults + 1}, faults' <= MaxFaults,
           UNCHANGED <<template, mapping, lateAcks, syncs, serviceVars>>,
           UNCHANGED <<starts, repeats, live, removed, pageVars>>
    PROVE  IInv'
<1>0. TypeOK
  BY DEF IInv
<1>1. /\ sensor' \in [Slots -> Employees \cup {NoOne}] /\ orphaned' \subseteq Mapped
      /\ \A e \in Employees : Copies(e)' <= Copies(e)
  BY <1>0, VacateType
<1>2. TypeOK'
  <2>1. faults' \in 0..MaxFaults
    BY <1>0, SizeAssumption DEF TypeOK
  <2>2. callbacks' \subseteq Mapped /\ late' \subseteq Mapped /\ deletes' \subseteq Mapped
    BY <1>0 DEF TypeOK
  <2> QED
    BY <1>0, <1>1, <2>1, <2>2 DEF TypeOK, serviceVars, pageVars
<1>3. Running' /\ PageInHand'
  BY DEF IInv, Running, PageInHand, Acknowledging, serviceVars
<1>4. PromisesKept'
  <2>1. \A p \in Promised' : p \in Promised
    BY DEF Promised
  <2> QED
    BY <1>0, <2>1, PromisesSurviveVacate DEF IInv
<1>5. CopiesBound'
  <2>1. \A e \in Employees : Held(e) /\ e \notin items => Held(e)' /\ e \notin items'
    BY DEF Held, Acknowledging, serviceVars
  <2> QED
    BY <1>0, <1>1, <1>2, <2>1, BoundStays DEF IInv
<1> QED
  BY <1>2, <1>3, <1>4, <1>5 DEF IInv

LEMMA CallbackRefusedKeeps ==
    ASSUME IInv, NEW e \in Employees, NEW s \in Slots, CallbackRefused(e, s)
    PROVE  IInv'
<1>1. faults \in Nat /\ faults <= MaxFaults
  BY SizeAssumption DEF IInv, TypeOK
<1> QED
  BY <1>1, VacateKeeps DEF CallbackRefused, BetweenTicks, commandVars

LEMMA DeleteArrivesKeeps ==
    ASSUME IInv, NEW e \in Employees, NEW s \in Slots, DeleteArrives(e, s)
    PROVE  IInv'
<1>1. faults \in Nat /\ faults <= MaxFaults
  BY SizeAssumption DEF IInv, TypeOK
<1> QED
  BY <1>1, VacateKeeps DEF DeleteArrives, BetweenTicks, reportVars

LEMMA DeleteRepeatsKeeps ==
    ASSUME IInv, NEW e \in Employees, NEW s \in Slots, DeleteRepeats(e, s)
    PROVE  IInv'
<1>1. faults \in Nat /\ faults' = faults + 1 /\ faults' <= MaxFaults
  BY SizeAssumption DEF IInv, TypeOK, DeleteRepeats, Fault
<1> QED
  BY <1>1, VacateKeeps DEF DeleteRepeats, BetweenTicks, reportVars, commandVars

LEMMA CallbackUnansweredKeeps ==
    ASSUME IInv, NEW e \in Employees, NEW s \in Slots, CallbackUnanswered(e, s)
    PROVE  IInv'
<1>1. faults \in Nat /\ faults' = faults + 1 /\ faults' <= MaxFaults
  BY SizeAssumption DEF IInv, TypeOK, CallbackUnanswered, Fault
<1>2. CASE Vacate(s) /\ callbacks' = callbacks \ {<<e, s>>}
  BY <1>1, <1>2, VacateKeeps DEF CallbackUnanswered, BetweenTicks, commandVars
<1>3. CASE UNCHANGED <<callbacks, sensor, orphaned>>
  <2>1. /\ step = "fetch" /\ late' = late \cup {<<e, s>>} /\ <<e, s>> \in callbacks
        /\ UNCHANGED <<template, mapping, lateAcks, commandVars, serviceVars>>
        /\ UNCHANGED <<starts, repeats, live, removed, pageVars>>
    BY DEF CallbackUnanswered, BetweenTicks
  <2>2. TypeOK'
    <3>1. faults' \in 0..MaxFaults /\ late' \subseteq Mapped
      BY <1>1, <2>1, SizeAssumption DEF IInv, TypeOK
    <3> QED
      BY <1>3, <2>1, <3>1 DEF IInv, TypeOK, commandVars, serviceVars, pageVars
  <2>3. Running' /\ PageInHand'
    BY <1>3, <2>1 DEF IInv, Running, PageInHand, Acknowledging, serviceVars
  <2>4. PromisesKept'
    <3>1. \A p \in Promised' : p \in Promised
      BY <1>3, <2>1 DEF Promised
    <3> QED
      BY <1>3, <3>1, PromisesStay DEF IInv
  <2>5. CopiesBound'
    <3>1. \A o \in Employees : Held(o) /\ o \notin items => Held(o)' /\ o \notin items'
      BY <2>1 DEF Held, Acknowledging, serviceVars
    <3>2. \A o \in Employees : Copies(o)' <= Copies(o)
      BY <1>3, SameCopies
    <3>3. syncs' = syncs
      BY <2>1 DEF commandVars
    <3> QED
      BY <2>1, <2>2, <3>1, <3>2, <3>3, BoundStays DEF IInv
  <2> QED
    BY <2>2, <2>3, <2>4, <2>5 DEF IInv
<1> QED
  BY <1>2, <1>3 DEF CallbackUnanswered

\* A removal takes a row away and explains the copy that stays.
LEMMA RemoveFingerprintKeeps ==
    ASSUME IInv, NEW e \in Employees, RemoveFingerprint(e)
    PROVE  IInv'
<1>1. /\ e \notin removed /\ removed' = removed \cup {e}
      /\ template' = template \ {e} /\ mapping' = [mapping EXCEPT ![e] = 0]
      /\ deletes' = IF mapping[e] = 0 THEN deletes ELSE deletes \cup {<<e, mapping[e]>>}
      /\ owed' = owed \ {e}
      /\ UNCHANGED <<sensor, reportVars, syncs, serviceVars, starts, faults>>
      /\ UNCHANGED <<repeats, live, orphaned, left, cut>>
  BY DEF RemoveFingerprint
<1>2. \A o \in Employees : mapping'[o] = IF o = e THEN 0 ELSE mapping[o]
  BY <1>1 DEF IInv, TypeOK
<1>3. TypeOK'
  <2>1. mapping' \in [Employees -> 0..MaxSlot]
    BY <1>1, SizeAssumption DEF IInv, TypeOK
  <2>2. deletes' \subseteq Mapped
    BY <1>1, SizeAssumption DEF IInv, TypeOK, Mapped, Slots
  <2>3. template' \subseteq Employees /\ removed' \subseteq Employees /\ owed' \subseteq Employees
    BY <1>1 DEF IInv, TypeOK
  <2> QED
    BY <1>1, <2>1, <2>2, <2>3 DEF IInv, TypeOK, reportVars, serviceVars
<1>4. Running' /\ PageInHand'
  BY <1>1 DEF IInv, Running, PageInHand, Acknowledging, serviceVars
<1>5. PromisesKept'
  <2>1. ASSUME NEW p \in Promised' PROVE p \in Promised
    <3>1. p \in Mapped /\ p[1] \in Employees /\ p[2] # 0
      BY SlotsAreNumbers DEF Promised, Mapped
    <3> QED
      BY <1>1, <1>2, <3>1 DEF Promised, reportVars
  <2> QED
    BY <1>1, <2>1, PromisesStay DEF IInv
<1>6. CopiesBound'
  <2>1. \A o \in Employees : Held(o) /\ o \notin items =>
          (Held(o)' /\ o \notin items') \/ o \in removed' \ removed
    BY <1>1, <1>2 DEF Held, Acknowledging, serviceVars
  <2>2. \A o \in Employees : Copies(o)' <= Copies(o)
    BY <1>1, SameCopies
  <2> QED
    BY <1>1, <1>3, <2>1, <2>2, BoundStays DEF IInv
<1> QED
  BY <1>3, <1>4, <1>5, <1>6 DEF IInv

-----------------------------------------------------------------------------
(* Rows and copies are explained. *)

LEMMA StutterKeeps ==
    ASSUME IInv, UNCHANGED vars
    PROVE  IInv'
<1> USE DEF vars, serviceVars, historyVars, reportVars, commandVars, pageVars
<1>1. TypeOK'
  BY DEF IInv, TypeOK
<1>2. Running' /\ PageInHand'
  BY DEF IInv, Running, PageInHand, Acknowledging
<1>3. \A e \in Employees : Held(e) /\ e \notin items => Held(e)' /\ e \notin items'
  BY DEF Held, Acknowledging
<1>4. PromisesKept' /\ CopiesBound'
  BY <1>1, <1>3, ServiceStep
<1> QED
  BY <1>1, <1>2, <1>4 DEF IInv

LEMMA NextKeeps ==
    ASSUME IInv, [Next]_vars
    PROVE  IInv'
<1>1. CASE StartSync
  BY <1>1, StartSyncKeeps
<1>2. CASE Tick
  BY <1>2, FetchPageKeeps, CountTotalKeeps, StoreItemKeeps, PageProcessedKeeps, AckOkKeeps,
     PageDelayOverKeeps DEF Tick
<1>3. CASE Faults
  BY <1>3, FetchFailsKeeps, SpoiltPageKeeps, StoreFailsKeeps, AckFailsKeeps DEF Faults
<1>4. CASE \E page \in lateAcks : AckLands(page)
  BY <1>4, AckLandsKeeps
<1>5. ASSUME NEW e \in Employees, LiveSync(e) PROVE IInv'
  BY <1>5, EnrollElsewhereKeeps, SyncArrivesKeeps, SyncRepeatsKeeps, CallbackOkKeeps,
     CallbackRefusedKeeps, CallbackUnansweredKeeps, CallbackLandsKeeps DEF LiveSync
<1>6. ASSUME NEW e \in Employees, Removal(e) PROVE IInv'
  BY <1>6, RemoveFingerprintKeeps, DeleteArrivesKeeps, DeleteRepeatsKeeps DEF Removal
<1>7. CASE UNCHANGED vars
  BY <1>7, StutterKeeps
<1> QED
  BY <1>1, <1>2, <1>3, <1>4, <1>5, <1>6, <1>7 DEF Next

LEMMA BoundsExplain ==
    ASSUME IInv
    PROVE  SlotsAreExplained
<1>1. CopiesAreExplained
  <2> SUFFICES ASSUME NEW e \in Employees
               PROVE  Copies(e) <= 1 + repeats + Cardinality(live \cap {e})
                                     + Cardinality(removed \cap {e})
    BY DEF CopiesAreExplained
  <2>1. Copies(e) + One(syncs, e) <= First(e) + repeats + One(live, e) + One(removed, e)
    BY DEF IInv, CopiesBound
  <2>2. /\ Cardinality(live \cap {e}) = One(live, e)
        /\ Cardinality(removed \cap {e}) = One(removed, e)
    BY LiveCount DEF One
  <2>3. /\ First(e) \in 0..1 /\ One(syncs, e) \in 0..1
        /\ One(live, e) \in 0..1 /\ One(removed, e) \in 0..1
    BY SmallNumbers
  <2>4. repeats \in Nat /\ Copies(e) \in Nat
    BY CopiesType DEF IInv, TypeOK
  <2> QED
    BY <2>1, <2>2, <2>3, <2>4
<1>2. MappingPointsAtOwnTemplate
  <2> SUFFICES ASSUME NEW e \in Employees, mapping[e] # 0
               PROVE  sensor[mapping[e]] = e \/ <<e, mapping[e]>> \in orphaned
    BY DEF MappingPointsAtOwnTemplate
  <2>1. mapping[e] \in Slots
    BY SizeAssumption DEF IInv, TypeOK, Slots
  <2>2. <<e, mapping[e]>> \in Promised
    BY <2>1 DEF Promised, Mapped
  <2> QED
    BY <2>2 DEF IInv, PromisesKept
<1> QED
  BY <1>1, <1>2 DEF IInv, SlotsAreExplained

\* Whatever is lost, late, repeated or removed, and however live syncs come in
\* between: a row of the terminal points at that employee's own template,
\* unless the terminal took it out while the row existed or was on its way,
\* and every copy beyond an employee's first is explained
\* (BulkSyncService::processPage, SyncMappingService::tick,
\* CredentialsService.upsertSyncMapping and ackBulkSync).
THEOREM SyncIsExplained == Spec => []SlotsAreExplained
<1>1. Init => IInv
  BY InitHolds
<1>2. IInv /\ [Next]_vars => IInv'
  BY NextKeeps
<1>3. IInv => SlotsAreExplained
  BY BoundsExplain
<1> QED
  BY <1>1, <1>2, <1>3, PTL DEF Spec

-----------------------------------------------------------------------------
(* What a sync that reports completion leaves out. *)

\* Who is still on the page, or stored for it and not acknowledged yet.
InHand == IF Acknowledging THEN items \cup {p[1] : p \in pending} ELSE {}

\* A page is whole or full when it is counted.  If the count says that it was
\* the last one, whoever was unmapped then is in hand, or there are no more
\* of them than left the page before the count.
PageIsCounted ==
    /\ owed \subseteq template
    /\ step = "count" => owed \subseteq items \/ Cardinality(items) = PageSize
    /\ state = "DONE" => ~hasMore
    /\ step = "ack" => cut \/ items = {}
    /\ (Acknowledging \/ state = "DONE") /\ ~hasMore /\ ~cut =>
         Cardinality(Missed \ InHand) <= Cardinality(left)

\* What is counted twice: the rest is no larger than what left the page.
LEMMA RestIsSmall ==
    ASSUME NEW U, IsFiniteSet(U), Cardinality(U) <= PageSize,
           NEW I, IsFiniteSet(I), Cardinality(I) = PageSize,
           NEW M \in SUBSET U
    PROVE  Cardinality(M \ I) <= Cardinality(I \ U)
<1> DEFINE A == M \ I
           B == I \cap U
           C == I \ U
<1>1. IsFiniteSet(A) /\ IsFiniteSet(B) /\ IsFiniteSet(C)
  <2>1. A \subseteq U /\ B \subseteq U /\ C \subseteq I
    OBVIOUS
  <2> QED
    BY <2>1, FS_Subset
<1>2. /\ Cardinality(A) \in Nat /\ Cardinality(B) \in Nat /\ Cardinality(C) \in Nat
      /\ Cardinality(U) \in Nat /\ Cardinality(A \cup B) \in Nat
  BY <1>1, FS_CardinalityType, FS_Union
<1>3. Cardinality(A \cup B) = Cardinality(A) + Cardinality(B)
  <2>1. A \cap B = {}
    OBVIOUS
  <2> HIDE DEF A, B
  <2> QED
    BY <1>1, <1>2, <2>1, FS_Union, EmptyIsSmall
<1>4. Cardinality(A \cup B) <= Cardinality(U)
  <2>1. A \cup B \subseteq U
    OBVIOUS
  <2> HIDE DEF A, B
  <2> QED
    BY <2>1, FS_Subset
<1>5. Cardinality(I) = Cardinality(B) + Cardinality(C)
  <2>1. B \cup C = I /\ B \cap C = {}
    OBVIOUS
  <2> HIDE DEF B, C
  <2> QED
    BY <1>1, <1>2, <2>1, FS_Union, EmptyIsSmall
<1> HIDE DEF A, B, C
<1>6. Cardinality(A) <= Cardinality(C)
  BY <1>2, <1>3, <1>4, <1>5, SizeAssumption
<1> QED
  BY <1>6 DEF A, C

\* Nobody new is missed: what is missed and not in hand only shrinks.
LEMMA MissedShrinks ==
    ASSUME TypeOK, PageIsCounted, left' = left, hasMore' = hasMore, cut' = cut,
           Acknowledging \/ state = "DONE",
           \A e \in Missed' : e \notin InHand' => e \in Missed /\ e \notin InHand
    PROVE  ~hasMore' /\ ~cut' => Cardinality(Missed' \ InHand') <= Cardinality(left')
<1> DEFINE old == Missed \ InHand
           new == Missed' \ InHand'
<1>1. new \subseteq old
  OBVIOUS
<1>2. IsFiniteSet(old)
  <2>1. old \subseteq Employees
    BY DEF Missed, TypeOK
  <2> HIDE DEF old
  <2> QED
    BY <2>1, EmployeesAssumption, FS_Subset
<1>3. IsFiniteSet(left)
  BY EmployeesAssumption, FS_Subset DEF TypeOK
<1>4. /\ Cardinality(new) <= Cardinality(old)
      /\ Cardinality(new) \in Nat /\ Cardinality(old) \in Nat /\ Cardinality(left) \in Nat
  <2> HIDE DEF old, new
  <2>1. IsFiniteSet(new) /\ Cardinality(new) <= Cardinality(old)
    BY <1>1, <1>2, FS_Subset
  <2> QED
    BY <1>2, <1>3, <2>1, FS_CardinalityType
<1>5. ~hasMore /\ ~cut => Cardinality(old) <= Cardinality(left)
  BY DEF PageIsCounted
<1> HIDE DEF old, new
<1>6. ~hasMore /\ ~cut => Cardinality(new) <= Cardinality(left)
  BY <1>4, <1>5
<1> QED
  BY <1>6 DEF new

\* Steps outside the service: rows appear, and vanish only with a removal.
LEMMA OthersKeepCount ==
    ASSUME IInv, PageIsCounted, UNCHANGED <<serviceVars, left, cut>>,
           owed' \subseteq owed, owed' \subseteq template',
           \A e \in owed' : mapping[e] # 0 => mapping'[e] # 0
    PROVE  PageIsCounted'
<1>1. InHand' = InHand /\ (Acknowledging <=> Acknowledging')
  BY DEF InHand, Acknowledging, serviceVars
<1>2. \A e \in Missed' : e \notin InHand' => e \in Missed /\ e \notin InHand
  BY <1>1 DEF Missed
<1>3. (Acknowledging \/ state = "DONE") =>
        (~hasMore' /\ ~cut' => Cardinality(Missed' \ InHand') <= Cardinality(left'))
  BY <1>2, MissedShrinks DEF IInv, serviceVars
<1> QED
  BY <1>1, <1>3 DEF PageIsCounted, serviceVars

LEMMA PageIsCountedKeeps ==
    ASSUME IInv, PageIsCounted, [Next]_vars
    PROVE  PageIsCounted'
<1>0. TypeOK /\ (step # "fetch" => state = "FETCHING")
  BY DEF IInv, Running
<1>1. CASE StartSync
  BY <1>1 DEF StartSync, BetweenTicks, PageIsCounted, Acknowledging, pageVars
<1>2. CASE FetchPage
  <2>1. /\ step' = "count" /\ state' = "FETCHING" /\ owed' = Unmapped /\ items' = FirstPage
        /\ template' = template
    BY <1>2 DEF FetchPage
  <2> QED
    BY <1>0, <2>1, PageIsFull DEF PageIsCounted, Acknowledging, Unmapped
<1>3. CASE CountTotal
  <2>1. /\ step = "count" /\ step' = "process" /\ state' = "FETCHING" /\ items' = items
        /\ hasMore' = MoreThanPage(Cardinality(Unmapped)) /\ pending' = {}
        /\ left' = items \ Unmapped /\ owed' = owed /\ mapping' = mapping /\ template' = template
    BY <1>0, <1>3 DEF CountTotal
  <2>2. Missed' = Missed /\ InHand' = items
    BY <2>1 DEF Missed, InHand, Acknowledging
  <2>3. Missed \subseteq Unmapped
    BY DEF Missed, Unmapped, PageIsCounted
  <2>4. IsFiniteSet(Unmapped) /\ IsFiniteSet(items)
    BY <1>0, HandIsFinite, EmployeesAssumption, FS_Subset DEF Unmapped, TypeOK
  <2>5. ASSUME ~hasMore' PROVE Cardinality(Missed \ items) <= Cardinality(items \ Unmapped)
    <3>1. Cardinality(Unmapped) <= PageSize
      <4>1. Cardinality(Unmapped) \in Nat
        BY <2>4, FS_CardinalityType
      <4>2. ~MoreThanPage(Cardinality(Unmapped))
        BY <2>1, <2>5
      <4> QED
        BY <4>1, <4>2, SizeAssumption DEF MoreThanPage
    <3>2. CASE owed \subseteq items
      <4>1. Missed \ items = {}
        BY <3>2 DEF Missed
      <4>2. Cardinality(items \ Unmapped) \in Nat
        BY <2>4, FS_Difference, FS_CardinalityType
      <4> QED
        BY <4>1, <4>2, EmptyIsSmall
    <3>3. CASE Cardinality(items) = PageSize
      BY <2>3, <2>4, <3>1, <3>3, RestIsSmall
    <3> QED
      BY <2>1, <3>2, <3>3 DEF PageIsCounted
  <2> QED
    BY <2>1, <2>2, <2>5 DEF PageIsCounted
<1>4. CASE StoreItem
  <2>1. PICK e, s : e = Least(items) /\ s = Least(FreeSlots)
    OBVIOUS
  <2>2. /\ step = "process" /\ step' = "process" /\ state' = state /\ hasMore' = hasMore
        /\ items' = items \ {e} /\ pending' = pending \cup {<<e, s>>}
        /\ UNCHANGED <<mapping, template, owed, left, cut>>
    BY <1>4, <2>1 DEF StoreItem, UsableSlots, historyVars, pageVars
  <2>3. <<e, s>> \in pending' /\ <<e, s>>[1] = e
    BY <2>2
  <2>4. InHand \subseteq InHand' /\ Acknowledging
    BY <2>2, <2>3 DEF InHand, Acknowledging
  <2>5. \A o \in Missed' : o \notin InHand' => o \in Missed /\ o \notin InHand
    BY <2>2, <2>4 DEF Missed
  <2>6. ~hasMore' /\ ~cut' => Cardinality(Missed' \ InHand') <= Cardinality(left')
    BY <1>0, <2>2, <2>4, <2>5, MissedShrinks
  <2> QED
    BY <1>0, <2>2, <2>6 DEF PageIsCounted
<1>5. CASE PageProcessed
  <2>1. /\ step = "process" /\ items' = {} /\ cut' = (cut \/ items # {})
        /\ UNCHANGED <<mapping, template, owed, left, pending, hasMore>>
        /\ step' = "ack" \/ (step' = "fetch" /\ pending = {})
        /\ state' = "DONE" => ~hasMore
    BY <1>0, <1>5 DEF PageProcessed, EndOfPage
  <2>2. CASE items = {}
    <3>1. InHand' = InHand /\ Missed' = Missed /\ cut' = cut
      <4>1. InHand' = {p[1] : p \in pending}
        <5>1. CASE step' = "ack"
          BY <2>1, <5>1 DEF InHand, Acknowledging
        <5>2. CASE step' = "fetch" /\ pending = {}
          BY <2>1, <5>2 DEF InHand, Acknowledging
        <5> QED
          BY <2>1, <5>1, <5>2
      <4>2. InHand = {p[1] : p \in pending}
        BY <2>1, <2>2 DEF InHand, Acknowledging
      <4>3. cut' = cut
        BY <1>0, <2>1, <2>2 DEF TypeOK
      <4> QED
        BY <2>1, <4>1, <4>2, <4>3 DEF Missed
    <3>2. ~hasMore' /\ ~cut' => Cardinality(Missed' \ InHand') <= Cardinality(left')
      BY <2>1, <3>1 DEF PageIsCounted, Acknowledging
    <3> QED
      BY <2>1, <3>2 DEF PageIsCounted
  <2>3. CASE items # {}
    BY <2>1, <2>3 DEF PageIsCounted
  <2> QED
    BY <2>2, <2>3
<1>6. CASE AckOk
  <2>1. /\ step = "ack" /\ step' = "fetch" /\ mapping' = WithAck(pending)
        /\ UNCHANGED <<template, owed, left, hasMore>> /\ cut' = (cut \/ LeftOut)
        /\ state' = "DONE" => ~hasMore
    BY <1>6 DEF AckOk, EndOfPage
  <2>2. pending \in SUBSET Mapped /\ owed \subseteq Employees
    BY <1>0 DEF TypeOK
  <2>3. CASE LeftOut \/ cut
    BY <2>1, <2>3 DEF PageIsCounted, Acknowledging
  <2>4. CASE ~LeftOut /\ ~cut
    <3>1. items = {} /\ InHand' = {}
      BY <2>1, <2>4 DEF PageIsCounted, InHand, Acknowledging
    <3>2. ASSUME NEW o \in Missed' PROVE o \in Missed /\ o \notin InHand
      <4>1. o \in Employees /\ mapping'[o] = 0 /\ o \in owed
        BY <2>1, <2>2, <3>2 DEF Missed
      <4>2. mapping[o] = 0
        BY <1>0, <2>1, <2>2, <4>1, AckIsTrue
      <4>3. o \notin {p[1] : p \in pending}
        BY <2>1, <2>4, <4>1 DEF LeftOut
      <4> QED
        BY <2>1, <3>1, <4>1, <4>2, <4>3 DEF Missed, InHand, Acknowledging
    <3>3. ~hasMore' /\ ~cut' => Cardinality(Missed' \ InHand') <= Cardinality(left')
      <4>1. Acknowledging /\ cut' = cut
        BY <1>0, <2>1, <2>4 DEF Acknowledging, TypeOK
      <4>2. \A o \in Missed' : o \notin InHand' => o \in Missed /\ o \notin InHand
        BY <3>2
      <4> QED
        BY <1>0, <2>1, <4>1, <4>2, MissedShrinks
    <3> QED
      BY <2>1, <3>3 DEF PageIsCounted
  <2> QED
    BY <2>3, <2>4
<1>7. CASE PageDelayOver
  BY <1>0, <1>7 DEF PageDelayOver, PageIsCounted, Acknowledging, historyVars, pageVars
<1>8. CASE FetchFails
  <2>1. /\ step' = "fetch" /\ state' \in {"FETCHING", "FAILED"}
        /\ UNCHANGED <<template, owed>>
    BY <1>8 DEF FetchFails, AfterFailure, pageVars
  <2> QED
    BY <2>1 DEF PageIsCounted, Acknowledging
<1>9. CASE SpoiltPage
  <2>1. step' = "fetch" /\ cut' /\ ~hasMore' /\ UNCHANGED <<template, owed>>
    BY <1>9 DEF SpoiltPage
  <2> QED
    BY <2>1 DEF PageIsCounted
<1>10. CASE StoreFails
  <2>1. /\ step = "process" /\ step' = "process" /\ state' = state /\ cut'
        /\ UNCHANGED <<template, owed>>
    BY <1>10 DEF StoreFails
  <2> QED
    BY <1>0, <2>1 DEF PageIsCounted
<1>11. CASE AckFails
  <2>1. /\ step' = "fetch" /\ state' \in {"FETCHING", "FAILED"}
        /\ UNCHANGED <<template, owed>>
    BY <1>11 DEF AckFails, AfterFailure, pageVars
  <2> QED
    BY <2>1 DEF PageIsCounted, Acknowledging
<1>12. ASSUME UNCHANGED <<serviceVars, left, cut, owed>>, template \subseteq template',
              \A e \in Employees : mapping[e] # 0 => mapping'[e] # 0
       PROVE  PageIsCounted'
  <2>1. owed' \subseteq owed /\ owed' \subseteq template' /\ owed' \subseteq Employees
    BY <1>0, <1>12 DEF PageIsCounted, TypeOK
  <2> QED
    BY <1>12, <2>1, OthersKeepCount
<1>13. ASSUME NEW page \in lateAcks, AckLands(page) PROVE PageIsCounted'
  <2>1. \A e \in Employees : mapping[e] # 0 => mapping'[e] # 0
    BY <1>0, <1>13, AckIsTrue DEF AckLands, TypeOK
  <2> QED
    BY <1>12, <1>13, <2>1 DEF AckLands, historyVars, pageVars
<1>14. ASSUME NEW e \in Employees, EnrollElsewhere(e) \/ SyncArrives(e) \/ SyncRepeats(e)
       PROVE  PageIsCounted'
  BY <1>12, <1>14 DEF EnrollElsewhere, SyncArrives, SyncRepeats, historyVars, pageVars
<1>15. ASSUME NEW e \in Employees, NEW s \in Slots, CallbackOk(e, s) \/ CallbackLands(e, s)
       PROVE  PageIsCounted'
  <2>1. \A o \in Employees : mapping[o] # 0 => mapping'[o] # 0
    <3>1. Upsert(e, s)
      BY <1>15 DEF CallbackOk, CallbackLands
    <3> QED
      BY <1>0, <3>1, SlotsAreNumbers DEF Upsert, TypeOK
  <2> QED
    BY <1>12, <1>15, <2>1 DEF CallbackOk, CallbackLands, historyVars, pageVars
<1>16. ASSUME NEW e \in Employees, NEW s \in Slots,
              \/ CallbackRefused(e, s) \/ CallbackUnanswered(e, s)
              \/ DeleteArrives(e, s) \/ DeleteRepeats(e, s)
       PROVE  PageIsCounted'
  BY <1>12, <1>16
  DEF CallbackRefused, CallbackUnanswered, DeleteArrives, DeleteRepeats, pageVars
<1>17. ASSUME NEW e \in Employees, RemoveFingerprint(e) PROVE PageIsCounted'
  <2>1. /\ UNCHANGED <<serviceVars, left, cut>> /\ owed' = owed \ {e}
        /\ template' = template \ {e} /\ mapping' = [mapping EXCEPT ![e] = 0]
    BY <1>17 DEF RemoveFingerprint
  <2>2. \A o \in owed' : mapping[o] # 0 => mapping'[o] # 0
    BY <1>0, <2>1 DEF TypeOK
  <2>3. owed' \subseteq owed /\ owed' \subseteq template'
    BY <2>1 DEF PageIsCounted
  <2> QED
    BY <2>1, <2>2, <2>3, OthersKeepCount
<1>18. CASE UNCHANGED vars
  BY <1>12, <1>18 DEF vars, historyVars, pageVars
<1>19. CASE Tick
  BY <1>2, <1>3, <1>4, <1>5, <1>6, <1>7, <1>19 DEF Tick
<1>20. CASE Faults
  BY <1>8, <1>9, <1>10, <1>11, <1>20 DEF Faults
<1>21. ASSUME NEW e \in Employees, LiveSync(e) PROVE PageIsCounted'
  BY <1>14, <1>15, <1>16, <1>21 DEF LiveSync
<1>22. ASSUME NEW e \in Employees, Removal(e) PROVE PageIsCounted'
  BY <1>16, <1>17, <1>22 DEF Removal
<1> QED
  BY <1>1, <1>13, <1>18, <1>19, <1>20, <1>21, <1>22 DEF Next

\* A sync that says DONE, with its last page stored and booked whole, leaves
\* out no more of those who were unmapped when that page was read than left
\* it before the count (CredentialsService.getBulkSyncPage counts after it
\* reads): removals and late reports included, for every page size.
THEOREM CompletionIsReal == Spec => []DoneIsComplete
<1>1. Init => IInv /\ PageIsCounted
  BY InitHolds DEF Init, PageIsCounted, Acknowledging
<1>2. IInv /\ PageIsCounted /\ [Next]_vars => (IInv /\ PageIsCounted)'
  BY NextKeeps, PageIsCountedKeeps
<1>3. IInv /\ PageIsCounted => DoneIsComplete
  <2> SUFFICES ASSUME IInv, PageIsCounted, state = "DONE", ~cut
               PROVE  Cardinality(Missed) <= Cardinality(left)
    BY DEF DoneIsComplete
  <2>1. Missed \ InHand = Missed
    BY DEF IInv, Running, InHand, Acknowledging
  <2> QED
    BY <2>1 DEF PageIsCounted
<1> QED
  BY <1>1, <1>2, <1>3, PTL DEF Spec
=============================================================================
