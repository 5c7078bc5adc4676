----------------------------- MODULE ListPages -----------------------------
(***************************************************************************)
(* The pages of the web client that show a list of the backend: every page *)
(* loads it again when its filter or page number changes and after what it *)
(* has changed itself, with handlers that keep the values of the render    *)
(* they were made in, and without a way to cancel a load, so that answers  *)
(* may arrive in any order.  A page is one value of kind.                  *)
(*                                                                         *)
(* The page size is 1, the smallest the pages offer; rows are only counted *)
(* and every filter selects the same ones, each change having its stamp.   *)
(* "board" is DevicesPage while its list stays as it is and the terminals  *)
(* come and go during a load; in "devices" they stay and the list changes. *)
(***************************************************************************)
EXTENDS Connectivity

CONSTANTS
    Kinds,     \* the pages of an instance
    Searches,  \* search words
    Choices,   \* months, states or tabs to choose from
    MaxRows,   \* bound on the rows of the table
    MaxSteps,  \* bound on what users and faults do
    MaxFaults  \* the same bound for "board"

ASSUME KindsAssumption ==
    Kinds \subseteq {"employees", "credentials", "devices", "approvals", "requests", "log", "portal", "board"}
ASSUME PageBounds == MaxRows \in Nat \ {0} /\ MaxSteps \in Nat /\ MaxFaults \in 0..MaxSteps
ASSUME WordsAssumption == Searches # {} /\ Choices # {}

VARIABLES
    kind,
    query,    \* what the page asks for: word, choice and page number
    typed,    \* SearchInput: the word typed and whether its timer runs
    shown,    \* the rows on the screen, the query they answer, and why they
              \* may answer another one than the page's
    loading,
    fetch,    \* loads on their way, oldest first
    db,       \* the table: rows, and a stamp for every change
    job,      \* a change this page has asked for
    fresh,    \* history: the last change is one this page knows of
    calm,     \* history: nobody else has changed the table, no change has
              \* lost its answer, and no page was turned to that is there
              \* only by an outdated count; on DevicesPage changes were also
              \* made one at a time, each on a page at rest
    summary,  \* AttendanceLogPage: whose total is shown, and its calculation
    steps

pageVars == <<kind, query, typed, shown, loading, fetch, db, job, fresh, calm, summary, steps>>
vars == <<pageVars, conVars>>

Queries == [word : Searches, choice : Choices, page : 0..MaxRows]
Unread == MaxRows + 1
Fetches == [query : Queries, total : 0..Unread, items : {0, 1, Unread}, stamp : 0..MaxSteps,
            why : {"fits", "closure", "late"}, refresh : BOOLEAN,
            stage : {"list", "asked", "snapshot"}, snap : [Terminals -> Words]]
NoQuery == [word |-> "", choice |-> "", page |-> 0]
Jobs == [op : {"none", "edit", "create", "remove", "done"}, query : Queries \cup {NoQuery},
         items : {0, 1, Unread}, stamp : 0..MaxSteps]
NoJob == [op |-> "none", query |-> NoQuery, items |-> 0, stamp |-> 0]
Nobody == [t \in Terminals |-> "none"]

TypeOK ==
    /\ ConTypeOK
    /\ kind \in Kinds /\ query \in Queries
    /\ typed \in [word : Searches, armed : BOOLEAN]
    /\ shown \in [query : Queries \cup {NoQuery}, items : {0, 1}, total : 0..MaxRows,
                  stamp : 0..MaxSteps, why : {"none", "fits", "late", "closure", "failed"}]
    /\ loading \in BOOLEAN
    /\ fetch \in Seq(Fetches)
    /\ db \in [rows : 0..MaxRows, stamp : 0..MaxSteps]
    /\ job \in Jobs
    /\ fresh \in BOOLEAN /\ calm \in BOOLEAN
    /\ summary \in [of : Queries \cup {NoQuery}, asked : Queries \cup {NoQuery}, raced : BOOLEAN]
    /\ steps \in 0..MaxSteps

Step == steps < (IF kind = "board" THEN MaxFaults ELSE MaxSteps) /\ steps' = steps + 1

-----------------------------------------------------------------------------
(* The pages: what a user can change there, whether there is a search and if *)
(* it ignores a word that has not changed, what a failed load clears, and    *)
(* whether an effect cancels the load before.                                *)

EmployeesPage == [ops |-> {"create", "edit", "remove"}, search |-> "changed",
                  clears |-> "rows", cancels |-> FALSE]
CredentialsPage == [ops |-> {"edit"}, search |-> "changed", clears |-> "rows", cancels |-> FALSE]
DevicesPage == [ops |-> {"edit", "remove"}, search |-> "any", clears |-> "nothing", cancels |-> FALSE]
\* A decided request leaves the list of the pending ones.
ApprovalsPage == [ops |-> {"edit", "remove"}, search |-> "any", clears |-> "nothing", cancels |-> FALSE]
RequestsPage == [ops |-> {"create"}, search |-> "none", clears |-> "nothing", cancels |-> FALSE]
AttendanceLogPage == [ops |-> {}, search |-> "any", clears |-> "all", cancels |-> FALSE]
PortalDashboard == [ops |-> {}, search |-> "none", clears |-> "all", cancels |-> TRUE]
Board == [ops |-> {}, search |-> "none", clears |-> "nothing", cancels |-> FALSE]

Page == CASE kind = "employees" -> EmployeesPage [] kind = "credentials" -> CredentialsPage
          [] kind = "devices" -> DevicesPage     [] kind = "approvals" -> ApprovalsPage
          [] kind = "requests" -> RequestsPage   [] kind = "log" -> AttendanceLogPage
          [] kind = "portal" -> PortalDashboard  [] OTHER -> Board

-----------------------------------------------------------------------------
(* Loads. *)

NeverCancels == FALSE
Cancels == Page.cancels
\* A load of the values q while the page is at now.
Load(f, q, now) ==
    Append(IF Cancels THEN <<>> ELSE f,
           [query |-> q, total |-> Unread, items |-> Unread, stamp |-> 0,
            why |-> IF q = now THEN "fits" ELSE "closure", refresh |-> FALSE,
            stage |-> IF kind = "board" THEN "asked" ELSE "list", snap |-> Nobody])

\* The effect on page, limit and search: nothing when they stay the same.
Reload(f, now) == IF now = query THEN f ELSE Load(f, now, now)

Without(f, i) == SubSeq(f, 1, i - 1) \o SubSeq(f, i + 1, Len(f))
\* Loads sent before this one are late from now on.
Overtaken(f, i) == [j \in DOMAIN f |-> IF j < i THEN [f[j] EXCEPT !.why = "late"] ELSE f[j]]

\* Each statement sees the table of its moment.
CountRows(i) ==
    /\ fetch[i].total = Unread
    /\ fetch' = [fetch EXCEPT ![i].total = db.rows]
ReadRows(i) ==
    /\ fetch[i].items = Unread
    /\ fetch' = [fetch EXCEPT ![i].items = IF fetch[i].query.page < db.rows THEN 1 ELSE 0,
                              ![i].stamp = db.stamp]
InOrder(i) == CountRows(i) \/ (fetch[i].total # Unread /\ ReadRows(i))

\* The employees are counted and read side by side, the others one after the
\* other: a transaction, but of isolation level read committed.
FindAll(i) == kind = "employees" /\ (CountRows(i) \/ ReadRows(i))
FindUnassignedCredentials(i) == kind = "credentials" /\ (CountRows(i) \/ ReadRows(i))
FindForManager(i) == kind = "devices" /\ InOrder(i)
FindRequestsForManager(i) == kind = "approvals" /\ InOrder(i)
FindByEmployee(i) == kind = "requests" /\ InOrder(i)
ListAllEmployeeAttendance(i) == kind = "log" /\ InOrder(i)
ListForEmployee(i) == kind = "portal" /\ InOrder(i)

Serve(i) ==
    /\ fetch[i].stage = "list"
    /\ \/ FindAll(i) \/ FindUnassignedCredentials(i) \/ FindForManager(i)
       \/ FindRequestsForManager(i) \/ FindByEmployee(i)
       \/ ListAllEmployeeAttendance(i) \/ ListForEmployee(i)
    /\ UNCHANGED <<kind, query, typed, shown, loading, db, job, fresh, calm, summary, steps, conVars>>

Answered(i) == fetch[i].total # Unread /\ fetch[i].items # Unread /\ fetch[i].stage = "list"

OnDevices == kind \in {"devices", "board"}

\* The answer is shown whatever the page asks for by now, and the spinner
\* stops in a finally block, after a failure too.  loadDevices goes
\* on to the connectivity of the terminals.
Answer(i) ==
    /\ Answered(i)
    /\ shown' = [query |-> fetch[i].query, items |-> fetch[i].items, total |-> fetch[i].total,
                 stamp |-> fetch[i].stamp, why |-> fetch[i].why]
    /\ IF OnDevices
         THEN fetch' = Overtaken([fetch EXCEPT ![i].stage = "asked"], i) /\ UNCHANGED loading
         ELSE fetch' = Without(Overtaken(fetch, i), i) /\ loading' = FALSE
    /\ UNCHANGED <<kind, query, typed, db, job, fresh, calm, summary, steps, conVars>>

\* The finally block of a load; a return in its catch would skip it.
SpinnerStays == loading
Finally == FALSE

Fail(i) ==
    /\ Step /\ fetch[i].stage = "list"
    /\ shown' = [shown EXCEPT !.why = "failed",
                             !.items = IF Page.clears = "nothing" THEN @ ELSE 0,
                             !.total = IF Page.clears = "all" THEN 0 ELSE @]
    /\ fetch' = Without(Overtaken(fetch, i), i)
    /\ loading' = Finally
    /\ calm' = (calm /\ ~fetch[i].refresh)
    /\ UNCHANGED <<kind, query, typed, db, job, fresh, summary, conVars>>

\* getDeviceConnectivity, whose failure nobody is told of.
ReadSnapshot(i) ==
    /\ fetch[i].stage = "asked"
    /\ \/ fetch' = [fetch EXCEPT ![i].stage = "snapshot", ![i].snap = known] /\ UNCHANGED steps
       \/ fetch' = [fetch EXCEPT ![i].stage = "snapshot"] /\ Step
    /\ UNCHANGED <<kind, query, typed, shown, loading, db, job, fresh, calm, summary, conVars>>

\* The end of loadDevices, and of refreshAfterMutation behind it: a page that
\* has become empty is left for the one before, as its handler counted it.
LeavesEmptyPage(f) == f.refresh /\ f.items = 0 /\ f.query.page > 0
FinishDevices(i) ==
    /\ fetch[i].stage = "snapshot"
    /\ loading' = FALSE
    /\ query' = IF LeavesEmptyPage(fetch[i]) THEN [query EXCEPT !.page = fetch[i].query.page - 1] ELSE query
    /\ fetch' = Reload(Without(fetch, i), query')
    /\ IF fetch[i].items # 0 THEN MergeSnapshot(fetch[i].snap) ELSE UNCHANGED conVars
    /\ UNCHANGED <<kind, typed, shown, db, job, fresh, calm, summary, steps>>

-----------------------------------------------------------------------------
(* What the user asks for. *)

Searchable == Page.search # "none"

Init ==
    /\ ConInit
    /\ kind \in Kinds
    /\ LET w == CHOOSE x \in Searches : TRUE
           c == CHOOSE x \in Choices : TRUE
       IN  /\ query = [word |-> w, choice |-> c, page |-> 0]
           /\ typed = [word |-> w, armed |-> Searchable]
    /\ shown = [query |-> NoQuery, items |-> 0, total |-> 0, stamp |-> 0, why |-> "none"]
    /\ db \in [rows : 1..MaxRows, stamp : {0}]
    /\ fetch = Load(<<>>, query, query) /\ loading = TRUE
    /\ job = NoJob /\ fresh = FALSE /\ calm = TRUE
    /\ summary = [of |-> NoQuery, asked |-> NoQuery, raced |-> FALSE]
    /\ steps = 0

\* The state after the page's query has become q.
Ask(q) ==
    /\ query' = q
    /\ fetch' = Reload(fetch, q)
    /\ loading' = (loading \/ q # query)

Type(w) ==
    /\ Step /\ Searchable /\ w # typed.word
    /\ typed' = [word |-> w, armed |-> TRUE]
    /\ UNCHANGED <<kind, query, shown, loading, fetch, db, job, fresh, calm, summary, conVars>>

\* SearchInput's timer: employees and credentials ignore a word that has not
\* changed, the others return to the first page; the log drops its summary.
NoSummary == [summary EXCEPT !.of = NoQuery, !.raced = @ \/ summary.asked # NoQuery]
Debounced ==
    /\ typed.armed /\ typed' = [typed EXCEPT !.armed = FALSE]
    /\ Ask(IF Page.search = "changed" /\ typed.word = query.word THEN query
           ELSE [query EXCEPT !.word = typed.word, !.page = 0])
    /\ summary' = IF kind = "log" THEN NoSummary ELSE summary
    /\ UNCHANGED <<kind, shown, db, job, fresh, calm, steps, conVars>>

\* Another month, state, tab or page size.  AttendanceLogPage resets its page
\* number in an effect, and so loads the old page number first.
Choose(c) ==
    /\ Step /\ kind # "board" /\ c # query.choice
    /\ LET through == [query EXCEPT !.choice = c]
           first == [through EXCEPT !.page = 0]
       IN  /\ query' = first /\ loading' = TRUE
           /\ fetch' = IF kind = "log" /\ query.page # 0
                         THEN Load(Load(fetch, through, first), first, first)
                         ELSE Load(fetch, first, first)
    /\ summary' = IF kind = "log" THEN NoSummary ELSE summary
    /\ UNCHANGED <<kind, typed, shown, db, job, fresh, calm, conVars>>

TurnPage(p) ==
    /\ Step /\ Searchable
    /\ p # query.page /\ p < shown.total
    /\ Ask([query EXCEPT !.page = p])
    /\ calm' = (calm /\ p < db.rows /\ (kind = "devices" => job = NoJob))
    /\ UNCHANGED <<kind, typed, shown, db, job, fresh, summary, conVars>>

\* handleRefreshAfterEnroll.
RefreshList ==
    /\ Step /\ kind = "credentials"
    /\ fetch' = Load(fetch, query, query) /\ loading' = TRUE
    /\ UNCHANGED <<kind, query, typed, shown, db, job, fresh, calm, summary, conVars>>

-----------------------------------------------------------------------------
(* Changes. *)

\* A click on a row, which is not there during a load, and on its dialog; the
\* handler keeps the query and the rows of now.
StartJob(op) ==
    /\ Step /\ job = NoJob /\ op \in Page.ops
    /\ op # "create" => shown.items = 1 /\ ~loading
    /\ job' = [op |-> op, query |-> query, items |-> shown.items, stamp |-> 0]
    /\ calm' = (calm /\ (kind = "devices" => fetch = <<>>))
    /\ UNCHANGED <<kind, query, typed, shown, loading, fetch, db, fresh, summary, conVars>>

Changed(op) ==
    /\ db.stamp < MaxSteps
    /\ db' = [stamp |-> db.stamp + 1,
              rows |-> CASE op = "create" /\ db.rows < MaxRows -> db.rows + 1
                         [] op = "remove" /\ db.rows > 0       -> db.rows - 1
                         [] OTHER                              -> db.rows]

Execute ==
    /\ job.op \in {"create", "edit", "remove"}
    /\ Changed(job.op)
    /\ job' = [job EXCEPT !.op = "done", !.stamp = db.stamp + 1,
                          !.items = IF job.op = "remove" THEN @ ELSE Unread]
    /\ fresh' = FALSE
    /\ UNCHANGED <<kind, query, typed, shown, loading, fetch, calm, summary, steps, conVars>>

\* The request fails, or only its answer: an error is shown, nothing loaded.
FailJob ==
    /\ Step /\ job # NoJob /\ job' = NoJob
    /\ calm' = (calm /\ job.op # "done")
    /\ UNCHANGED <<kind, query, typed, shown, loading, fetch, db, fresh, summary, conVars>>

\* What the handlers do with the answer: they load what the page showed when
\* the user clicked, whatever it shows by now.
WithoutReload(f) == f
AfterChange(f) == Load(f, job.query, query)
Refresh(f) == [f EXCEPT ![Len(f)].refresh = TRUE]

Ended(k) ==
    /\ kind = k /\ job.op = "done" /\ job' = NoJob
    /\ loading' = TRUE
    /\ fresh' = (job.stamp = db.stamp)
    /\ UNCHANGED <<kind, typed, shown, db, calm, summary, steps>>
Reloaded(k) == Ended(k) /\ fetch' = AfterChange(fetch) /\ UNCHANGED <<query, conVars>>

\* handleExecuteSoftDelete turns back a page that had one row; the effect
\* then loads once more.
NextTargetPage == IF job.items = 1 /\ job.query.page > 0 THEN job.query.page - 1 ELSE job.query.page
EndSoftDelete ==
    /\ Ended("employees") /\ job.items # Unread
    /\ query' = [query EXCEPT !.page = NextTargetPage]
    /\ fetch' = Reload(Load(fetch, [job.query EXCEPT !.page = NextTargetPage], query'), query')
    /\ UNCHANGED conVars
EndEmployees == job.items = Unread /\ Reloaded("employees")
EndCredentials == Reloaded("credentials")
EndDevices ==
    /\ Ended("devices") /\ fetch' = Refresh(AfterChange(fetch))
    /\ UNCHANGED <<query, conVars>>
EndApprovals == Reloaded("approvals")
EndRequests == Reloaded("requests")
EndJob == EndSoftDelete \/ EndEmployees \/ EndCredentials \/ EndDevices \/ EndApprovals \/ EndRequests

\* Another manager, an employee, a terminal.
OtherChange ==
    /\ Step /\ kind # "board"
    /\ \E op \in {"create", "edit", "remove"} : Changed(op)
    /\ fresh' = FALSE /\ calm' = FALSE
    /\ UNCHANGED <<kind, query, typed, shown, loading, fetch, job, summary, conVars>>

\* handleCalculateSummary: the total of the one employee the search finds.
Calculate ==
    /\ Step /\ kind = "log" /\ shown.items = 1 /\ ~loading /\ summary.asked = NoQuery
    /\ summary' = [of |-> NoQuery, asked |-> query, raced |-> FALSE]
    /\ UNCHANGED <<kind, query, typed, shown, loading, fetch, db, job, fresh, calm, conVars>>

ShowSummary ==
    /\ summary.asked # NoQuery
    /\ summary' = [summary EXCEPT !.of = summary.asked, !.asked = NoQuery]
    /\ UNCHANGED <<kind, query, typed, shown, loading, fetch, db, job, fresh, calm, steps, conVars>>

-----------------------------------------------------------------------------
Serving(i) == i \in DOMAIN fetch /\ (Serve(i) \/ Answer(i) \/ ReadSnapshot(i) \/ FinishDevices(i))

User ==
    \/ \E w \in Searches : Type(w)
    \/ \E c \in Choices : Choose(c)
    \/ \E p \in 0..MaxRows : TurnPage(p)
    \/ \E op \in Page.ops : StartJob(op)
    \/ RefreshList \/ Calculate

Next ==
    \/ User \/ Debounced
    \/ \E i \in DOMAIN fetch : Serving(i) \/ Fail(i)
    \/ Execute \/ EndJob \/ FailJob \/ OtherChange \/ ShowSummary
    \/ kind = "board" /\ ConStep /\ UNCHANGED pageVars
    \/ kind = "board" /\ (\E t \in Terminals : Rejoin(t)) /\ UNCHANGED pageVars
    \/ /\ kind = "board" /\ Step /\ ConFault
       /\ UNCHANGED <<kind, query, typed, shown, loading, fetch, db, job, fresh, calm, summary>>

Spec == Init /\ [][Next]_vars

\* The backend answers its requests, heartbeats go on and messages arrive.
FairSpec ==
    /\ Spec
    /\ WF_vars(\E i \in DOMAIN fetch : Serving(i))
    /\ kind = "board" =>
         /\ \A t \in Terminals : WF_vars(Beat(t) /\ UNCHANGED pageVars)
         /\ WF_vars((HandleStatus \/ Subscribe \/ ShowEvent) /\ UNCHANGED pageVars)

-----------------------------------------------------------------------------
(* Properties. *)

Settled == fetch = <<>> /\ job = NoJob

\* Once every load is answered a page shows the rows it asks for, unless
\* answers crossed each other, a handler loaded the values of an earlier
\* render, or the load failed on a page that keeps its rows.  The portal,
\* which cancels, has none of these excuses.
SettledRowsFit ==
    Settled /\ shown.items = 1 =>
      \/ shown.query = query
      \/ shown.why \in {"late", "closure"} /\ kind # "portal"
      \/ shown.why = "failed" /\ Page.clears = "nothing"

\* Whoever removes the last row of a page is taken to the page before, if the
\* answer that is shown is neither late nor that of an old closure, and while
\* nobody else changes rows and no change or answer is lost ("calm").
NoEmptyPage ==
    Settled /\ fresh /\ calm /\ shown.why = "fits" /\ kind \in {"employees", "devices"} =>
      shown.items = 1 \/ query.page = 0

\* A change of one's own is on the screen once the page has settled on an
\* answer to what it asks for, and not as an empty page.  (An answer that is
\* late or of an old closure may be older than the change.)
OwnChangeIsShown ==
    /\ Settled /\ fresh /\ shown.why = "fits" => shown.stamp = db.stamp
    /\ NoEmptyPage

\* A monthly total stands under the month and search it was computed for,
\* unless they changed while it was computed.
SummaryFits ==
    summary.of # NoQuery /\ ~summary.raced =>
      summary.of.word = query.word /\ summary.of.choice = query.choice

\* What a settled page shows is what it asks for: its rows and its total.
SettledPageFits == TypeOK /\ SettledRowsFit /\ SummaryFits

\* No page keeps its spinner.
SpinnerStops == loading ~> ~loading

\* Pages catch up with the backend: no spinner stays, and a terminal that is
\* connected is shown so in the end.
PagesCatchUp == SpinnerStops /\ ConnectedIsShown
=============================================================================
