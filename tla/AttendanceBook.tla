--------------------------- MODULE AttendanceBook ---------------------------
(***************************************************************************)
(* What POST /checkin promises, without requests, retries, transactions or *)
(* locks: a book in which every scan is entered at most once, in one step  *)
(* and in one column of its employee's row for its business date.          *)
(***************************************************************************)
CONSTANTS
    Tokens,     \* client_tx_id
    Employees,
    Times,
    DayOf,      \* Times -> the business date
    NoTime

VARIABLES
    scans,      \* the scans that have been entered
    book        \* employee and day -> checkin and checkout

bookVars == <<scans, book>>

Days == {DayOf[t] : t \in Times}

BookInit ==
    /\ scans = {}
    /\ book = [k \in Employees \X Days |-> [checkin |-> NoTime, checkout |-> NoTime]]

\* The first scan of a day is its checkin and later ones overwrite the
\* checkout; first scans that arrive together may overwrite each other.
Enter(k, e, t) ==
    /\ \A s \in scans : s.token # k
    /\ scans' = scans \cup {[token |-> k, employee |-> e, time |-> t]}
    /\ LET row == book[<<e, DayOf[t]>>] IN
       \/ book' = [book EXCEPT ![<<e, DayOf[t]>>] = [row EXCEPT !.checkin = t]]
       \/ /\ row.checkin # NoTime
          /\ book' = [book EXCEPT ![<<e, DayOf[t]>>] = [row EXCEPT !.checkout = t]]

BookNext == \E k \in Tokens, e \in Employees, t \in Times : Enter(k, e, t)

BookSpec == BookInit /\ [][BookNext]_bookVars
=============================================================================
