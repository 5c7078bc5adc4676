--------------------------- MODULE ListPagesProofs ---------------------------
(***************************************************************************)
(* Theorems about ListPages and Connectivity: any number of terminals,     *)
(* rows, words, choices and steps, and on every page.                      *)
(***************************************************************************)
EXTENDS ListPages, TLAPS

(* Status messages. *)

\* The last message about t in s, if there is one, says w.
EndsWith(s, t, w) ==
    \A i \in DOMAIN s :
      s[i].mac = t /\ (\A j \in DOMAIN s : j > i => s[j].mac # t) => s[i].status = w

\* What the broker keeps is the last word of its terminal, and nothing
\* reaches a backend that is not connected.
BrokerKeepsLast ==
    /\ IF retained = Silent THEN \A t \in Terminals : last[t] = "none"
                            ELSE last[retained.mac] = retained.status
    /\ ~live => wire = <<>>

\* What the backend has not missed it knows or is about to hear.
BackendHears ==
    \A t \in Terminals \ missed :
      /\ t \notin Macs(wire) => known[t] = last[t]
      /\ EndsWith(wire, t, last[t])

\* What the backend knows is what its last event said, and what the page has
\* not lost it shows.
PageHears ==
    \A t \in Terminals :
      /\ EndsWith(events, t, known[t])
      /\ t \notin Macs(events) \cup crossed => known[t] \in {"none", board[t]}

\* Nobody has heard of a terminal that has said nothing.
SilentIsUnknown ==
    \A t \in Terminals : last[t] = "none" =>
      known[t] = "none" /\ board[t] = "none" /\ t \notin Macs(wire) \cup Macs(events)

ConInv == ConTypeOK /\ BrokerKeepsLast /\ BackendHears /\ PageHears /\ SilentIsUnknown

-----------------------------------------------------------------------------
(* Loads f of a page that asks for q, with the table d. *)

LastOf(f) == f[Len(f)]
\* The last load is still to be answered.
Pends(f) == f # <<>> /\ LastOf(f).stage = "list"

\* The last load was sent for what the page asks for, if it says so, and
\* whoever is answered has made those before it late.
LastFits(f, q) == f # <<>> /\ LastOf(f).why = "fits" => LastOf(f).query = q
Overtakes(f) == \A i, j \in DOMAIN f : j < i /\ f[i].stage # "list" => f[j].why = "late"

\* The last load sees the last change.
LastIsFresh(f, d) ==
    f # <<>> /\ LastOf(f).why # "late" => LastOf(f).items = Unread \/ LastOf(f).stamp = d.stamp

\* A load that has seen the last change has read the rows there are.
Rows(q, d) == IF q.page < d.rows THEN 1 ELSE 0
ReadsRows(f, d) ==
    \A i \in DOMAIN f :
      /\ f[i].stamp <= d.stamp
      /\ f[i].items # Unread /\ f[i].stamp = d.stamp => f[i].items = Rows(f[i].query, d)
      /\ kind # "board" /\ f[i].stage # "list" => f[i].items # Unread

\* The pages that differ; no snapshot knows of a terminal that has said nothing.
KindFits(f) ==
    /\ kind = "portal" => Len(f) <= 1 /\ \A i \in DOMAIN f : f[i].why = "fits"
    /\ kind = "board" => Len(f) <= 1 /\ \A i \in DOMAIN f : f[i].stage # "list"
    /\ kind # "devices" => \A i \in DOMAIN f : ~f[i].refresh
    /\ \A i \in DOMAIN f, t \in Terminals : last[t] = "none" => f[i].snap[t] = "none"

Loads(f, q, d) ==
    /\ f \in Seq(Fetches) /\ LastFits(f, q) /\ Overtakes(f)
    /\ ReadsRows(f, d) /\ KindFits(f)

-----------------------------------------------------------------------------
(* The page. *)

\* What is on the screen fits, and shows the last change if this page knows
\* of it, unless the last load is still to be answered.
ShownFits ==
    shown.why = "fits" =>
      /\ shown.query # query => Pends(fetch)
      /\ fresh /\ shown.stamp # db.stamp => Pends(fetch)
      /\ shown.stamp = db.stamp => shown.items = Rows(shown.query, db)

ShownByKind ==
    /\ shown.stamp <= db.stamp
    /\ kind = "portal" => shown.why \in {"none", "fits", "failed"}
    /\ kind = "board" => job = NoJob /\ ~fresh /\ shown.items = 0
    /\ shown.why = "none" => shown.items = 0
    /\ shown.why = "failed" /\ Page.clears # "nothing" => shown.items = 0

SummaryIsCurrent ==
    /\ \A q \in {summary.of, summary.asked} : q # NoQuery /\ ~summary.raced =>
         q.word = query.word /\ q.choice = query.choice
    /\ kind # "log" => summary.of = NoQuery /\ summary.asked = NoQuery

TimerIsOfSearch == typed.armed => Searchable

-----------------------------------------------------------------------------
(* The page number after a change. *)

OnPage(q) == q.page = 0 \/ q.page < db.rows
AtMostOneOff(q) == q.page = 0 \/ q.page <= db.rows

\* A change is asked for from a row of the page, except to create one.
JobHasRow ==
    /\ job.op \in {"edit", "remove"} => job.items = 1
    /\ job.op = "done" => job.items \in {1, Unread}
    /\ IF job.op = "none" THEN job = NoJob ELSE job.query \in Queries

\* EmployeesPage: only a removal that is not answered yet may have emptied it.
EmployeesStay ==
    calm /\ kind = "employees" =>
      /\ OnPage(query) \/ (job.op = "done" /\ job.items = 1 /\ AtMostOneOff(query))
      /\ job.op \notin {"none", "done"} => OnPage(job.query)
      /\ job.op = "done" => AtMostOneOff(job.query)

\* DevicesPage: only a removal whose reload has not come back.
DevicesStay ==
    calm /\ kind = "devices" =>
      /\ \/ OnPage(query)
         \/ job.op = "done" /\ query.page = job.query.page
         \/ \E i \in DOMAIN fetch : fetch[i].refresh /\ fetch[i].query.page = query.page
      /\ \A i \in DOMAIN fetch : fetch[i].refresh =>
           /\ job = NoJob /\ AtMostOneOff(fetch[i].query)
           /\ fetch[i].items # Unread => fetch[i].stamp = db.stamp
      /\ job.op \notin {"none", "done"} => OnPage(job.query) /\ query.page \in {0, job.query.page}
      /\ job.op = "done" => AtMostOneOff(job.query) /\ query.page \in {0, job.query.page}

PageInv ==
    /\ TypeOK /\ Loads(fetch, query, db) /\ (fresh => LastIsFresh(fetch, db))
    /\ ShownFits /\ ShownByKind /\ SummaryIsCurrent /\ TimerIsOfSearch
    /\ JobHasRow /\ EmployeesStay /\ DevicesStay

ListInv == PageInv /\ ConInv

-----------------------------------------------------------------------------
(* Messages in order. *)

LEMMA AppendSays ==
    ASSUME NEW s \in Seq(Statuses), NEW m \in Statuses, NEW t, NEW w
    PROVE  /\ Macs(Append(s, m)) = Macs(s) \cup {m.mac}
           /\ EndsWith(Append(s, m), m.mac, m.status)
           /\ t # m.mac /\ EndsWith(s, t, w) => EndsWith(Append(s, m), t, w)
<1> DEFINE a == Append(s, m)
<1>1. /\ a \in Seq(Statuses) /\ DOMAIN a = 1..(Len(s) + 1) /\ DOMAIN s = 1..Len(s) /\ Len(s) \in Nat
      /\ \A i \in DOMAIN s : a[i] = s[i]
      /\ a[Len(s) + 1] = m
  OBVIOUS
<1> HIDE DEF a
<1>2. Macs(a) = Macs(s) \cup {m.mac}
  BY <1>1 DEF Macs
<1>3. EndsWith(a, m.mac, m.status)
  <2> SUFFICES ASSUME NEW i \in DOMAIN a, a[i].mac = m.mac, \A j \in DOMAIN a : j > i => a[j].mac # m.mac
               PROVE  a[i].status = m.status
    BY DEF EndsWith
  <2>1. i = Len(s) + 1
    BY <1>1
  <2> QED
    BY <1>1, <2>1
<1>4. ASSUME t # m.mac, EndsWith(s, t, w) PROVE EndsWith(a, t, w)
  <2> SUFFICES ASSUME NEW i \in DOMAIN a, a[i].mac = t, \A j \in DOMAIN a : j > i => a[j].mac # t
               PROVE  a[i].status = w
    BY DEF EndsWith
  <2>1. i \in DOMAIN s /\ s[i].mac = t /\ s[i].status = a[i].status
    BY <1>1, <1>4
  <2>2. \A j \in DOMAIN s : j > i => s[j].mac # t
    BY <1>1
  <2> QED
    BY <1>4, <2>1, <2>2 DEF EndsWith
<1> QED
  BY <1>2, <1>3, <1>4 DEF a

LEMMA TailSays ==
    ASSUME NEW s \in Seq(Statuses), s # <<>>, NEW t, NEW w
    PROVE  /\ Tail(s) \in Seq(Statuses) /\ Head(s) \in Statuses
           /\ Macs(s) = Macs(Tail(s)) \cup {Head(s).mac}
           /\ EndsWith(s, t, w) =>
                /\ EndsWith(Tail(s), t, w)
                /\ Head(s).mac = t /\ t \notin Macs(Tail(s)) => Head(s).status = w
<1> DEFINE a == Tail(s)
<1>1. /\ a \in Seq(Statuses) /\ DOMAIN a = 1..(Len(s) - 1) /\ DOMAIN s = 1..Len(s) /\ Len(s) \in Nat \ {0}
      /\ \A i \in DOMAIN a : a[i] = s[i + 1]
      /\ Head(s) = s[1] /\ Head(s) \in Statuses
  OBVIOUS
<1> HIDE DEF a
<1>2. Macs(s) = Macs(a) \cup {Head(s).mac}
  <2>1. ASSUME NEW i \in DOMAIN s PROVE s[i].mac \in Macs(a) \cup {Head(s).mac}
    <3>1. CASE i = 1
      BY <1>1, <3>1
    <3>2. CASE i # 1
      <4>1. i - 1 \in DOMAIN a /\ a[i - 1] = s[i]
        BY <1>1, <3>2
      <4> QED
        BY <4>1 DEF Macs
    <3> QED
      BY <3>1, <3>2
  <2>2. ASSUME NEW i \in DOMAIN a PROVE a[i].mac \in Macs(s)
    <3>1. i + 1 \in DOMAIN s /\ a[i] = s[i + 1]
      BY <1>1
    <3> QED
      BY <3>1 DEF Macs
  <2>3. 1 \in DOMAIN s /\ s[1].mac = Head(s).mac
    BY <1>1
  <2> QED
    BY <2>1, <2>2, <2>3 DEF Macs
<1>3. ASSUME EndsWith(s, t, w) PROVE EndsWith(a, t, w)
  <2> SUFFICES ASSUME NEW i \in DOMAIN a, a[i].mac = t, \A j \in DOMAIN a : j > i => a[j].mac # t
               PROVE  a[i].status = w
    BY DEF EndsWith
  <2>1. i + 1 \in DOMAIN s /\ s[i + 1] = a[i]
    BY <1>1
  <2>2. ASSUME NEW j \in DOMAIN s, j > i + 1 PROVE s[j].mac # t
    <3>1. j - 1 \in DOMAIN a /\ a[j - 1] = s[j] /\ j - 1 > i
      BY <1>1, <2>2
    <3> QED
      BY <3>1
  <2> QED
    BY <1>3, <2>1, <2>2 DEF EndsWith
<1>4. ASSUME EndsWith(s, t, w), Head(s).mac = t, t \notin Macs(a) PROVE Head(s).status = w
  <2>1. 1 \in DOMAIN s /\ s[1].mac = t
    BY <1>1, <1>4
  <2>2. ASSUME NEW j \in DOMAIN s, j > 1 PROVE s[j].mac # t
    <3>1. j - 1 \in DOMAIN a /\ a[j - 1] = s[j]
      BY <1>1, <2>2
    <3> QED
      BY <1>4, <3>1 DEF Macs
  <2> QED
    BY <1>1, <1>4, <2>1, <2>2 DEF EndsWith
<1> QED
  BY <1>1, <1>2, <1>3, <1>4 DEF a

LEMMA MacsType ==
    ASSUME NEW s \in Seq(Statuses)
    PROVE  Macs(s) \subseteq Terminals
<1>1. \A i \in DOMAIN s : s[i] \in Statuses
  OBVIOUS
<1> QED
  BY <1>1 DEF Macs, Statuses

LEMMA SilenceSays ==
    ASSUME NEW t, NEW w
    PROVE  Macs(<<>>) = {} /\ EndsWith(<<>>, t, w)
BY DEF Macs, EndsWith

-----------------------------------------------------------------------------
(* Terminals, the broker and the board. *)

\* A word of t, heard or missed.
LEMMA AnnounceKeeps ==
    ASSUME ConInv, NEW t \in Terminals, NEW s \in {"ACTIVE", "OFFLINE"}, Announce(t, s),
           link' \subseteq Terminals, UNCHANGED <<live, known, events, board, crossed>>
    PROVE  ConInv'
<1> DEFINE m == [mac |-> t, status |-> s]
<1> USE DEF ConInv, ConTypeOK
<1>1. /\ m \in Statuses /\ m.mac = t /\ m.status = s
      /\ last' = [last EXCEPT ![t] = s] /\ last'[t] = s /\ \A x \in Terminals \ {t} : last'[x] = last[x]
      /\ retained' = m /\ s # "none"
      /\ wire' = (IF live THEN Append(wire, m) ELSE wire)
      /\ missed' = (IF live THEN missed \ {t} ELSE missed \cup {t})
  BY DEF Announce, Statuses
<1>2. retained' \in Statuses /\ retained'.mac = t /\ retained'.status = s
  BY <1>1
<1> HIDE DEF m
<1>3. ConTypeOK'
  BY <1>1 DEF Words
<1>4. BrokerKeepsLast'
  <2>1. retained' # Silent
    BY <1>1, <1>2 DEF Silent
  <2>2. ~live' => wire' = <<>>
    BY <1>1 DEF BrokerKeepsLast
  <2> QED
    BY <1>1, <1>2, <2>1, <2>2 DEF BrokerKeepsLast
<1>5. BackendHears'
  <2> SUFFICES ASSUME NEW x \in Terminals \ missed'
               PROVE  (x \notin Macs(wire') => known'[x] = last'[x]) /\ EndsWith(wire', x, last'[x])
    BY DEF BackendHears
  <2>1. CASE live
    <3>1. Macs(wire') = Macs(wire) \cup {t} /\ EndsWith(wire', t, s)
      BY <1>1, <2>1, AppendSays
    <3>2. CASE x = t
      BY <1>1, <3>1, <3>2
    <3>3. CASE x # t
      <4>1. (x \notin Macs(wire) => known[x] = last[x]) /\ EndsWith(wire, x, last[x])
        BY <1>1, <2>1, <3>3 DEF BackendHears
      <4>2. EndsWith(wire', x, last[x])
        BY <1>1, <2>1, <3>3, <4>1, AppendSays
      <4> QED
        BY <1>1, <3>1, <3>3, <4>1, <4>2
    <3> QED
      BY <3>2, <3>3
  <2>2. CASE ~live
    <3>1. x # t /\ x \in Terminals \ missed /\ wire' = wire
      BY <1>1, <2>2
    <3> QED
      BY <1>1, <3>1 DEF BackendHears
  <2> QED
    BY <2>1, <2>2
<1>6. PageHears'
  BY DEF PageHears
<1>7. SilentIsUnknown'
  <2> SUFFICES ASSUME NEW x \in Terminals, last'[x] = "none"
               PROVE  known'[x] = "none" /\ board'[x] = "none" /\ x \notin Macs(wire') \cup Macs(events')
    BY DEF SilentIsUnknown
  <2>1. x # t /\ last[x] = "none"
    BY <1>1
  <2>2. Macs(wire') \subseteq Macs(wire) \cup {t}
    BY <1>1, AppendSays
  <2> QED
    BY <2>1, <2>2 DEF SilentIsUnknown
<1> QED
  BY <1>3, <1>4, <1>5, <1>6, <1>7

LEMMA HandleStatusKeeps ==
    ASSUME ConInv, HandleStatus
    PROVE  ConInv'
<1> DEFINE m == Head(wire)
<1> USE DEF ConInv, ConTypeOK
<1>1. /\ wire # <<>> /\ wire' = Tail(wire) /\ known' = [known EXCEPT ![m.mac] = m.status]
      /\ events' = Append(events, m)
      /\ UNCHANGED <<link, last, retained, live, board, missed, crossed>>
  BY DEF HandleStatus
<1>2. m \in Statuses /\ wire' \in Seq(Statuses)
  BY <1>1
<1>3. m.mac \in Terminals /\ m.status \in {"ACTIVE", "OFFLINE"}
  BY <1>2 DEF Statuses
<1>4. Macs(wire) = Macs(wire') \cup {m.mac}
  BY <1>1, TailSays
<1> HIDE DEF m
<1>5. /\ known'[m.mac] = m.status /\ \A x \in Terminals \ {m.mac} : known'[x] = known[x]
      /\ known' \in [Terminals -> Words]
  BY <1>1, <1>3 DEF Words
<1>6. ConTypeOK'
  BY <1>1, <1>2, <1>5
<1>7. BrokerKeepsLast'
  BY <1>1 DEF BrokerKeepsLast
<1>8. BackendHears'
  <2> SUFFICES ASSUME NEW x \in Terminals \ missed
               PROVE  (x \notin Macs(wire') => known'[x] = last[x]) /\ EndsWith(wire', x, last[x])
    BY <1>1 DEF BackendHears
  <2>1. (x \notin Macs(wire) => known[x] = last[x]) /\ EndsWith(wire, x, last[x])
    BY DEF BackendHears
  <2>2. EndsWith(wire', x, last[x]) /\ (m.mac = x /\ x \notin Macs(wire') => m.status = last[x])
    BY <1>1, <2>1, TailSays DEF m
  <2> QED
    BY <1>4, <1>5, <2>1, <2>2
<1>9. PageHears'
  <2> SUFFICES ASSUME NEW x \in Terminals
               PROVE  /\ EndsWith(events', x, known'[x])
                      /\ x \notin Macs(events') \cup crossed => known'[x] \in {"none", board[x]}
    BY <1>1 DEF PageHears
  <2>1. Macs(events') = Macs(events) \cup {m.mac} /\ EndsWith(events', m.mac, m.status)
    BY <1>1, <1>2, AppendSays
  <2>2. CASE x = m.mac
    BY <1>5, <2>1, <2>2
  <2>3. CASE x # m.mac
    <3>1. EndsWith(events, x, known[x]) /\ (x \notin Macs(events) \cup crossed => known[x] \in {"none", board[x]})
      BY DEF PageHears
    <3>2. EndsWith(events', x, known[x])
      BY <1>1, <1>2, <2>3, <3>1, AppendSays
    <3> QED
      BY <1>5, <2>1, <2>3, <3>1, <3>2
  <2> QED
    BY <2>2, <2>3
<1>10. SilentIsUnknown'
  <2> SUFFICES ASSUME NEW x \in Terminals, last[x] = "none"
               PROVE  known'[x] = "none" /\ board[x] = "none" /\ x \notin Macs(wire') \cup Macs(events')
    BY <1>1 DEF SilentIsUnknown
  <2>1. known[x] = "none" /\ board[x] = "none" /\ x \notin Macs(wire) \cup Macs(events)
    BY DEF SilentIsUnknown
  <2>2. Macs(events') = Macs(events) \cup {m.mac}
    BY <1>1, <1>2, AppendSays
  <2> QED
    BY <1>4, <1>5, <2>1, <2>2
<1> QED
  BY <1>6, <1>7, <1>8, <1>9, <1>10

LEMMA LoseBackendKeeps ==
    ASSUME ConInv, NEW restart \in BOOLEAN, LoseBackend(restart)
    PROVE  ConInv'
<1> USE DEF ConInv, ConTypeOK
<1>1. /\ live' = FALSE /\ wire' = <<>>
      /\ missed' = missed \cup Macs(wire) \cup (IF restart THEN {t \in Terminals : last[t] # "none"} ELSE {})
      /\ known' = (IF restart THEN [t \in Terminals |-> "none"] ELSE known)
      /\ events' = (IF restart THEN <<>> ELSE events)
      /\ crossed' = (IF restart THEN crossed \cup Macs(events) ELSE crossed)
      /\ last' = last /\ retained' = retained /\ board' = board /\ link' = link
  BY DEF LoseBackend
<1>2. Macs(wire) \subseteq Terminals /\ Macs(events) \subseteq Terminals
  BY MacsType
<1>3. ConTypeOK'
  <2>1. known' \in [Terminals -> Words]
    BY <1>1 DEF Words
  <2>2. events' \in Seq(Statuses) /\ wire' \in Seq(Statuses)
    BY <1>1
  <2> QED
    BY <1>1, <1>2, <2>1, <2>2
<1>4. BrokerKeepsLast'
  BY <1>1 DEF BrokerKeepsLast
<1>5. BackendHears'
  <2> SUFFICES ASSUME NEW x \in Terminals \ missed'
               PROVE  known'[x] = last[x] /\ EndsWith(<<>>, x, last[x])
    BY <1>1 DEF BackendHears
  <2>1. x \notin missed /\ x \notin Macs(wire) /\ (restart => last[x] = "none")
    BY <1>1
  <2>2. known[x] = last[x]
    BY <2>1 DEF BackendHears
  <2> QED
    BY <1>1, <2>1, <2>2, SilenceSays
<1>6. PageHears'
  <2> SUFFICES ASSUME NEW x \in Terminals
               PROVE  /\ EndsWith(events', x, known'[x])
                      /\ x \notin Macs(events') \cup crossed' => known'[x] \in {"none", board[x]}
    BY <1>1 DEF PageHears
  <2>1. CASE restart
    BY <1>1, <2>1, SilenceSays
  <2>2. CASE ~restart
    BY <1>1, <2>2 DEF PageHears
  <2> QED
    BY <2>1, <2>2
<1>7. SilentIsUnknown'
  BY <1>1, SilenceSays DEF SilentIsUnknown
<1> QED
  BY <1>3, <1>4, <1>5, <1>6, <1>7

LEMMA SubscribeKeeps ==
    ASSUME ConInv, Subscribe
    PROVE  ConInv'
<1> USE DEF ConInv, ConTypeOK
<1>1. /\ ~live /\ live' = TRUE /\ wire = <<>>
      /\ wire' = (IF retained = Silent THEN <<>> ELSE <<retained>>)
      /\ missed' = missed \ {retained.mac}
      /\ UNCHANGED <<link, last, retained, known, events, board, crossed>>
  BY DEF Subscribe, BrokerKeepsLast
<1>2. CASE retained = Silent
  <2>1. ConTypeOK' /\ BrokerKeepsLast' /\ PageHears'
    BY <1>1, <1>2 DEF BrokerKeepsLast, PageHears
  <2>2. SilentIsUnknown'
    BY <1>1, <1>2, SilenceSays DEF SilentIsUnknown
  <2>3. BackendHears'
    <3> SUFFICES ASSUME NEW x \in Terminals PROVE known[x] = last[x] /\ EndsWith(<<>>, x, last[x])
      BY <1>1, <1>2 DEF BackendHears
    <3> QED
      BY <1>2, SilenceSays DEF BrokerKeepsLast, SilentIsUnknown
  <2> QED
    BY <2>1, <2>2, <2>3
<1>3. CASE retained # Silent
  <2>1. /\ retained \in Statuses /\ wire' = <<retained>> /\ <<retained>> \in Seq(Statuses)
        /\ <<retained>> = Append(<<>>, retained) /\ retained.mac \in Terminals
        /\ last[retained.mac] = retained.status
    BY <1>1, <1>3 DEF BrokerKeepsLast, Statuses
  <2>2. Macs(wire') = {retained.mac} /\ EndsWith(wire', retained.mac, retained.status)
    <3>1. DOMAIN wire' = {1} /\ wire'[1] = retained
      BY <2>1
    <3> QED
      BY <3>1 DEF Macs, EndsWith
  <2>3. ConTypeOK' /\ BrokerKeepsLast' /\ PageHears'
    BY <1>1, <2>1 DEF BrokerKeepsLast, PageHears
  <2>4. SilentIsUnknown'
    <3>1. last[retained.mac] # "none"
      BY <2>1 DEF Statuses
    <3> QED
      BY <1>1, <2>2, <3>1 DEF SilentIsUnknown
  <2>5. BackendHears'
    <3> SUFFICES ASSUME NEW x \in Terminals \ missed'
                 PROVE  (x \notin Macs(wire') => known[x] = last[x]) /\ EndsWith(wire', x, last[x])
      BY <1>1 DEF BackendHears
    <3>1. CASE x = retained.mac
      BY <2>1, <2>2, <3>1
    <3>2. CASE x # retained.mac
      <4>1. known[x] = last[x]
        BY <1>1, <3>2, SilenceSays DEF BackendHears
      <4>2. EndsWith(wire', x, last[x])
        BY <2>1, <3>2 DEF EndsWith
      <4> QED
        BY <4>1, <4>2
    <3> QED
      BY <3>1, <3>2
  <2> QED
    BY <2>3, <2>4, <2>5
<1> QED
  BY <1>2, <1>3

LEMMA ShowEventKeeps ==
    ASSUME ConInv, ShowEvent
    PROVE  ConInv'
<1> USE DEF ConInv, ConTypeOK
<1>1. PICK m : m = Head(events)
  OBVIOUS
<1>2. /\ events # <<>> /\ events' = Tail(events) /\ board' = [board EXCEPT ![m.mac] = m.status]
      /\ crossed' = crossed \ {m.mac}
      /\ UNCHANGED <<link, last, retained, live, wire, known, missed>>
  BY <1>1 DEF ShowEvent, LastShown
<1>3. m \in Statuses /\ events' \in Seq(Statuses) /\ Macs(events) = Macs(events') \cup {m.mac}
  BY <1>1, <1>2, TailSays
<1>4. m.mac \in Terminals /\ m.status \in {"ACTIVE", "OFFLINE"}
  BY <1>3 DEF Statuses
<1>5. /\ board'[m.mac] = m.status /\ \A x \in Terminals \ {m.mac} : board'[x] = board[x]
      /\ board' \in [Terminals -> Words]
  BY <1>2, <1>4 DEF Words
<1>6. ConTypeOK' /\ BrokerKeepsLast' /\ BackendHears'
  BY <1>2, <1>3, <1>5 DEF BrokerKeepsLast, BackendHears
<1>7. PageHears'
  <2> SUFFICES ASSUME NEW x \in Terminals
               PROVE  /\ EndsWith(events', x, known[x])
                      /\ x \notin Macs(events') \cup crossed' => known[x] \in {"none", board'[x]}
    BY <1>2 DEF PageHears
  <2>1. EndsWith(events, x, known[x]) /\ (x \notin Macs(events) \cup crossed => known[x] \in {"none", board[x]})
    BY DEF PageHears
  <2>2. EndsWith(events', x, known[x]) /\ (m.mac = x /\ x \notin Macs(events') => m.status = known[x])
    BY <1>1, <1>2, <2>1, TailSays
  <2> QED
    BY <1>2, <1>3, <1>5, <2>1, <2>2
<1>8. SilentIsUnknown'
  BY <1>2, <1>3, <1>5 DEF SilentIsUnknown
<1> QED
  BY <1>6, <1>7, <1>8

LEMMA LoseSocketKeeps ==
    ASSUME ConInv, LoseSocket
    PROVE  ConInv'
<1> USE DEF ConInv, ConTypeOK
<1>1. /\ events' = <<>> /\ crossed' = crossed \cup Macs(events)
      /\ UNCHANGED <<link, last, retained, live, wire, known, board, missed>>
  BY DEF LoseSocket
<1>2. Macs(events) \subseteq Terminals /\ Macs(<<>>) = {}
  BY MacsType, SilenceSays
<1>3. ConTypeOK' /\ BrokerKeepsLast' /\ BackendHears'
  BY <1>1, <1>2 DEF BrokerKeepsLast, BackendHears
<1>4. PageHears'
  <2> SUFFICES ASSUME NEW x \in Terminals
               PROVE  /\ EndsWith(<<>>, x, known[x])
                      /\ x \notin Macs(<<>>) \cup crossed' => known[x] \in {"none", board[x]}
    BY <1>1 DEF PageHears
  <2> QED
    BY <1>1, SilenceSays DEF PageHears
<1>5. SilentIsUnknown'
  BY <1>1, <1>2 DEF SilentIsUnknown
<1> QED
  BY <1>3, <1>4, <1>5

\* A snapshot that knows no more than the backend was told, and leaves
\* crossed whom it contradicts.
LEMMA MergeKeeps ==
    ASSUME ConInv, NEW snap \in [Terminals -> Words], MergeSnapshot(snap),
           \A t \in Terminals : last[t] = "none" => snap[t] = "none"
    PROVE  ConInv'
<1> USE DEF ConInv, ConTypeOK
<1>1. /\ board' = [t \in Terminals |-> IF snap[t] = "none" THEN board[t] ELSE snap[t]]
      /\ crossed' = {t \in Terminals : IF snap[t] = "none" THEN t \in crossed ELSE snap[t] # known[t]}
      /\ UNCHANGED <<link, last, retained, live, wire, known, events, missed>>
  BY DEF MergeSnapshot, Merged
<1>2. ConTypeOK' /\ BrokerKeepsLast' /\ BackendHears'
  BY <1>1 DEF BrokerKeepsLast, BackendHears
<1>3. PageHears'
  <2> SUFFICES ASSUME NEW x \in Terminals
               PROVE  /\ EndsWith(events, x, known[x])
                      /\ x \notin Macs(events) \cup crossed' => known[x] \in {"none", board'[x]}
    BY <1>1 DEF PageHears
  <2> QED
    BY <1>1 DEF PageHears
<1>4. SilentIsUnknown'
  BY <1>1 DEF SilentIsUnknown
<1> QED
  BY <1>2, <1>3, <1>4

LEMMA ConStaysPut ==
    ASSUME ConInv, UNCHANGED <<last, retained, live, wire, known, events, board, missed, crossed>>,
           link' \subseteq Terminals
    PROVE  ConInv'
BY DEF ConInv, ConTypeOK, BrokerKeepsLast, BackendHears, PageHears, SilentIsUnknown

LEMMA ConUntouched ==
    ASSUME ConInv, UNCHANGED conVars
    PROVE  ConInv' /\ ConTypeOK'
<1>1. link' \subseteq Terminals
  BY DEF ConInv, ConTypeOK, conVars
<1>2. ConInv'
  BY <1>1, ConStaysPut DEF conVars
<1> QED
  BY <1>2 DEF ConInv

LEMMA ConKeeps ==
    ASSUME ConInv, ConStep \/ (\E t \in Terminals : Rejoin(t)) \/ ConFault
    PROVE  ConInv'
<1>1. ASSUME NEW t \in Terminals, Beat(t) PROVE ConInv'
  <2>1. link' \subseteq Terminals
    BY <1>1 DEF Beat, ConInv, ConTypeOK
  <2> QED
    BY <1>1, <2>1, AnnounceKeeps DEF Beat
<1>2. ASSUME NEW t \in Terminals, Drop(t) PROVE ConInv'
  <2>1. link' \subseteq Terminals
    BY <1>2 DEF Drop, ConInv, ConTypeOK
  <2> QED
    BY <1>2, <2>1, AnnounceKeeps DEF Drop
<1>3. ASSUME NEW t \in Terminals, Rejoin(t) PROVE ConInv'
  <2>1. link' \subseteq Terminals
    BY <1>3 DEF Rejoin, ConInv, ConTypeOK
  <2> QED
    BY <1>3, <2>1, ConStaysPut DEF Rejoin
<1> QED
  BY <1>1, <1>2, <1>3, HandleStatusKeeps, SubscribeKeeps, ShowEventKeeps, LoseBackendKeeps, LoseSocketKeeps
     DEF ConStep, ConFault

\* Whoever has said something has said it for good.
LEMMA SilenceStays ==
    ASSUME ConInv, ConStep \/ (\E t \in Terminals : Rejoin(t)) \/ ConFault
    PROVE  \A t \in Terminals : last'[t] = "none" => last[t] = "none"
<1>1. last \in [Terminals -> Words]
  BY DEF ConInv, ConTypeOK
<1>2. last' = last \/ \E t \in Terminals, s \in {"ACTIVE", "OFFLINE"} : last' = [last EXCEPT ![t] = s]
  BY DEF ConStep, ConFault, Beat, Drop, Announce, Rejoin, HandleStatus, Subscribe, ShowEvent, LoseBackend, LoseSocket
<1> QED
  BY <1>1, <1>2

LEMMA ConSaysLast ==
    ASSUME ConInv
    PROVE  BoardShowsLastWord
<1> USE DEF ConInv, ConTypeOK
<1> SUFFICES ASSUME wire = <<>>, events = <<>>, NEW t \in Terminals \ (missed \cup crossed)
             PROVE  board[t] = "OFFLINE" <=> last[t] = "OFFLINE"
  BY DEF BoardShowsLastWord, ShownOffline
<1>1. t \notin Macs(wire) /\ t \notin Macs(events)
  BY DEF Macs
<1>2. known[t] = last[t] /\ known[t] \in {"none", board[t]}
  BY <1>1 DEF BackendHears, PageHears
<1>3. last[t] = "none" => board[t] = "none"
  BY DEF SilentIsUnknown
<1> QED
  BY <1>2, <1>3

-----------------------------------------------------------------------------
(* Lists of loads. *)

LEMMA PageTraits ==
    ASSUME TypeOK
    PROVE  /\ Cancels <=> kind = "portal"
           /\ kind = "portal" => Page.clears = "all"
           /\ kind \in {"log", "portal", "board"} => Page.ops = {}
           /\ Page.ops \subseteq {"create", "edit", "remove"}
           /\ kind \in {"board", "portal", "requests"} => ~Searchable
<1>1. kind \in {"employees", "credentials", "devices", "approvals", "requests", "log", "portal", "board"}
  BY KindsAssumption DEF TypeOK
<1> QED
  BY <1>1 DEF Cancels, Searchable, Page, EmployeesPage, CredentialsPage, DevicesPage, ApprovalsPage,
              RequestsPage, AttendanceLogPage, PortalDashboard, Board

LEMMA NoQueryType ==
    /\ NoQuery.page = 0
    /\ 1 # Unread /\ 0 # Unread /\ Unread \in Nat
    /\ \A q \in Queries : q.page \in 0..MaxRows
BY PageBounds DEF NoQuery, Unread, Queries

\* Without takes one element out and keeps the order of the others.
LEMMA WithoutShape ==
    ASSUME NEW S, NEW f \in Seq(S), NEW i \in DOMAIN f
    PROVE  /\ Without(f, i) \in Seq(S) /\ Len(Without(f, i)) = Len(f) - 1
           /\ DOMAIN Without(f, i) = 1..(Len(f) - 1)
           /\ \A j \in 1..(Len(f) - 1) : Without(f, i)[j] = f[IF j < i THEN j ELSE j + 1]
<1> DEFINE head == SubSeq(f, 1, i - 1)
<1> DEFINE rest == SubSeq(f, i + 1, Len(f))
<1>1. Len(f) \in Nat /\ i \in 1..Len(f)
  OBVIOUS
<1>2. /\ head \in Seq(S) /\ Len(head) = i - 1
      /\ \A j \in 1..(i - 1) : head[j] = f[j]
  BY <1>1
<1>3. /\ rest \in Seq(S) /\ Len(rest) = Len(f) - i
      /\ \A j \in 1..(Len(f) - i) : rest[j] = f[i + j]
  BY <1>1
<1> HIDE DEF head, rest
<1>4. /\ head \o rest \in Seq(S) /\ Len(head \o rest) = Len(f) - 1
      /\ \A j \in 1..(Len(f) - 1) : (head \o rest)[j] = IF j <= i - 1 THEN head[j] ELSE rest[j - (i - 1)]
  BY <1>1, <1>2, <1>3
<1>5. Without(f, i) = head \o rest
  BY DEF Without, head, rest
<1>6. ASSUME NEW j \in 1..(Len(f) - 1) PROVE (head \o rest)[j] = f[IF j < i THEN j ELSE j + 1]
  <2>1. CASE j < i
    BY <1>1, <1>2, <1>4, <2>1
  <2>2. CASE ~(j < i)
    <3>1. (head \o rest)[j] = rest[j - (i - 1)]
      <4>1. ~(j <= i - 1)
        BY <1>1, <2>2
      <4>2. (head \o rest)[j] = IF j <= i - 1 THEN head[j] ELSE rest[j - (i - 1)]
        BY <1>4
      <4> QED
        BY <4>1, <4>2
    <3>2. j - (i - 1) \in 1..(Len(f) - i) /\ i + (j - (i - 1)) = j + 1
      BY <1>1, <2>2
    <3> QED
      BY <1>3, <2>2, <3>1, <3>2
  <2> QED
    BY <2>1, <2>2
<1> QED
  BY <1>4, <1>5, <1>6

LEMMA OvertakenShape ==
    ASSUME NEW f \in Seq(Fetches), NEW i \in DOMAIN f
    PROVE  /\ Overtaken(f, i) \in Seq(Fetches) /\ Len(Overtaken(f, i)) = Len(f)
           /\ \A j \in DOMAIN f :
                LET g == Overtaken(f, i)[j] IN
                /\ g.query = f[j].query /\ g.total = f[j].total /\ g.items = f[j].items
                /\ g.stamp = f[j].stamp /\ g.refresh = f[j].refresh /\ g.stage = f[j].stage
                /\ g.snap = f[j].snap
                /\ g.why = IF j < i THEN "late" ELSE f[j].why
<1>1. Len(f) \in Nat /\ DOMAIN f = 1..Len(f) /\ \A j \in DOMAIN f : f[j] \in Fetches
  OBVIOUS
<1>2. \A j \in DOMAIN f : [f[j] EXCEPT !.why = "late"] \in Fetches
  BY <1>1 DEF Fetches
<1>3. DOMAIN Overtaken(f, i) = 1..Len(f) /\ \A j \in DOMAIN f : Overtaken(f, i)[j] \in Fetches
  BY <1>1, <1>2 DEF Overtaken
<1>4. Overtaken(f, i) \in [1..Len(f) -> Fetches]
  BY <1>1, <1>2 DEF Overtaken
<1>5. Overtaken(f, i) \in Seq(Fetches) /\ Len(Overtaken(f, i)) = Len(f)
  BY <1>1, <1>4
<1>6. ASSUME NEW j \in DOMAIN f
      PROVE  LET g == Overtaken(f, i)[j] IN
             /\ g.query = f[j].query /\ g.total = f[j].total /\ g.items = f[j].items
             /\ g.stamp = f[j].stamp /\ g.refresh = f[j].refresh /\ g.stage = f[j].stage
             /\ g.snap = f[j].snap
             /\ g.why = IF j < i THEN "late" ELSE f[j].why
  <2>1. Overtaken(f, i)[j] = IF j < i THEN [f[j] EXCEPT !.why = "late"] ELSE f[j]
    BY DEF Overtaken
  <2>2. f[j] \in Fetches
    BY <1>1
  <2> QED
    BY <2>1, <2>2 DEF Fetches
<1> QED
  BY <1>5, <1>6

\* A load that is new: after those under way, or alone on a page that cancels.
NewLoad(q, now) ==
    [query |-> q, total |-> Unread, items |-> Unread, stamp |-> 0,
     why |-> IF q = now THEN "fits" ELSE "closure", refresh |-> FALSE,
     stage |-> IF kind = "board" THEN "asked" ELSE "list", snap |-> Nobody]

LEMMA LoadShape ==
    ASSUME TypeOK, NEW f \in Seq(Fetches), NEW q \in Queries, NEW now
    PROVE  LET g == Load(f, q, now) IN
           /\ NewLoad(q, now) \in Fetches
           /\ g \in Seq(Fetches) /\ g # <<>> /\ LastOf(g) = NewLoad(q, now)
           /\ Len(g) = IF kind = "portal" THEN 1 ELSE Len(f) + 1
           /\ \A i \in 1..(Len(g) - 1) : g[i] = f[i] /\ i \in DOMAIN f
           /\ DOMAIN g = 1..Len(g)
           /\ kind # "portal" => \A i \in DOMAIN f : i \in 1..(Len(g) - 1)
<1> DEFINE n == NewLoad(q, now)
<1> DEFINE base == IF kind = "portal" THEN <<>> ELSE f
<1>1. n \in Fetches
  BY PageBounds DEF NewLoad, Fetches, Unread, Nobody, Words
<1>2. Load(f, q, now) = Append(base, n)
  BY PageTraits DEF Load, NewLoad
<1>3. base \in Seq(Fetches) /\ Len(base) = (IF kind = "portal" THEN 0 ELSE Len(f)) /\ Len(f) \in Nat
  OBVIOUS
<1>4. kind # "portal" => base = f
  OBVIOUS
<1> HIDE DEF n, base
<1>5. /\ Append(base, n) \in Seq(Fetches) /\ Len(Append(base, n)) = Len(base) + 1
      /\ \A i \in 1..Len(base) : Append(base, n)[i] = base[i]
      /\ Append(base, n)[Len(base) + 1] = n
  BY <1>1, <1>3
<1>6. DOMAIN Append(base, n) = 1..(Len(base) + 1) /\ Append(base, n) # <<>>
  <2> DEFINE h == Append(base, n)
  <2>1. h \in Seq(Fetches) /\ Len(h) = Len(base) + 1 /\ Len(base) \in Nat
    BY <1>3, <1>5
  <2> HIDE DEF h
  <2>2. DOMAIN h = 1..Len(h) /\ h # <<>>
    BY <2>1
  <2> QED
    BY <2>1, <2>2 DEF h
<1>7. \A i \in 1..Len(base) : Append(base, n)[i] = f[i] /\ i \in DOMAIN f
  BY <1>3, <1>4, <1>5
<1>8. kind # "portal" => \A i \in DOMAIN f : i \in 1..Len(base)
  BY <1>3
<1> DEFINE g == Append(base, n)
<1> HIDE DEF g
<1>9. Load(f, q, now) = g
  BY <1>2 DEF g
<1>10. Len(g) - 1 = Len(base) /\ g[Len(g)] = n
  BY <1>3, <1>5 DEF g
<1> QED
  BY <1>1, <1>3, <1>5, <1>6, <1>7, <1>8, <1>9, <1>10 DEF LastOf, n, g

\* A new load keeps the others in order and is the one that counts.
LEMMA LoadKeeps ==
    ASSUME TypeOK, NEW f, NEW q0, NEW d, Loads(f, q0, d), d.stamp \in Nat,
           NEW q \in Queries, NEW now, kind # "board", kind = "portal" => q = now
    PROVE  /\ Loads(Load(f, q, now), now, d)
           /\ LastIsFresh(Load(f, q, now), d)
           /\ Pends(Load(f, q, now))
           /\ \A k \in DOMAIN Load(f, q, now) :
                Load(f, q, now)[k].refresh => \E j \in DOMAIN f : Load(f, q, now)[k] = f[j]
           /\ kind # "portal" =>
                \A j \in DOMAIN f : j \in DOMAIN Load(f, q, now) /\ Load(f, q, now)[j] = f[j]
<1> DEFINE g == Load(f, q, now)
<1> DEFINE n == NewLoad(q, now)
<1>1. /\ n \in Fetches
      /\ g \in Seq(Fetches) /\ g # <<>> /\ LastOf(g) = n
      /\ Len(g) = (IF kind = "portal" THEN 1 ELSE Len(f) + 1)
      /\ \A i \in 1..(Len(g) - 1) : g[i] = f[i] /\ i \in DOMAIN f
      /\ DOMAIN g = 1..Len(g)
      /\ kind # "portal" => \A i \in DOMAIN f : i \in 1..(Len(g) - 1)
  BY LoadShape DEF Loads
<1>2. /\ n.query = q /\ n.items = Unread /\ n.stamp = 0 /\ n.stage = "list" /\ ~n.refresh
      /\ n.why = (IF q = now THEN "fits" ELSE "closure")
      /\ \A t \in Terminals : n.snap[t] = "none"
  BY DEF NewLoad, Nobody
<1>3. Len(g) \in Nat /\ g[Len(g)] = n /\ Len(f) \in Nat
  BY <1>1 DEF LastOf, Loads
<1> HIDE DEF g, n
<1>4. \A i \in DOMAIN g : i = Len(g) \/ (i \in 1..(Len(g) - 1) /\ i \in DOMAIN f /\ g[i] = f[i])
  BY <1>1, <1>3
<1>5. LastFits(g, now) /\ LastIsFresh(g, d) /\ Pends(g)
  BY <1>1, <1>2 DEF LastFits, LastIsFresh, Pends
<1>6. Overtakes(g)
  <2> SUFFICES ASSUME NEW i \in DOMAIN g, NEW j \in DOMAIN g, j < i, g[i].stage # "list"
               PROVE  g[j].why = "late"
    BY DEF Overtakes
  <2>1. i # Len(g)
    BY <1>2, <1>3
  <2>2. j # Len(g)
    BY <1>1, <1>3
  <2> QED
    BY <1>4, <2>1, <2>2 DEF Loads, Overtakes
<1>7. ReadsRows(g, d)
  BY <1>2, <1>3, <1>4 DEF ReadsRows, Loads
<1>8. KindFits(g)
  <2>1. ASSUME kind = "portal" PROVE Len(g) <= 1 /\ \A i \in DOMAIN g : g[i].why = "fits"
    BY <1>1, <1>2, <1>3, <2>1
  <2>2. ASSUME kind # "devices", NEW i \in DOMAIN g PROVE ~g[i].refresh
    BY <1>2, <1>3, <1>4, <2>2 DEF Loads, KindFits
  <2>3. ASSUME NEW i \in DOMAIN g, NEW t \in Terminals, last[t] = "none" PROVE g[i].snap[t] = "none"
    BY <1>2, <1>3, <1>4, <2>3 DEF Loads, KindFits
  <2> QED
    BY <2>1, <2>2, <2>3 DEF KindFits
<1>9. \A k \in DOMAIN g : g[k].refresh => \E j \in DOMAIN f : g[k] = f[j]
  BY <1>2, <1>3, <1>4
<1>10. kind # "portal" => \A j \in DOMAIN f : j \in DOMAIN g /\ g[j] = f[j]
  BY <1>1, <1>3
<1> QED
  BY <1>1, <1>5, <1>6, <1>7, <1>8, <1>9, <1>10 DEF Loads, g

EarlierLate(f, i) == \A j \in DOMAIN f : j < i => f[j].why = "late"

\* Whoever is answered makes those before it late.
LEMMA OvertakenKeeps ==
    ASSUME NEW f \in Seq(Fetches), NEW i \in DOMAIN f, NEW q, NEW d,
           LastFits(f, q), ReadsRows(f, d), KindFits(f),
           \A k \in DOMAIN f \ {i} : f[k].stage # "list" => EarlierLate(f, k)
    PROVE  LET g == Overtaken(f, i) IN
           /\ Loads(g, q, d) /\ Len(g) = Len(f) /\ DOMAIN g = DOMAIN f
           /\ LastOf(g) = LastOf(f) /\ EarlierLate(g, i)
<1> DEFINE g == Overtaken(f, i)
<1>1. /\ g \in Seq(Fetches) /\ Len(g) = Len(f) /\ DOMAIN g = DOMAIN f /\ f # <<>> /\ g # <<>>
      /\ Len(f) \in Nat \ {0} /\ DOMAIN f = 1..Len(f)
  BY OvertakenShape
<1>2. \A j \in DOMAIN f :
        /\ g[j].query = f[j].query /\ g[j].items = f[j].items
        /\ g[j].stamp = f[j].stamp /\ g[j].refresh = f[j].refresh /\ g[j].stage = f[j].stage
        /\ g[j].snap = f[j].snap
        /\ g[j].why = IF j < i THEN "late" ELSE f[j].why
  BY OvertakenShape
<1>3. LastOf(g) = LastOf(f)
  BY <1>1 DEF LastOf, Overtaken
<1> HIDE DEF g
<1>4. EarlierLate(g, i)
  BY <1>1, <1>2 DEF EarlierLate
<1>5. Overtakes(g)
  <2> SUFFICES ASSUME NEW k \in DOMAIN f, NEW j \in DOMAIN f, j < k, g[k].stage # "list"
               PROVE  g[j].why = "late"
    BY <1>1 DEF Overtakes
  <2>1. CASE k = i
    BY <1>2, <2>1
  <2>2. CASE k # i
    <3>1. f[j].why = "late"
      BY <1>2, <2>2 DEF EarlierLate
    <3> QED
      BY <1>2, <3>1
  <2> QED
    BY <2>1, <2>2
<1>6. LastFits(g, q)
  BY <1>1, <1>3 DEF LastFits
<1>7. ReadsRows(g, d)
  BY <1>1, <1>2 DEF ReadsRows
<1>8. KindFits(g)
  <2>1. ASSUME kind = "portal", NEW j \in DOMAIN g PROVE g[j].why = "fits"
    BY <1>1, <1>2, <2>1 DEF KindFits
  <2> QED
    BY <1>1, <1>2, <2>1 DEF KindFits
<1> QED
  BY <1>1, <1>3, <1>4, <1>5, <1>6, <1>7, <1>8 DEF Loads, g

\* Whoever is done with leaves the list, and those before it are late.
LEMMA WithoutKeeps ==
    ASSUME NEW f, NEW q, NEW d, Loads(f, q, d), NEW i \in DOMAIN f, EarlierLate(f, i)
    PROVE  LET g == Without(f, i) IN
           /\ Loads(g, q, d) /\ Len(g) = Len(f) - 1
           /\ i # Len(f) => g # <<>> /\ LastOf(g) = LastOf(f)
           /\ i = Len(f) => g = <<>> \/ LastOf(g).why = "late"
           /\ \A k \in DOMAIN g : \E j \in DOMAIN f \ {i} : g[k] = f[j]
           /\ \A j \in DOMAIN f \ {i} : \E k \in DOMAIN g : g[k] = f[j]
<1> DEFINE g == Without(f, i)
<1> DEFINE Old(k) == IF k < i THEN k ELSE k + 1
<1>0. f \in Seq(Fetches)
  BY DEF Loads
<1>1. /\ g \in Seq(Fetches) /\ Len(g) = Len(f) - 1 /\ DOMAIN g = 1..(Len(f) - 1)
      /\ Len(f) \in Nat \ {0} /\ DOMAIN f = 1..Len(f) /\ i \in 1..Len(f)
      /\ \A k \in DOMAIN g : g[k] = f[Old(k)] /\ Old(k) \in DOMAIN f \ {i}
  <2>1. Len(f) \in Nat \ {0} /\ DOMAIN f = 1..Len(f) /\ i \in 1..Len(f)
    BY <1>0
  <2>2. /\ g \in Seq(Fetches) /\ Len(g) = Len(f) - 1 /\ DOMAIN g = 1..(Len(f) - 1)
        /\ \A k \in 1..(Len(f) - 1) : g[k] = f[Old(k)]
    BY <1>0, WithoutShape
  <2>3. \A k \in 1..(Len(f) - 1) : Old(k) \in DOMAIN f \ {i}
    BY <2>1
  <2> HIDE DEF g, Old
  <2> QED
    BY <2>1, <2>2, <2>3
<1>2. g = <<>> <=> Len(g) = 0
  BY <1>1
<1> HIDE DEF g
<1>3. ASSUME i # Len(f) PROVE g # <<>> /\ LastOf(g) = LastOf(f)
  <2>1. Len(g) \in DOMAIN g /\ Old(Len(g)) = Len(f)
    BY <1>1, <1>3
  <2> QED
    BY <1>1, <1>2, <2>1 DEF LastOf
<1>4. ASSUME i = Len(f), g # <<>> PROVE LastOf(g).why = "late"
  <2>1. Len(g) \in DOMAIN g /\ Old(Len(g)) < i
    BY <1>1, <1>2, <1>4
  <2> QED
    BY <1>1, <2>1 DEF LastOf, EarlierLate
<1>5. LastFits(g, q)
  BY <1>1, <1>2, <1>3, <1>4 DEF LastFits, Loads
<1>6. Overtakes(g)
  <2> SUFFICES ASSUME NEW k \in DOMAIN g, NEW j \in DOMAIN g, j < k, g[k].stage # "list"
               PROVE  g[j].why = "late"
    BY DEF Overtakes
  <2>1. Old(k) \in DOMAIN f /\ Old(j) \in DOMAIN f /\ Old(j) < Old(k)
    BY <1>1
  <2> QED
    BY <1>1, <2>1 DEF Overtakes, Loads
<1>7. ReadsRows(g, d)
  <2> SUFFICES ASSUME NEW k \in DOMAIN g
               PROVE  /\ g[k].stamp <= d.stamp
                      /\ g[k].items # Unread /\ g[k].stamp = d.stamp => g[k].items = Rows(g[k].query, d)
                      /\ kind # "board" /\ g[k].stage # "list" => g[k].items # Unread
    BY DEF ReadsRows
  <2>1. g[k] = f[Old(k)] /\ Old(k) \in DOMAIN f
    BY <1>1
  <2> HIDE DEF Old
  <2> QED
    BY <2>1 DEF ReadsRows, Loads
<1>8. \A k \in DOMAIN g : \E j \in DOMAIN f \ {i} : g[k] = f[j]
  BY <1>1
<1>9. KindFits(g)
  <2>1. KindFits(f)
    BY DEF Loads
  <2>2. kind \in {"portal", "board"} => Len(g) <= 1
    BY <1>1, <2>1 DEF KindFits
  <2> QED
    BY <1>8, <2>1, <2>2 DEF KindFits
<1>10. ASSUME NEW j \in DOMAIN f \ {i} PROVE \E k \in DOMAIN g : g[k] = f[j]
  <2>1. CASE j < i
    <3>1. j \in DOMAIN g /\ Old(j) = j
      BY <1>1, <2>1
    <3> QED
      BY <1>1, <3>1
  <2>2. CASE j > i
    <3>1. j - 1 \in DOMAIN g /\ Old(j - 1) = j
      BY <1>1, <2>2
    <3> QED
      BY <1>1, <3>1
  <2> QED
    BY <1>1, <2>1, <2>2
<1> QED
  BY <1>1, <1>3, <1>4, <1>5, <1>6, <1>7, <1>8, <1>9, <1>10 DEF Loads, g

-----------------------------------------------------------------------------
(* What a step has to show. *)

LEMMA LoadsPrimed ==
    ASSUME kind' = kind, \A t \in Terminals : last'[t] = "none" => last[t] = "none",
           Loads(fetch', query', db')
    PROVE  Loads(fetch, query, db)'
BY DEF Loads, LastFits, Overtakes, ReadsRows, KindFits, LastOf, Rows

\* The page stays as it is.
LEMMA PageStaysPut ==
    ASSUME PageInv, UNCHANGED <<kind, query, shown, fetch, db, job, fresh, calm>>,
           \A t \in Terminals : last'[t] = "none" => last[t] = "none",
           TypeOK', SummaryIsCurrent', TimerIsOfSearch'
    PROVE  PageInv'
<1>1. Loads(fetch, query, db)'
  BY LoadsPrimed DEF PageInv
<1>2. (fresh => LastIsFresh(fetch, db))'
  BY DEF PageInv, LastIsFresh, LastOf
<1>3. ShownFits' /\ ShownByKind' /\ JobHasRow'
  BY DEF PageInv, ShownFits, ShownByKind, JobHasRow, Pends, LastOf, Rows, Page
<1>4. EmployeesStay' /\ DevicesStay'
  BY DEF PageInv, EmployeesStay, DevicesStay, OnPage, AtMostOneOff
<1> QED
  BY <1>1, <1>2, <1>3, <1>4 DEF PageInv

\* A new load is the last one: nothing on the screen counts until it is answered.
LEMMA PendingKeeps ==
    ASSUME PageInv, kind # "board", UNCHANGED <<kind, shown, db, last>>,
           Loads(fetch', query', db), LastIsFresh(fetch', db), Pends(fetch'),
           TypeOK', SummaryIsCurrent', TimerIsOfSearch', JobHasRow', EmployeesStay', DevicesStay'
    PROVE  PageInv'
<1>1. Loads(fetch, query, db)'
  BY LoadsPrimed
<1>2. (fresh => LastIsFresh(fetch, db))'
  BY DEF LastIsFresh, LastOf
<1>3. ShownFits'
  BY DEF PageInv, ShownFits, Pends, LastOf, Rows
<1>4. ShownByKind'
  BY DEF PageInv, ShownByKind, Page
<1> QED
  BY <1>1, <1>2, <1>3, <1>4 DEF PageInv

\* One load goes on: it reads the table as it is, or its snapshot.
LEMMA UpdateKeeps ==
    ASSUME PageInv, UNCHANGED <<kind, query, typed, shown, db, job, fresh, calm, summary, last>>,
           TypeOK', DOMAIN fetch' = DOMAIN fetch, Len(fetch') = Len(fetch),
           \A j \in DOMAIN fetch :
             LET f == fetch[j]
                 g == fetch'[j]
             IN  /\ g.query = f.query /\ g.why = f.why /\ g.refresh = f.refresh
                 /\ g.stage = "list" <=> f.stage = "list"
                 /\ \/ g.items = f.items /\ g.stamp = f.stamp
                    \/ g.items = Rows(f.query, db) /\ g.stamp = db.stamp
                 /\ \A t \in Terminals : last[t] = "none" => g.snap[t] = "none"
    PROVE  PageInv'
<1>1. /\ fetch' \in Seq(Fetches) /\ fetch \in Seq(Fetches)
      /\ Len(fetch) \in Nat /\ DOMAIN fetch = 1..Len(fetch) /\ (fetch = <<>> <=> fetch' = <<>>)
      /\ fetch # <<>> => Len(fetch) \in DOMAIN fetch
  BY DEF TypeOK, PageInv
<1>2. Loads(fetch, query, db)
  BY DEF PageInv
<1>3. db.stamp \in Nat /\ \A q : Rows(q, db) # Unread
  BY NoQueryType DEF PageInv, TypeOK, Rows
<1>4. LastFits(fetch', query)
  BY <1>1, <1>2 DEF Loads, LastFits, LastOf
<1>5. Overtakes(fetch')
  BY <1>2 DEF Loads, Overtakes
<1>6. ReadsRows(fetch', db)
  BY <1>2, <1>3 DEF Loads, ReadsRows, Rows
<1>7. KindFits(fetch')
  BY <1>2 DEF Loads, KindFits
<1>8. Loads(fetch, query, db)'
  BY <1>1, <1>4, <1>5, <1>6, <1>7, LoadsPrimed DEF Loads
<1>9. (fresh => LastIsFresh(fetch, db))'
  BY <1>1 DEF PageInv, LastIsFresh, LastOf
<1>10. Pends(fetch') <=> Pends(fetch)
  BY <1>1 DEF Pends, LastOf
<1>11. ShownFits' /\ ShownByKind' /\ JobHasRow'
  BY <1>10 DEF PageInv, ShownFits, ShownByKind, JobHasRow, Pends, LastOf, Rows, Page
<1>12. EmployeesStay' /\ SummaryIsCurrent' /\ TimerIsOfSearch'
  BY DEF PageInv, EmployeesStay, OnPage, AtMostOneOff, SummaryIsCurrent, TimerIsOfSearch, Searchable, Page
<1>13. DevicesStay'
  BY DEF PageInv, DevicesStay, OnPage, AtMostOneOff
<1> QED
  BY <1>8, <1>9, <1>11, <1>12, <1>13 DEF PageInv

-----------------------------------------------------------------------------
(* Loads that are answered. *)

LEMMA FetchType ==
    ASSUME PageInv, NEW i \in DOMAIN fetch
    PROVE  /\ fetch \in Seq(Fetches) /\ fetch[i] \in Fetches
           /\ fetch[i].query \in Queries /\ fetch[i].total \in 0..Unread /\ fetch[i].items \in {0, 1, Unread}
           /\ fetch[i].stamp \in 0..MaxSteps /\ fetch[i].why \in {"fits", "closure", "late"}
           /\ fetch[i].refresh \in BOOLEAN /\ fetch[i].stage \in {"list", "asked", "snapshot"}
           /\ fetch[i].snap \in [Terminals -> Words]
<1>1. fetch \in Seq(Fetches)
  BY DEF PageInv, TypeOK
<1>2. fetch[i] \in Fetches
  BY <1>1
<1> QED
  BY <1>1, <1>2 DEF Fetches

LEMMA StepType ==
    ASSUME TypeOK, Step
    PROVE  steps' \in 0..MaxSteps
BY PageBounds DEF TypeOK, Step

\* Changing one element of a list.
LEMMA ExceptShape ==
    ASSUME NEW f \in Seq(Fetches), NEW i \in DOMAIN f, NEW e \in Fetches
    PROVE  LET g == [f EXCEPT ![i] = e] IN
           /\ g \in Seq(Fetches) /\ Len(g) = Len(f) /\ DOMAIN g = DOMAIN f
           /\ g[i] = e /\ \A j \in DOMAIN f \ {i} : g[j] = f[j]
OBVIOUS

LEMMA ServeKeeps ==
    ASSUME PageInv, NEW i \in DOMAIN fetch, Serve(i)
    PROVE  PageInv'
<1>1. UNCHANGED <<kind, query, typed, shown, loading, db, job, fresh, calm, summary, steps, conVars>>
  BY DEF Serve
<1>2. CountRows(i) \/ ReadRows(i)
  BY DEF Serve, FindAll, FindUnassignedCredentials, FindForManager, FindRequestsForManager, FindByEmployee,
         ListAllEmployeeAttendance, ListForEmployee, InOrder
<1>3. db.rows \in 0..MaxRows /\ db.stamp \in 0..MaxSteps
  BY DEF PageInv, TypeOK
<1>4. PICK e \in Fetches :
        /\ fetch' = [fetch EXCEPT ![i] = e]
        /\ e.query = fetch[i].query /\ e.why = fetch[i].why /\ e.refresh = fetch[i].refresh
        /\ e.stage = fetch[i].stage /\ e.snap = fetch[i].snap
        /\ \/ e.items = fetch[i].items /\ e.stamp = fetch[i].stamp
           \/ e.items = Rows(fetch[i].query, db) /\ e.stamp = db.stamp
  <2>1. CASE CountRows(i)
    <3> DEFINE e == [fetch[i] EXCEPT !.total = db.rows]
    <3>1. db.rows \in 0..Unread
      BY <1>3, PageBounds DEF Unread
    <3>2. e \in Fetches
      BY <3>1, FetchType DEF Fetches
    <3>3. fetch' = [fetch EXCEPT ![i] = e]
      BY <2>1 DEF CountRows
    <3>4. /\ e.query = fetch[i].query /\ e.why = fetch[i].why /\ e.refresh = fetch[i].refresh
          /\ e.stage = fetch[i].stage /\ e.snap = fetch[i].snap
          /\ e.items = fetch[i].items /\ e.stamp = fetch[i].stamp
      BY FetchType DEF Fetches
    <3> QED
      BY <3>2, <3>3, <3>4
  <2>2. CASE ReadRows(i)
    <3> DEFINE n == IF fetch[i].query.page < db.rows THEN 1 ELSE 0
    <3> DEFINE e == [fetch[i] EXCEPT !.items = n, !.stamp = db.stamp]
    <3>1. n \in {0, 1, Unread}
      OBVIOUS
    <3> HIDE DEF n
    <3>2. e \in Fetches
      BY <1>3, <3>1, FetchType DEF Fetches
    <3>3. fetch' = [fetch EXCEPT ![i] = e]
      BY <2>2 DEF ReadRows, n
    <3>4. /\ e.query = fetch[i].query /\ e.why = fetch[i].why /\ e.refresh = fetch[i].refresh
          /\ e.stage = fetch[i].stage /\ e.snap = fetch[i].snap
          /\ e.items = n /\ e.stamp = db.stamp
      BY FetchType DEF Fetches
    <3>5. n = Rows(fetch[i].query, db)
      BY DEF n, Rows
    <3> QED
      BY <3>2, <3>3, <3>4, <3>5
  <2> QED
    BY <1>2, <2>1, <2>2
<1>5. fetch \in Seq(Fetches)
  BY FetchType
<1>6. /\ fetch' \in Seq(Fetches) /\ Len(fetch') = Len(fetch) /\ DOMAIN fetch' = DOMAIN fetch
      /\ fetch'[i] = e /\ \A j \in DOMAIN fetch \ {i} : fetch'[j] = fetch[j]
  BY <1>4, <1>5, ExceptShape
<1>7. TypeOK'
  BY <1>1, <1>6 DEF PageInv, TypeOK, ConTypeOK, conVars
<1>8. \A j \in DOMAIN fetch, t \in Terminals : last[t] = "none" => fetch[j].snap[t] = "none"
  BY DEF PageInv, Loads, KindFits
<1>9. last' = last
  BY <1>1 DEF conVars
<1> QED
  BY <1>1, <1>4, <1>6, <1>7, <1>8, <1>9, UpdateKeeps

LEMMA ReadSnapshotKeeps ==
    ASSUME PageInv, ConInv, NEW i \in DOMAIN fetch, ReadSnapshot(i)
    PROVE  PageInv'
<1>1. /\ UNCHANGED <<kind, query, typed, shown, loading, db, job, fresh, calm, summary, conVars>>
      /\ fetch[i].stage = "asked" /\ steps' \in 0..MaxSteps
  BY StepType DEF ReadSnapshot, PageInv, TypeOK
<1>2. known \in [Terminals -> Words] /\ \A t \in Terminals : last[t] = "none" => known[t] = "none"
  BY DEF ConInv, ConTypeOK, SilentIsUnknown
<1>3. \A j \in DOMAIN fetch, t \in Terminals : last[t] = "none" => fetch[j].snap[t] = "none"
  BY DEF PageInv, Loads, KindFits
<1>4. PICK e \in Fetches :
        /\ fetch' = [fetch EXCEPT ![i] = e]
        /\ e.query = fetch[i].query /\ e.why = fetch[i].why /\ e.refresh = fetch[i].refresh
        /\ e.items = fetch[i].items /\ e.stamp = fetch[i].stamp /\ e.stage = "snapshot"
        /\ \A t \in Terminals : last[t] = "none" => e.snap[t] = "none"
  <2>1. PICK s \in {known, fetch[i].snap} : fetch' = [fetch EXCEPT ![i].stage = "snapshot", ![i].snap = s]
    <3>1. [fetch EXCEPT ![i].stage = "snapshot"]
            = [fetch EXCEPT ![i].stage = "snapshot", ![i].snap = fetch[i].snap]
      BY FetchType DEF Fetches
    <3> QED
      BY <3>1 DEF ReadSnapshot
  <2> DEFINE e == [fetch[i] EXCEPT !.stage = "snapshot", !.snap = s]
  <2>2. e \in Fetches
    BY <1>2, FetchType DEF Fetches
  <2>3. fetch' = [fetch EXCEPT ![i] = e]
    BY <2>1
  <2>4. /\ e.query = fetch[i].query /\ e.why = fetch[i].why /\ e.refresh = fetch[i].refresh
        /\ e.items = fetch[i].items /\ e.stamp = fetch[i].stamp /\ e.stage = "snapshot" /\ e.snap = s
    BY FetchType DEF Fetches
  <2>5. \A t \in Terminals : last[t] = "none" => s[t] = "none"
    BY <1>2, <1>3
  <2> HIDE DEF e
  <2> QED
    BY <2>2, <2>3, <2>4, <2>5
<1>5. fetch \in Seq(Fetches)
  BY FetchType
<1>6. /\ fetch' \in Seq(Fetches) /\ Len(fetch') = Len(fetch) /\ DOMAIN fetch' = DOMAIN fetch
      /\ fetch'[i] = e /\ \A j \in DOMAIN fetch \ {i} : fetch'[j] = fetch[j]
  BY <1>4, <1>5, ExceptShape
<1>7. TypeOK'
  BY <1>1, <1>6 DEF PageInv, TypeOK, ConTypeOK, conVars
<1>8. last' = last
  BY <1>1 DEF conVars
<1> QED
  BY <1>1, <1>3, <1>4, <1>6, <1>7, <1>8, UpdateKeeps

\* An answer that is not late shows what the page asks for, or the load for it
\* is still on its way.
LEMMA AnswerShows ==
    ASSUME PageInv, NEW i \in DOMAIN fetch, Answered(i), fetch[i].why = "fits"
    PROVE  /\ i = Len(fetch) => fetch[i].query = query /\ (fresh => fetch[i].stamp = db.stamp)
           /\ i # Len(fetch) => Pends(fetch)
           /\ fetch[i].stamp = db.stamp => fetch[i].items = Rows(fetch[i].query, db)
<1>1. fetch \in Seq(Fetches) /\ fetch # <<>> /\ Len(fetch) \in DOMAIN fetch /\ DOMAIN fetch = 1..Len(fetch)
      /\ Len(fetch) \in Nat
  BY FetchType
<1>2. ASSUME i = Len(fetch)
      PROVE  fetch[i].query = query /\ (fresh => fetch[i].stamp = db.stamp)
  BY <1>1, <1>2 DEF PageInv, Loads, LastFits, LastIsFresh, LastOf, Answered
<1>3. ASSUME i # Len(fetch)
      PROVE  Pends(fetch)
  <2>1. i < Len(fetch)
    BY <1>1, <1>3
  <2> QED
    BY <1>1, <2>1 DEF PageInv, Loads, Overtakes, Pends, LastOf
<1>4. fetch[i].stamp = db.stamp => fetch[i].items = Rows(fetch[i].query, db)
  BY DEF PageInv, Loads, ReadsRows, Answered
<1> QED
  BY <1>2, <1>3, <1>4

LEMMA AnswerKeeps ==
    ASSUME PageInv, NEW i \in DOMAIN fetch, Answer(i)
    PROVE  PageInv'
<1>1. /\ Answered(i) /\ UNCHANGED <<kind, query, typed, db, job, fresh, calm, summary, steps, conVars>>
      /\ shown' = [query |-> fetch[i].query, items |-> fetch[i].items, total |-> fetch[i].total,
                   stamp |-> fetch[i].stamp, why |-> fetch[i].why]
      /\ fetch[i].stage = "list" /\ fetch[i].items # Unread /\ fetch[i].total # Unread
      /\ loading' \in {loading, FALSE}
  BY DEF Answer, Answered
<1>2. /\ fetch \in Seq(Fetches) /\ Len(fetch) \in Nat \ {0} /\ fetch # <<>>
      /\ DOMAIN fetch = 1..Len(fetch)
  BY FetchType
<1>3. Loads(fetch, query, db) /\ kind # "board"
  BY <1>1 DEF PageInv, Loads, KindFits
<1>4. PICK a \in Seq(Fetches) :
        /\ Len(a) = Len(fetch) /\ DOMAIN a = DOMAIN fetch /\ a # <<>>
        /\ \A j \in DOMAIN fetch \ {i} : a[j] = fetch[j]
        /\ a[i].query = fetch[i].query /\ a[i].items = fetch[i].items /\ a[i].stamp = fetch[i].stamp
        /\ a[i].why = fetch[i].why /\ a[i].refresh = fetch[i].refresh /\ a[i].snap = fetch[i].snap
        /\ fetch' = (IF kind = "devices" THEN Overtaken(a, i) ELSE Without(Overtaken(a, i), i))
        /\ kind # "devices" => a[i].stage = "list"
  <2>1. CASE kind = "devices"
    <3> DEFINE e == [fetch[i] EXCEPT !.stage = "asked"]
    <3> DEFINE a == [fetch EXCEPT ![i] = e]
    <3>1. e \in Fetches /\ e.query = fetch[i].query /\ e.items = fetch[i].items /\ e.stamp = fetch[i].stamp
          /\ e.why = fetch[i].why /\ e.refresh = fetch[i].refresh /\ e.snap = fetch[i].snap
      BY FetchType DEF Fetches
    <3>2. fetch' = Overtaken(a, i)
      BY <2>1 DEF Answer, OnDevices
    <3> HIDE DEF e
    <3>3. /\ a \in Seq(Fetches) /\ Len(a) = Len(fetch) /\ DOMAIN a = DOMAIN fetch
          /\ a[i] = e /\ \A j \in DOMAIN fetch \ {i} : a[j] = fetch[j]
      BY <1>2, <3>1, ExceptShape
    <3> HIDE DEF a
    <3>4. a # <<>>
      BY <1>2, <3>3
    <3> QED
      BY <2>1, <3>1, <3>2, <3>3, <3>4
  <2>2. CASE kind # "devices"
    BY <1>1, <1>2, <1>3, <2>2 DEF Answer, OnDevices
  <2> QED
    BY <2>1, <2>2
<1>5. LastOf(a) = LastOf(fetch) \/ (i = Len(fetch) /\ LastOf(a) = a[i] /\ LastOf(fetch) = fetch[i])
  BY <1>2, <1>4 DEF LastOf
<1>6. LastFits(a, query) /\ (fresh => LastIsFresh(a, db))
  BY <1>2, <1>3, <1>4, <1>5 DEF PageInv, Loads, LastFits, LastIsFresh
<1>7. ReadsRows(a, db)
  <2> SUFFICES ASSUME NEW j \in DOMAIN fetch
               PROVE  /\ a[j].stamp <= db.stamp
                      /\ a[j].items # Unread /\ a[j].stamp = db.stamp => a[j].items = Rows(a[j].query, db)
                      /\ kind # "board" /\ a[j].stage # "list" => a[j].items # Unread
    BY <1>4 DEF ReadsRows
  <2>1. CASE j = i
    BY <1>1, <1>3, <1>4, <2>1 DEF Loads, ReadsRows
  <2>2. CASE j # i
    BY <1>3, <1>4, <2>2 DEF Loads, ReadsRows
  <2> QED
    BY <2>1, <2>2
<1>8. KindFits(a)
  <2>1. KindFits(fetch)
    BY <1>3 DEF Loads
  <2>2. \A j \in DOMAIN fetch : a[j].why = fetch[j].why /\ a[j].refresh = fetch[j].refresh /\ a[j].snap = fetch[j].snap
    BY <1>4
  <2> QED
    BY <1>3, <1>4, <2>1, <2>2 DEF KindFits
<1>9. \A k \in DOMAIN a \ {i} : a[k].stage # "list" => EarlierLate(a, k)
  <2> SUFFICES ASSUME NEW k \in DOMAIN fetch \ {i}, a[k].stage # "list", NEW j \in DOMAIN fetch, j < k
               PROVE  a[j].why = "late"
    BY <1>4 DEF EarlierLate
  <2>1. fetch[k].stage # "list" /\ a[j].why = fetch[j].why
    BY <1>4
  <2> QED
    BY <1>3, <2>1 DEF Loads, Overtakes
<1> DEFINE h == Overtaken(a, i)
<1>10. /\ Loads(h, query, db) /\ Len(h) = Len(fetch) /\ DOMAIN h = DOMAIN fetch
       /\ LastOf(h) = LastOf(a) /\ EarlierLate(h, i)
  BY <1>4, <1>6, <1>7, <1>8, <1>9, OvertakenKeeps
<1>11. \A j \in DOMAIN fetch :
         h[j].query = a[j].query /\ h[j].items = a[j].items /\ h[j].stamp = a[j].stamp /\ h[j].refresh = a[j].refresh
  BY <1>4, OvertakenShape
<1>12. fetch' = IF kind = "devices" THEN h ELSE Without(h, i)
  BY <1>4
<1> HIDE DEF h
<1>13. h # <<>>
  BY <1>2, <1>10
<1>14. /\ Loads(fetch', query, db)
       /\ i # Len(fetch) => fetch' # <<>> /\ LastOf(fetch') = LastOf(fetch)
       /\ fetch' = <<>> \/ LastOf(fetch') = LastOf(a) \/ LastOf(fetch').why = "late"
  <2>1. CASE kind = "devices"
    BY <1>2, <1>5, <1>10, <1>12, <1>13, <1>4, <2>1 DEF LastOf
  <2>2. CASE kind # "devices"
    <3>1. fetch' = Without(h, i)
      BY <1>12, <2>2
    <3>2. /\ Loads(Without(h, i), query, db)
          /\ i # Len(h) => Without(h, i) # <<>> /\ LastOf(Without(h, i)) = LastOf(h)
          /\ i = Len(h) => Without(h, i) = <<>> \/ LastOf(Without(h, i)).why = "late"
      BY <1>10, WithoutKeeps
    <3> QED
      BY <1>5, <1>10, <3>1, <3>2
  <2> QED
    BY <2>1, <2>2
<1>15. fresh => LastIsFresh(fetch', db)
  BY <1>4, <1>6, <1>14 DEF LastIsFresh
<1>16. i # Len(fetch) /\ Pends(fetch) => Pends(fetch')
  BY <1>14 DEF Pends
<1>17. TypeOK'
  <2>1. shown'.items \in {0, 1} /\ shown'.total \in 0..MaxRows
    BY <1>1, FetchType, PageBounds DEF Unread
  <2>2. shown' \in [query : Queries \cup {NoQuery}, items : {0, 1}, total : 0..MaxRows,
                    stamp : 0..MaxSteps, why : {"none", "fits", "late", "closure", "failed"}]
    BY <1>1, <2>1, FetchType
  <2> QED
    BY <1>1, <1>14, <2>2 DEF PageInv, TypeOK, ConTypeOK, conVars, Loads
<1>18. ShownFits'
  <2> SUFFICES ASSUME fetch[i].why = "fits"
               PROVE  /\ fetch[i].query # query => Pends(fetch')
                      /\ fresh /\ fetch[i].stamp # db.stamp => Pends(fetch')
                      /\ fetch[i].stamp = db.stamp => fetch[i].items = Rows(fetch[i].query, db)
    BY <1>1 DEF ShownFits, Pends, LastOf, Rows
  <2> QED
    BY <1>1, <1>16, AnswerShows
<1>19. ShownByKind'
  <2>1. fetch[i].stamp <= db.stamp /\ (kind = "portal" => fetch[i].why = "fits")
    BY <1>3 DEF Loads, ReadsRows, KindFits
  <2>2. fetch[i].why \in {"fits", "closure", "late"}
    BY FetchType
  <2> QED
    BY <1>1, <1>3, <2>1, <2>2 DEF ShownByKind
<1>20. DevicesStay'
  <2>1. ASSUME kind = "devices"
        PROVE  \A j \in DOMAIN fetch : j \in DOMAIN fetch' /\ fetch'[j].query = fetch[j].query
                 /\ fetch'[j].refresh = fetch[j].refresh /\ fetch'[j].items = fetch[j].items
                 /\ fetch'[j].stamp = fetch[j].stamp
    BY <1>4, <1>10, <1>11, <1>12, <2>1
  <2>2. kind = "devices" => DOMAIN fetch' = DOMAIN fetch
    BY <1>10, <1>12
  <2> QED
    BY <1>1, <2>1, <2>2 DEF PageInv, DevicesStay, OnPage, AtMostOneOff
<1>21. EmployeesStay' /\ SummaryIsCurrent' /\ TimerIsOfSearch' /\ JobHasRow'
  BY <1>1 DEF PageInv, EmployeesStay, OnPage, AtMostOneOff, SummaryIsCurrent, TimerIsOfSearch, Searchable, Page, JobHasRow
<1>22. Loads(fetch, query, db)'
  BY <1>1, <1>14, LoadsPrimed DEF conVars
<1>23. (fresh => LastIsFresh(fetch, db))'
  BY <1>1, <1>15 DEF LastIsFresh, LastOf
<1> QED
  BY <1>17, <1>18, <1>19, <1>20, <1>21, <1>22, <1>23 DEF PageInv

LEMMA FailKeeps ==
    ASSUME PageInv, NEW i \in DOMAIN fetch, Fail(i)
    PROVE  PageInv'
<1>1. /\ UNCHANGED <<kind, query, typed, db, job, fresh, summary, conVars>> /\ Step
      /\ fetch[i].stage = "list" /\ loading' = FALSE
      /\ shown' = [shown EXCEPT !.why = "failed",
                               !.items = IF Page.clears = "nothing" THEN @ ELSE 0,
                               !.total = IF Page.clears = "all" THEN 0 ELSE @]
      /\ fetch' = Without(Overtaken(fetch, i), i)
      /\ calm' = (calm /\ ~fetch[i].refresh)
  BY DEF Fail, Finally
<1>2. /\ fetch \in Seq(Fetches) /\ Len(fetch) \in Nat \ {0} /\ fetch # <<>>
      /\ DOMAIN fetch = 1..Len(fetch)
  BY FetchType
<1>3. /\ Loads(fetch, query, db) /\ kind # "board" /\ LastFits(fetch, query)
      /\ ReadsRows(fetch, db) /\ KindFits(fetch)
  BY <1>1 DEF PageInv, Loads, KindFits
<1>4. \A k \in DOMAIN fetch \ {i} : fetch[k].stage # "list" => EarlierLate(fetch, k)
  BY <1>3 DEF Loads, Overtakes, EarlierLate
<1> DEFINE h == Overtaken(fetch, i)
<1>5. /\ Loads(h, query, db) /\ Len(h) = Len(fetch) /\ DOMAIN h = DOMAIN fetch
      /\ LastOf(h) = LastOf(fetch) /\ EarlierLate(h, i)
  BY <1>2, <1>3, <1>4, OvertakenKeeps
<1>6. \A j \in DOMAIN fetch :
        /\ h[j].query = fetch[j].query /\ h[j].items = fetch[j].items
        /\ h[j].stamp = fetch[j].stamp /\ h[j].refresh = fetch[j].refresh
  BY <1>2, OvertakenShape
<1>7. fetch' = Without(h, i)
  BY <1>1
<1> HIDE DEF h
<1>8. /\ Loads(fetch', query, db)
      /\ i # Len(h) => LastOf(fetch') = LastOf(h)
      /\ i = Len(h) => fetch' = <<>> \/ LastOf(fetch').why = "late"
      /\ \A k \in DOMAIN fetch' : \E j \in DOMAIN h \ {i} : fetch'[k] = h[j]
      /\ \A j \in DOMAIN h \ {i} : \E k \in DOMAIN fetch' : fetch'[k] = h[j]
  <2> DEFINE g == Without(h, i)
  <2>1. i \in DOMAIN h
    BY <1>5
  <2>2. /\ Loads(g, query, db)
        /\ i # Len(h) => LastOf(g) = LastOf(h)
        /\ i = Len(h) => g = <<>> \/ LastOf(g).why = "late"
        /\ \A k \in DOMAIN g : \E j \in DOMAIN h \ {i} : g[k] = h[j]
        /\ \A j \in DOMAIN h \ {i} : \E k \in DOMAIN g : g[k] = h[j]
    BY <1>5, <2>1, WithoutKeeps
  <2> HIDE DEF g
  <2>3. fetch' = g
    BY <1>7 DEF g
  <2> QED
    BY <2>2, <2>3
<1>9. (fresh => LastIsFresh(fetch, db))'
  <2>1. fresh => LastIsFresh(fetch, db)
    BY DEF PageInv
  <2> QED
    BY <1>1, <1>2, <1>5, <1>8, <2>1 DEF LastIsFresh, LastOf
<1>10. Loads(fetch, query, db)'
  BY <1>1, <1>8, LoadsPrimed DEF conVars
<1>11. /\ shown \in [query : Queries \cup {NoQuery}, items : {0, 1}, total : 0..MaxRows,
                     stamp : 0..MaxSteps, why : {"none", "fits", "late", "closure", "failed"}]
       /\ shown' \in [query : Queries \cup {NoQuery}, items : {0, 1}, total : 0..MaxRows,
                      stamp : 0..MaxSteps, why : {"none", "fits", "late", "closure", "failed"}]
       /\ shown'.why = "failed" /\ shown'.stamp = shown.stamp
       /\ shown'.items = IF Page.clears = "nothing" THEN shown.items ELSE 0
  <2>1. shown \in [query : Queries \cup {NoQuery}, items : {0, 1}, total : 0..MaxRows,
                   stamp : 0..MaxSteps, why : {"none", "fits", "late", "closure", "failed"}]
    BY DEF PageInv, TypeOK
  <2>2. 0 \in 0..MaxRows
    BY PageBounds
  <2> QED
    BY <1>1, <2>1, <2>2
<1>12. TypeOK'
  <2>1. steps' \in 0..MaxSteps
    BY <1>1, StepType DEF PageInv
  <2> QED
    BY <1>1, <1>8, <1>11, <2>1 DEF PageInv, TypeOK, ConTypeOK, conVars, Loads
<1>13. ShownFits' /\ ShownByKind'
  BY <1>1, <1>3, <1>11 DEF ShownFits, ShownByKind, PageInv, Page
<1>14. DevicesStay'
  <2> SUFFICES ASSUME calm, ~fetch[i].refresh, kind = "devices"
               PROVE  DevicesStay'
    BY <1>1 DEF DevicesStay
  <2>1. \A k \in DOMAIN fetch' : \E j \in DOMAIN fetch \ {i} :
          /\ fetch'[k].query = fetch[j].query /\ fetch'[k].items = fetch[j].items
          /\ fetch'[k].stamp = fetch[j].stamp /\ fetch'[k].refresh = fetch[j].refresh
    BY <1>5, <1>6, <1>8
  <2>2. \A j \in DOMAIN fetch \ {i} : \E k \in DOMAIN fetch' :
          fetch'[k].query = fetch[j].query /\ fetch'[k].refresh = fetch[j].refresh
    BY <1>5, <1>6, <1>8
  <2>3. DevicesStay
    BY DEF PageInv
  <2>4. \A j \in DOMAIN fetch : fetch[j].refresh => j \in DOMAIN fetch \ {i}
    OBVIOUS
  <2>5. ASSUME NEW j \in DOMAIN fetch, fetch[j].refresh, fetch[j].query.page = query.page
        PROVE  \E k \in DOMAIN fetch' : fetch'[k].refresh /\ fetch'[k].query.page = query.page
    BY <2>2, <2>4, <2>5
  <2>6. \A k \in DOMAIN fetch' : fetch'[k].refresh =>
          /\ job = NoJob /\ AtMostOneOff(fetch'[k].query)
          /\ fetch'[k].items # Unread => fetch'[k].stamp = db.stamp
    BY <2>1, <2>3 DEF DevicesStay, AtMostOneOff
  <2> QED
    BY <1>1, <2>3, <2>5, <2>6 DEF DevicesStay, OnPage, AtMostOneOff
<1>15. EmployeesStay' /\ SummaryIsCurrent' /\ TimerIsOfSearch' /\ JobHasRow'
  BY <1>1 DEF PageInv, EmployeesStay, OnPage, AtMostOneOff, SummaryIsCurrent, TimerIsOfSearch, Searchable, Page, JobHasRow
<1> QED
  BY <1>9, <1>10, <1>12, <1>13, <1>14, <1>15 DEF PageInv

\* A page is left only for one that is there.
LEMMA FinishDevicesKeeps ==
    ASSUME PageInv, ConInv, NEW i \in DOMAIN fetch, FinishDevices(i)
    PROVE  PageInv' /\ ConInv'
<1> DEFINE leaves == LeavesEmptyPage(fetch[i])
<1> DEFINE h == Without(fetch, i)
<1>1. /\ UNCHANGED <<kind, typed, shown, db, job, fresh, calm, summary, steps>>
      /\ fetch[i].stage = "snapshot" /\ loading' = FALSE
      /\ query' = (IF leaves THEN [query EXCEPT !.page = fetch[i].query.page - 1] ELSE query)
      /\ fetch' = Reload(h, query')
      /\ MergeSnapshot(fetch[i].snap) \/ UNCHANGED conVars
  BY DEF FinishDevices
<1>2. Loads(fetch, query, db)
  BY DEF PageInv
<1>3. EarlierLate(fetch, i)
  BY <1>1, <1>2 DEF Loads, Overtakes, EarlierLate
<1>4. /\ Loads(h, query, db)
      /\ i # Len(fetch) => h # <<>> /\ LastOf(h) = LastOf(fetch)
      /\ i = Len(fetch) => h = <<>> \/ LastOf(h).why = "late"
      /\ \A k \in DOMAIN h : \E j \in DOMAIN fetch \ {i} : h[k] = fetch[j]
      /\ \A j \in DOMAIN fetch \ {i} : \E k \in DOMAIN h : h[k] = fetch[j]
  BY <1>2, <1>3, WithoutKeeps
<1> HIDE DEF h
<1>5. ConInv' /\ last' = last
  <2>1. CASE MergeSnapshot(fetch[i].snap)
    <3>1. fetch[i].snap \in [Terminals -> Words]
      BY FetchType
    <3>2. \A t \in Terminals : last[t] = "none" => fetch[i].snap[t] = "none"
      BY <1>2 DEF Loads, KindFits
    <3> QED
      BY <2>1, <3>1, <3>2, MergeKeeps DEF MergeSnapshot
  <2>2. CASE UNCHANGED conVars
    <3>1. last' = last
      BY <2>2 DEF conVars
    <3> QED
      BY <2>2, <3>1, ConUntouched
  <2> QED
    BY <1>1, <2>1, <2>2
<1>6. /\ query \in Queries /\ fetch[i].query \in Queries /\ query' \in Queries
      /\ query'.word = query.word /\ query'.choice = query.choice
      /\ query'.page = IF leaves THEN fetch[i].query.page - 1 ELSE query.page
  <2>1. query \in Queries /\ fetch[i].query \in Queries
    BY FetchType DEF PageInv, TypeOK
  <2>2. leaves => fetch[i].query.page - 1 \in 0..MaxRows
    BY <2>1, PageBounds, NoQueryType DEF LeavesEmptyPage
  <2> QED
    BY <1>1, <2>1, <2>2 DEF Queries
<1>7. SummaryIsCurrent' /\ TimerIsOfSearch' /\ JobHasRow'
  BY <1>1, <1>6 DEF PageInv, SummaryIsCurrent, TimerIsOfSearch, Searchable, Page, JobHasRow
<1>8. \A q : (OnPage(q) => q.page < db.rows \/ q.page = 0) /\ db.rows \in 0..MaxRows /\ db.stamp \in Nat
  BY DEF OnPage, PageInv, TypeOK
<1>9. ASSUME calm, kind = "devices"
      PROVE  /\ leaves => OnPage(query')
             /\ fetch[i].refresh /\ fetch[i].query.page = query.page /\ ~leaves => OnPage(query)
  <2>1. ASSUME fetch[i].refresh
        PROVE  /\ AtMostOneOff(fetch[i].query)
               /\ fetch[i].items = Rows(fetch[i].query, db)
    <3>1. fetch[i].items # Unread
      BY <1>1, <1>2, <1>9 DEF Loads, ReadsRows
    <3>2. fetch[i].stamp = db.stamp /\ AtMostOneOff(fetch[i].query)
      BY <1>9, <2>1, <3>1 DEF PageInv, DevicesStay
    <3> QED
      BY <1>2, <3>1, <3>2 DEF Loads, ReadsRows
  <2>2. leaves => OnPage(query')
    BY <1>6, <1>8, <2>1, NoQueryType DEF LeavesEmptyPage, AtMostOneOff, OnPage
  <2>3. fetch[i].refresh /\ fetch[i].query.page = query.page /\ ~leaves => OnPage(query)
    BY <1>6, <1>8, <2>1, NoQueryType DEF LeavesEmptyPage, OnPage, Rows
  <2> QED
    BY <2>2, <2>3
<1>10. /\ leaves => kind = "devices" /\ (calm => job = NoJob)
  BY <1>2 DEF LeavesEmptyPage, Loads, KindFits, PageInv, DevicesStay
<1>11. EmployeesStay'
  BY <1>1, <1>10 DEF PageInv, EmployeesStay, OnPage, AtMostOneOff
<1>12. ASSUME fetch' = h \/ (query' # query /\ fetch' = Load(h, query', query')),
              Loads(fetch', query', db),
              \A k \in DOMAIN fetch' : fetch'[k].refresh => \E j \in DOMAIN h : fetch'[k] = h[j],
              \A j \in DOMAIN h : \E k \in DOMAIN fetch' : fetch'[k] = h[j]
       PROVE  TypeOK' /\ DevicesStay'
  <2>1. TypeOK'
    BY <1>1, <1>5, <1>6, <1>12 DEF PageInv, TypeOK, ConInv, Loads
  <2>2. ASSUME calm, kind = "devices"
        PROVE  DevicesStay'
    <3>1. DevicesStay
      BY DEF PageInv
    <3>2. \A k \in DOMAIN fetch' : fetch'[k].refresh => \E j \in DOMAIN fetch \ {i} : fetch'[k] = fetch[j]
      BY <1>4, <1>12
    <3>3. \A j \in DOMAIN fetch \ {i} : \E k \in DOMAIN fetch' : fetch'[k] = fetch[j]
      BY <1>4, <1>12
    <3>4. \A k \in DOMAIN fetch' : fetch'[k].refresh =>
            /\ job = NoJob /\ AtMostOneOff(fetch'[k].query)
            /\ fetch'[k].items # Unread => fetch'[k].stamp = db.stamp
      BY <2>2, <3>1, <3>2 DEF DevicesStay
    <3>5. CASE leaves
      <4>1. OnPage(query') /\ job = NoJob
        BY <1>9, <1>10, <2>2, <3>5
      <4>2. job.op = "none"
        BY <4>1 DEF NoJob
      <4> QED
        BY <1>1, <3>4, <4>1, <4>2 DEF DevicesStay, OnPage, AtMostOneOff
    <3>6. CASE ~leaves
      <4>1. query' = query
        BY <1>1, <3>6
      <4>2. ASSUME NEW j \in DOMAIN fetch, fetch[j].refresh, fetch[j].query.page = query.page, ~OnPage(query)
            PROVE  \E k \in DOMAIN fetch' : fetch'[k].refresh /\ fetch'[k].query.page = query.page
        <5>1. j # i
          BY <1>9, <2>2, <3>6, <4>2
        <5> QED
          BY <3>3, <4>2, <5>1
      <4> QED
        BY <1>1, <2>2, <3>1, <3>4, <4>1, <4>2 DEF DevicesStay, OnPage, AtMostOneOff
    <3> QED
      BY <3>5, <3>6
  <2>3. (calm /\ kind = "devices") \/ DevicesStay'
    BY <1>1 DEF DevicesStay
  <2> QED
    BY <2>1, <2>2, <2>3
<1>13. CASE query' = query
  <2>1. fetch' = h
    BY <1>1, <1>13 DEF Reload
  <2>2. TypeOK' /\ DevicesStay'
    BY <1>4, <1>12, <1>13, <2>1
  <2>3. Loads(fetch, query, db)'
    BY <1>1, <1>4, <1>5, <1>13, <2>1, LoadsPrimed
  <2>4. (fresh => LastIsFresh(fetch, db))'
    <3>1. fresh => LastIsFresh(fetch, db)
      BY DEF PageInv
    <3>2. fetch # <<>>
      OBVIOUS
    <3> QED
      BY <1>1, <1>4, <2>1, <3>1, <3>2 DEF LastIsFresh, LastOf
  <2>5. Pends(fetch) => Pends(fetch')
    <3>1. Pends(fetch) => i # Len(fetch)
      BY <1>1 DEF Pends, LastOf
    <3> QED
      BY <1>4, <2>1, <3>1 DEF Pends
  <2>6. ShownFits' /\ ShownByKind'
    BY <1>1, <1>13, <2>5 DEF PageInv, ShownFits, ShownByKind, Pends, LastOf, Rows, Page
  <2> QED
    BY <1>5, <1>7, <1>11, <2>2, <2>3, <2>4, <2>6 DEF PageInv
<1>14. CASE query' # query
  <2>1. kind = "devices" /\ fetch' = Load(h, query', query')
    BY <1>1, <1>10, <1>14 DEF Reload
  <2>2. /\ Loads(fetch', query', db) /\ LastIsFresh(fetch', db) /\ Pends(fetch')
        /\ \A k \in DOMAIN fetch' : fetch'[k].refresh => \E j \in DOMAIN h : fetch'[k] = h[j]
        /\ \A j \in DOMAIN h : j \in DOMAIN fetch' /\ fetch'[j] = h[j]
    BY <1>4, <1>6, <1>8, <2>1, LoadKeeps DEF PageInv
  <2>3. \A j \in DOMAIN h : \E k \in DOMAIN fetch' : fetch'[k] = h[j]
    BY <2>2
  <2>4. TypeOK' /\ DevicesStay'
    BY <1>12, <1>14, <2>1, <2>2, <2>3
  <2> QED
    BY <1>1, <1>5, <1>7, <1>11, <2>1, <2>2, <2>4, PendingKeeps
<1> QED
  BY <1>13, <1>14

-----------------------------------------------------------------------------
(* What the user asks for. *)

\* The page at rest while its user types, or its total is computed.
LEMMA TypeKeeps ==
    ASSUME PageInv, NEW w \in Searches, Type(w)
    PROVE  PageInv'
<1>1. /\ UNCHANGED <<kind, query, shown, loading, fetch, db, job, fresh, calm, summary, conVars>>
      /\ typed' = [word |-> w, armed |-> TRUE] /\ Searchable /\ Step
  BY DEF Type
<1>2. steps' \in 0..MaxSteps
  BY <1>1, StepType DEF PageInv
<1>3. TypeOK' /\ last' = last
  BY <1>1, <1>2 DEF PageInv, TypeOK, ConTypeOK, conVars
<1>4. SummaryIsCurrent' /\ TimerIsOfSearch'
  BY <1>1 DEF PageInv, SummaryIsCurrent, TimerIsOfSearch, Searchable, Page
<1> QED
  BY <1>1, <1>3, <1>4, PageStaysPut

LEMMA SummaryKeeps ==
    ASSUME PageInv, Calculate \/ ShowSummary
    PROVE  PageInv'
<1>1. /\ UNCHANGED <<kind, query, typed, shown, loading, fetch, db, job, fresh, calm, conVars>>
      /\ Step \/ steps' = steps
  BY DEF Calculate, ShowSummary
<1>2. steps' \in 0..MaxSteps
  BY <1>1, StepType DEF PageInv, TypeOK
<1>3. /\ summary' \in [of : Queries \cup {NoQuery}, asked : Queries \cup {NoQuery}, raced : BOOLEAN]
      /\ SummaryIsCurrent'
  <2>1. /\ query \in Queries
        /\ summary \in [of : Queries \cup {NoQuery}, asked : Queries \cup {NoQuery}, raced : BOOLEAN]
        /\ SummaryIsCurrent
    BY DEF PageInv, TypeOK
  <2>2. CASE Calculate
    BY <1>1, <2>1, <2>2 DEF Calculate, SummaryIsCurrent
  <2>3. CASE ShowSummary
    BY <1>1, <2>1, <2>3 DEF ShowSummary, SummaryIsCurrent
  <2> QED
    BY <2>2, <2>3
<1>4. TypeOK' /\ last' = last
  BY <1>1, <1>2, <1>3 DEF PageInv, TypeOK, ConTypeOK, conVars
<1>5. TimerIsOfSearch'
  BY <1>1 DEF PageInv, TimerIsOfSearch, Searchable, Page
<1> QED
  BY <1>1, <1>3, <1>4, <1>5, PageStaysPut

\* The summary goes when the month or the search changes.
LEMMA NoSummarySays ==
    ASSUME PageInv, kind' = kind, summary' = IF kind = "log" THEN NoSummary ELSE summary
    PROVE  /\ summary' \in [of : Queries \cup {NoQuery}, asked : Queries \cup {NoQuery}, raced : BOOLEAN]
           /\ SummaryIsCurrent'
<1>1. /\ summary \in [of : Queries \cup {NoQuery}, asked : Queries \cup {NoQuery}, raced : BOOLEAN]
      /\ kind # "log" => summary.of = NoQuery /\ summary.asked = NoQuery
  BY DEF PageInv, TypeOK, SummaryIsCurrent
<1>2. CASE kind = "log"
  BY <1>1, <1>2 DEF NoSummary, SummaryIsCurrent
<1>3. CASE kind # "log"
  BY <1>1, <1>3 DEF SummaryIsCurrent
<1> QED
  BY <1>2, <1>3

\* A page that is asked for is on DevicesPage as well as elsewhere there, or
\* is the first one.
LEMMA AskedPageStays ==
    ASSUME PageInv, UNCHANGED <<kind, db, job>>, calm' => calm,
           \/ query'.page = 0
           \/ query'.page = query.page
           \/ calm' => query'.page < db.rows /\ (kind = "devices" => job = NoJob),
           \A k \in DOMAIN fetch' : fetch'[k].refresh => \E j \in DOMAIN fetch : fetch'[k] = fetch[j],
           kind # "portal" => \A j \in DOMAIN fetch : j \in DOMAIN fetch' /\ fetch'[j] = fetch[j]
    PROVE  EmployeesStay' /\ DevicesStay'
<1>1. EmployeesStay'
  BY DEF PageInv, EmployeesStay, OnPage, AtMostOneOff
<1>2. ASSUME calm', kind = "devices"
      PROVE  DevicesStay'
  <2>1. DevicesStay /\ calm
    BY <1>2 DEF PageInv
  <2>2. \A k \in DOMAIN fetch' : fetch'[k].refresh =>
          /\ job = NoJob /\ AtMostOneOff(fetch'[k].query)
          /\ fetch'[k].items # Unread => fetch'[k].stamp = db.stamp
    BY <1>2, <2>1 DEF DevicesStay
  <2>3. ASSUME query'.page = query.page
        PROVE  DevicesStay'
    <3>1. ASSUME NEW j \in DOMAIN fetch, fetch[j].refresh, fetch[j].query.page = query.page
          PROVE  \E k \in DOMAIN fetch' : fetch'[k].refresh /\ fetch'[k].query.page = query'.page
      BY <1>2, <2>3, <3>1
    <3> QED
      BY <1>2, <2>1, <2>2, <2>3, <3>1 DEF DevicesStay, OnPage, AtMostOneOff
  <2>4. ASSUME query'.page = 0
        PROVE  DevicesStay'
    BY <1>2, <2>1, <2>2, <2>4 DEF DevicesStay, OnPage, AtMostOneOff
  <2>5. ASSUME query'.page < db.rows, job = NoJob
        PROVE  DevicesStay'
    <3>1. job.op = "none"
      BY <2>5 DEF NoJob
    <3> QED
      BY <1>2, <2>1, <2>2, <2>5, <3>1 DEF DevicesStay, OnPage, AtMostOneOff
  <2> QED
    BY <1>2, <2>3, <2>4, <2>5
<1>3. (calm' /\ kind = "devices") \/ DevicesStay'
  BY DEF DevicesStay
<1> QED
  BY <1>1, <1>2, <1>3

\* A page that asks for something else.
LEMMA AskKeeps ==
    ASSUME PageInv, NEW q \in Queries, Ask(q), kind # "board",
           UNCHANGED <<kind, shown, db, job, fresh, conVars>>, calm' => calm,
           \/ q.page = 0
           \/ q.page = query.page
           \/ calm' => q.page < db.rows /\ (kind = "devices" => job = NoJob),
           typed' \in [word : Searches, armed : BOOLEAN], TimerIsOfSearch',
           calm' \in BOOLEAN, steps' \in 0..MaxSteps, SummaryIsCurrent', q # query,
           summary' \in [of : Queries \cup {NoQuery}, asked : Queries \cup {NoQuery}, raced : BOOLEAN]
    PROVE  PageInv'
<1>1. query' = q /\ fetch' = Load(fetch, q, q) /\ loading' = (loading \/ q # query)
  BY DEF Ask, Reload
<1>2. Loads(fetch, query, db) /\ db.stamp \in Nat
  BY DEF PageInv, TypeOK
<1>3. /\ Loads(fetch', q, db) /\ LastIsFresh(fetch', db) /\ Pends(fetch')
      /\ \A k \in DOMAIN fetch' : fetch'[k].refresh => \E j \in DOMAIN fetch : fetch'[k] = fetch[j]
      /\ kind # "portal" => \A j \in DOMAIN fetch : j \in DOMAIN fetch' /\ fetch'[j] = fetch[j]
  BY <1>1, <1>2, LoadKeeps DEF PageInv
<1>4. EmployeesStay' /\ DevicesStay'
  BY <1>1, <1>3, AskedPageStays
<1>5. TypeOK'
  BY <1>1, <1>3 DEF PageInv, TypeOK, ConTypeOK, conVars, Loads
<1>6. JobHasRow' /\ last' = last
  BY DEF PageInv, JobHasRow, conVars
<1> QED
  BY <1>1, <1>3, <1>4, <1>5, <1>6, PendingKeeps

LEMMA DebouncedKeeps ==
    ASSUME PageInv, Debounced
    PROVE  PageInv'
<1> DEFINE q == IF Page.search = "changed" /\ typed.word = query.word THEN query
                ELSE [query EXCEPT !.word = typed.word, !.page = 0]
<1>1. /\ typed.armed /\ typed' = [typed EXCEPT !.armed = FALSE]
      /\ UNCHANGED <<kind, shown, db, job, fresh, calm, steps, conVars>>
      /\ summary' = (IF kind = "log" THEN NoSummary ELSE summary)
      /\ Ask(q)
  BY DEF Debounced
<1>2. /\ typed' \in [word : Searches, armed : BOOLEAN] /\ TimerIsOfSearch' /\ typed.word \in Searches
      /\ query \in Queries /\ calm \in BOOLEAN /\ steps \in 0..MaxSteps /\ 0 \in 0..MaxRows
  <2>1. typed' \in [word : Searches, armed : BOOLEAN] /\ ~typed'.armed /\ typed.word \in Searches
    BY <1>1 DEF PageInv, TypeOK
  <2> QED
    BY <2>1, PageBounds DEF PageInv, TypeOK, TimerIsOfSearch
<1>3. q \in Queries /\ (q.page = 0 \/ q.page = query.page)
  BY <1>2 DEF Queries
<1>4. kind # "board"
  BY <1>1, PageTraits DEF PageInv, TimerIsOfSearch
<1>5. /\ summary' \in [of : Queries \cup {NoQuery}, asked : Queries \cup {NoQuery}, raced : BOOLEAN]
      /\ SummaryIsCurrent'
  BY <1>1, NoSummarySays
<1> HIDE DEF q
<1>6. CASE q # query
  BY <1>1, <1>2, <1>3, <1>4, <1>5, <1>6, AskKeeps
<1>7. CASE q = query
  <2>1. query' = query /\ fetch' = fetch /\ loading' = loading
    BY <1>1, <1>7 DEF Ask, Reload, PageInv, TypeOK
  <2>2. TypeOK' /\ last' = last
    BY <1>1, <1>2, <1>5, <2>1 DEF PageInv, TypeOK, ConTypeOK, conVars
  <2> QED
    BY <1>1, <1>2, <1>5, <2>1, <2>2, PageStaysPut
<1> QED
  BY <1>6, <1>7

LEMMA TurnPageKeeps ==
    ASSUME PageInv, NEW p \in 0..MaxRows, TurnPage(p)
    PROVE  PageInv'
<1> DEFINE q == [query EXCEPT !.page = p]
<1>1. /\ Step /\ Searchable /\ p # query.page /\ Ask(q)
      /\ calm' = (calm /\ p < db.rows /\ (kind = "devices" => job = NoJob))
      /\ UNCHANGED <<kind, typed, shown, db, job, fresh, summary, conVars>>
  BY DEF TurnPage
<1>2. query \in Queries /\ q \in Queries /\ q # query /\ q.page = p /\ q.word = query.word /\ q.choice = query.choice
  BY <1>1 DEF PageInv, TypeOK, Queries
<1>3. kind # "board" /\ steps' \in 0..MaxSteps
  BY <1>1, PageTraits, StepType DEF PageInv
<1>4. query' = q
  BY <1>1 DEF Ask
<1> HIDE DEF q
<1>5. SummaryIsCurrent' /\ TimerIsOfSearch'
  BY <1>1, <1>2, <1>4 DEF PageInv, SummaryIsCurrent, TimerIsOfSearch, Searchable, Page
<1>6. /\ summary' \in [of : Queries \cup {NoQuery}, asked : Queries \cup {NoQuery}, raced : BOOLEAN]
      /\ typed' \in [word : Searches, armed : BOOLEAN] /\ calm' \in BOOLEAN /\ (calm' => calm)
  BY <1>1 DEF PageInv, TypeOK
<1>7. \/ q.page = 0
      \/ q.page = query.page
      \/ calm' => q.page < db.rows /\ (kind = "devices" => job = NoJob)
  BY <1>1, <1>2
<1>8. UNCHANGED <<kind, shown, db, job, fresh, conVars>>
  BY <1>1
<1>9. Ask(q)
  BY <1>1
<1>10. q \in Queries /\ q # query
  BY <1>2
<1> QED
  BY <1>3, <1>5, <1>6, <1>7, <1>8, <1>9, <1>10, AskKeeps

\* One load after the other, as ListPages sends them.
LEMMA LoadsAgain ==
    ASSUME PageInv, NEW q \in Queries, NEW now \in Queries, kind # "board", kind = "portal" => q = now
    PROVE  /\ LET g == Load(fetch, q, now) IN
                /\ Loads(g, now, db) /\ LastIsFresh(g, db) /\ Pends(g)
                /\ \A k \in DOMAIN g : g[k].refresh => \E j \in DOMAIN fetch : g[k] = fetch[j]
                /\ kind # "portal" => \A j \in DOMAIN fetch : j \in DOMAIN g /\ g[j] = fetch[j]
           /\ LET g == Load(Load(fetch, q, now), now, now) IN
                /\ Loads(g, now, db) /\ LastIsFresh(g, db) /\ Pends(g)
                /\ \A k \in DOMAIN g : g[k].refresh => \E j \in DOMAIN fetch : g[k] = fetch[j]
                /\ kind # "portal" => \A j \in DOMAIN fetch : j \in DOMAIN g /\ g[j] = fetch[j]
<1> DEFINE a == Load(fetch, q, now)
<1> DEFINE b == Load(a, now, now)
<1>1. Loads(fetch, query, db) /\ db.stamp \in Nat /\ TypeOK
  BY DEF PageInv, TypeOK
<1>2. /\ Loads(a, now, db) /\ LastIsFresh(a, db) /\ Pends(a)
      /\ \A k \in DOMAIN a : a[k].refresh => \E j \in DOMAIN fetch : a[k] = fetch[j]
      /\ kind # "portal" => \A j \in DOMAIN fetch : j \in DOMAIN a /\ a[j] = fetch[j]
  BY <1>1, LoadKeeps
<1> HIDE DEF a
<1>3. /\ Loads(b, now, db) /\ LastIsFresh(b, db) /\ Pends(b)
      /\ \A k \in DOMAIN b : b[k].refresh => \E j \in DOMAIN a : b[k] = a[j]
      /\ kind # "portal" => \A j \in DOMAIN a : j \in DOMAIN b /\ b[j] = a[j]
  BY <1>1, <1>2, LoadKeeps
<1> HIDE DEF b
<1>4. \A k \in DOMAIN b : b[k].refresh => \E j \in DOMAIN fetch : b[k] = fetch[j]
  BY <1>2, <1>3
<1>5. kind # "portal" => \A j \in DOMAIN fetch : j \in DOMAIN b /\ b[j] = fetch[j]
  BY <1>2, <1>3
<1> QED
  BY <1>2, <1>3, <1>4, <1>5 DEF a, b

LEMMA ChooseKeeps ==
    ASSUME PageInv, NEW c \in Choices, Choose(c)
    PROVE  PageInv'
<1> DEFINE through == [query EXCEPT !.choice = c]
<1> DEFINE first == [through EXCEPT !.page = 0]
<1>1. /\ Step /\ kind # "board" /\ query' = first /\ loading' = TRUE
      /\ UNCHANGED <<kind, typed, shown, db, job, fresh, calm, conVars>>
      /\ summary' = (IF kind = "log" THEN NoSummary ELSE summary)
      /\ \/ kind # "portal" /\ fetch' = Load(Load(fetch, through, first), first, first)
         \/ fetch' = Load(fetch, first, first)
  BY DEF Choose
<1>2. through \in Queries /\ first \in Queries /\ first.page = 0
  <2>1. query \in [word : Searches, choice : Choices, page : 0..MaxRows] /\ 0 \in 0..MaxRows
    BY PageBounds DEF PageInv, TypeOK, Queries
  <2>2. through \in [word : Searches, choice : Choices, page : 0..MaxRows]
    BY <2>1
  <2> HIDE DEF through
  <2>3. first \in [word : Searches, choice : Choices, page : 0..MaxRows] /\ first.page = 0
    BY <2>1, <2>2
  <2> QED
    BY <2>2, <2>3 DEF Queries
<1> HIDE DEF through, first
<1>3. /\ Loads(fetch', first, db) /\ LastIsFresh(fetch', db) /\ Pends(fetch')
      /\ \A k \in DOMAIN fetch' : fetch'[k].refresh => \E j \in DOMAIN fetch : fetch'[k] = fetch[j]
      /\ kind # "portal" => \A j \in DOMAIN fetch : j \in DOMAIN fetch' /\ fetch'[j] = fetch[j]
  BY <1>1, <1>2, LoadsAgain
<1>4. EmployeesStay' /\ DevicesStay'
  BY <1>1, <1>2, <1>3, AskedPageStays
<1>5. /\ summary' \in [of : Queries \cup {NoQuery}, asked : Queries \cup {NoQuery}, raced : BOOLEAN]
      /\ SummaryIsCurrent'
  BY <1>1, NoSummarySays
<1>6. steps' \in 0..MaxSteps
  BY <1>1, StepType DEF PageInv
<1>7. TypeOK' /\ last' = last
  BY <1>1, <1>2, <1>3, <1>5, <1>6 DEF PageInv, TypeOK, ConTypeOK, conVars, Loads
<1>8. JobHasRow' /\ TimerIsOfSearch'
  BY <1>1 DEF PageInv, JobHasRow, TimerIsOfSearch, Searchable, Page
<1> QED
  BY <1>1, <1>3, <1>4, <1>5, <1>7, <1>8, PendingKeeps

LEMMA RefreshListKeeps ==
    ASSUME PageInv, RefreshList
    PROVE  PageInv'
<1>1. /\ Step /\ kind = "credentials" /\ fetch' = Load(fetch, query, query) /\ loading' = TRUE
      /\ UNCHANGED <<kind, query, typed, shown, db, job, fresh, calm, summary, conVars>>
  BY DEF RefreshList
<1>2. query \in Queries
  BY DEF PageInv, TypeOK
<1>3. Loads(fetch', query, db) /\ LastIsFresh(fetch', db) /\ Pends(fetch')
  BY <1>1, <1>2, LoadsAgain
<1>4. steps' \in 0..MaxSteps
  BY <1>1, StepType DEF PageInv
<1>5. TypeOK' /\ last' = last
  BY <1>1, <1>3, <1>4 DEF PageInv, TypeOK, ConTypeOK, conVars, Loads
<1>6. JobHasRow' /\ TimerIsOfSearch' /\ SummaryIsCurrent' /\ EmployeesStay' /\ DevicesStay'
  BY <1>1 DEF PageInv, JobHasRow, TimerIsOfSearch, Searchable, Page, SummaryIsCurrent, EmployeesStay, DevicesStay
<1> QED
  BY <1>1, <1>3, <1>5, <1>6, PendingKeeps

-----------------------------------------------------------------------------
(* Changes. *)

\* The page at rest while a change of its own is asked for or fails.
LEMMA JobStays ==
    ASSUME PageInv, UNCHANGED <<kind, query, typed, shown, fetch, db, fresh, summary, conVars>>,
           job' \in Jobs, calm' \in BOOLEAN, loading' = loading, steps' \in 0..MaxSteps,
           kind = "board" => job' = NoJob,
           JobHasRow', EmployeesStay', DevicesStay'
    PROVE  PageInv'
<1>1. TypeOK' /\ last' = last
  BY DEF PageInv, TypeOK, ConTypeOK, conVars
<1>2. Loads(fetch, query, db)'
  BY <1>1, LoadsPrimed DEF PageInv
<1>3. (fresh => LastIsFresh(fetch, db))' /\ ShownFits' /\ ShownByKind'
  BY DEF PageInv, LastIsFresh, LastOf, ShownFits, ShownByKind, Pends, Rows, Page
<1>4. TimerIsOfSearch' /\ SummaryIsCurrent'
  BY DEF PageInv, TimerIsOfSearch, Searchable, Page, SummaryIsCurrent
<1> QED
  BY <1>1, <1>2, <1>3, <1>4 DEF PageInv

LEMMA StartJobKeeps ==
    ASSUME PageInv, NEW op \in Page.ops, StartJob(op)
    PROVE  PageInv'
<1>1. /\ Step /\ job = NoJob /\ (op # "create" => shown.items = 1)
      /\ job' = [op |-> op, query |-> query, items |-> shown.items, stamp |-> 0]
      /\ calm' = (calm /\ (kind = "devices" => fetch = <<>>))
      /\ UNCHANGED <<kind, query, typed, shown, loading, fetch, db, fresh, summary, conVars>>
  BY DEF StartJob
<1>2. /\ op \in {"create", "edit", "remove"} /\ kind # "board" /\ query \in Queries
      /\ shown.items \in {0, 1} /\ calm \in BOOLEAN /\ 0 \in 0..MaxSteps
  BY PageTraits, PageBounds DEF PageInv, TypeOK
<1>3. job'.op = op /\ job'.query = query /\ job'.items = shown.items /\ job'.stamp = 0
  BY <1>1
<1>4. job' \in Jobs /\ steps' \in 0..MaxSteps
  BY <1>1, <1>2, StepType DEF PageInv, Jobs
<1>5. JobHasRow'
  BY <1>1, <1>2, <1>3 DEF JobHasRow
<1>6. EmployeesStay'
  <2>1. job.op = "none"
    BY <1>1 DEF NoJob
  <2> QED
    BY <1>1, <1>2, <1>3, <2>1 DEF PageInv, EmployeesStay, OnPage, AtMostOneOff
<1>7. DevicesStay'
  <2> SUFFICES ASSUME calm, fetch = <<>>, kind = "devices"
               PROVE  DevicesStay'
    BY <1>1 DEF DevicesStay
  <2>1. job.op = "none"
    BY <1>1 DEF NoJob
  <2>2. OnPage(query)
    BY <2>1 DEF PageInv, DevicesStay
  <2> QED
    BY <1>1, <1>2, <1>3, <2>2 DEF DevicesStay, OnPage, AtMostOneOff
<1> QED
  BY <1>1, <1>2, <1>4, <1>5, <1>6, <1>7, JobStays

LEMMA FailJobKeeps ==
    ASSUME PageInv, FailJob
    PROVE  PageInv'
<1>1. /\ Step /\ job' = NoJob /\ calm' = (calm /\ job.op # "done")
      /\ UNCHANGED <<kind, query, typed, shown, loading, fetch, db, fresh, summary, conVars>>
  BY DEF FailJob
<1>2. NoJob.op = "none" /\ NoJob \in Jobs
  BY PageBounds DEF NoJob, Jobs
<1>3. steps' \in 0..MaxSteps /\ calm' \in BOOLEAN
  BY <1>1, StepType DEF PageInv, TypeOK
<1>4. JobHasRow'
  BY <1>1, <1>2 DEF JobHasRow
<1>5. EmployeesStay' /\ DevicesStay'
  BY <1>1, <1>2 DEF PageInv, EmployeesStay, DevicesStay, OnPage, AtMostOneOff
<1> QED
  BY <1>1, <1>2, <1>3, <1>4, <1>5, JobStays

\* Nobody has read a table that has just changed.
LEMMA ChangedKeeps ==
    ASSUME PageInv, NEW op, Changed(op), ~fresh',
           UNCHANGED <<kind, query, typed, shown, loading, fetch, summary, conVars>>,
           job' \in Jobs, calm' \in BOOLEAN, steps' \in 0..MaxSteps, kind # "board",
           fresh' \in BOOLEAN, JobHasRow', EmployeesStay', DevicesStay'
    PROVE  PageInv'
<1>1. db.rows \in 0..MaxRows /\ db.stamp \in 0..MaxSteps /\ db.stamp < MaxSteps
  BY DEF PageInv, TypeOK, Changed
<1>2. db'.stamp = db.stamp + 1 /\ db'.stamp \in 0..MaxSteps /\ db'.rows \in 0..MaxRows
      /\ db' = [stamp |-> db'.stamp, rows |-> db'.rows]
  BY <1>1, PageBounds DEF Changed
<1>3. TypeOK' /\ last' = last
  BY <1>2 DEF PageInv, TypeOK, ConTypeOK, conVars
<1>4. \A i \in DOMAIN fetch : fetch[i].stamp \in Nat
  BY FetchType
<1>5. ReadsRows(fetch, db')
  BY <1>1, <1>2, <1>4 DEF PageInv, Loads, ReadsRows
<1>6. Loads(fetch', query', db')
  BY <1>5 DEF PageInv, Loads
<1>7. Loads(fetch, query, db)'
  BY <1>3, <1>6, LoadsPrimed
<1>8. shown.stamp \in Nat /\ shown.stamp <= db.stamp
  BY DEF PageInv, ShownByKind, TypeOK
<1>9. ShownFits' /\ ShownByKind'
  BY <1>1, <1>2, <1>8 DEF PageInv, ShownFits, ShownByKind, Pends, LastOf, Rows, Page
<1>10. TimerIsOfSearch' /\ SummaryIsCurrent'
  BY DEF PageInv, TimerIsOfSearch, Searchable, Page, SummaryIsCurrent
<1> QED
  BY <1>3, <1>7, <1>9, <1>10 DEF PageInv

\* A removal takes one row away, nothing else takes one.
LEMMA ChangedRows ==
    ASSUME TypeOK, NEW op, Changed(op), NEW q \in Queries, q.page = 0 \/ q.page < db.rows
    PROVE  /\ q.page = 0 \/ q.page <= db'.rows
           /\ op # "remove" => q.page = 0 \/ q.page < db'.rows
<1>1. db.rows \in Nat /\ q.page \in Nat /\ MaxRows \in Nat
  BY NoQueryType, PageBounds DEF TypeOK
<1>2. db'.rows = CASE op = "create" /\ db.rows < MaxRows -> db.rows + 1
                   [] op = "remove" /\ db.rows > 0       -> db.rows - 1
                   [] OTHER                              -> db.rows
  BY DEF Changed
<1>3. CASE op = "create" /\ db.rows < MaxRows
  BY <1>1, <1>2, <1>3
<1>4. CASE op = "remove" /\ db.rows > 0
  BY <1>1, <1>2, <1>4
<1>5. CASE ~(op = "create" /\ db.rows < MaxRows) /\ ~(op = "remove" /\ db.rows > 0)
  BY <1>1, <1>2, <1>5
<1> QED
  BY <1>3, <1>4, <1>5

LEMMA ExecuteKeeps ==
    ASSUME PageInv, Execute
    PROVE  PageInv'
<1>1. /\ job.op \in {"create", "edit", "remove"} /\ Changed(job.op) /\ fresh' = FALSE
      /\ UNCHANGED <<kind, query, typed, shown, loading, fetch, calm, summary, steps, conVars>>
      /\ job' = [job EXCEPT !.op = "done", !.stamp = db.stamp + 1,
                            !.items = IF job.op = "remove" THEN @ ELSE Unread]
  BY DEF Execute
<1>2. /\ job \in Jobs /\ query \in Queries /\ job.query \in Queries /\ TypeOK
      /\ kind # "board" /\ (job.op \in {"edit", "remove"} => job.items = 1)
  BY <1>1 DEF PageInv, TypeOK, JobHasRow, ShownByKind, NoJob
<1>3. db.stamp + 1 \in 0..MaxSteps
  BY <1>1, <1>2, PageBounds DEF Changed, TypeOK
<1>4. /\ job'.op = "done" /\ job'.query = job.query /\ job' \in Jobs
      /\ job'.items = IF job.op = "remove" THEN 1 ELSE Unread
  BY <1>1, <1>2, <1>3 DEF Jobs
<1>5. JobHasRow'
  BY <1>2, <1>4 DEF JobHasRow
<1>6. \A q \in Queries : OnPage(q) =>
        /\ q.page = 0 \/ q.page <= db'.rows
        /\ job.op # "remove" => q.page = 0 \/ q.page < db'.rows
  BY <1>1, <1>2, ChangedRows DEF OnPage
<1>7. EmployeesStay'
  <2> SUFFICES ASSUME calm, kind = "employees"
               PROVE  /\ (query.page = 0 \/ query.page < db'.rows)
                         \/ (job'.items = 1 /\ (query.page = 0 \/ query.page <= db'.rows))
                      /\ job.query.page = 0 \/ job.query.page <= db'.rows
    BY <1>1, <1>4 DEF EmployeesStay, OnPage, AtMostOneOff
  <2>1. OnPage(query) /\ OnPage(job.query)
    BY <1>1 DEF PageInv, EmployeesStay
  <2> QED
    BY <1>2, <1>4, <1>6, <2>1
<1>8. DevicesStay'
  <2> SUFFICES ASSUME calm, kind = "devices"
               PROVE  DevicesStay'
    BY <1>1 DEF DevicesStay
  <2>1. \A i \in DOMAIN fetch : ~fetch[i].refresh
    BY <1>1 DEF PageInv, DevicesStay, NoJob
  <2>2. OnPage(query) /\ OnPage(job.query) /\ query.page \in {0, job.query.page}
    BY <1>1, <2>1 DEF PageInv, DevicesStay
  <2>3. job.query.page = 0 \/ job.query.page <= db'.rows
    BY <1>2, <1>6, <2>2
  <2> QED
    BY <1>1, <1>4, <2>1, <2>2, <2>3 DEF DevicesStay, OnPage, AtMostOneOff
<1>9. calm' \in BOOLEAN /\ fresh' \in BOOLEAN /\ steps' \in 0..MaxSteps
  BY <1>1, <1>2 DEF TypeOK
<1> QED
  BY <1>1, <1>2, <1>4, <1>5, <1>7, <1>8, <1>9, ChangedKeeps

LEMMA OtherChangeKeeps ==
    ASSUME PageInv, OtherChange
    PROVE  PageInv'
<1>1. PICK op : Changed(op)
  BY DEF OtherChange
<1>2. /\ Step /\ kind # "board" /\ fresh' = FALSE /\ calm' = FALSE
      /\ UNCHANGED <<kind, query, typed, shown, loading, fetch, job, summary, conVars>>
  BY DEF OtherChange
<1>3. steps' \in 0..MaxSteps /\ job' \in Jobs
  BY <1>2, StepType DEF PageInv, TypeOK
<1>4. JobHasRow' /\ EmployeesStay' /\ DevicesStay'
  BY <1>2 DEF PageInv, JobHasRow, EmployeesStay, DevicesStay
<1> QED
  BY <1>1, <1>2, <1>3, <1>4, ChangedKeeps

\* What all handlers of an answer have in common.
LEMMA EndedKeeps ==
    ASSUME PageInv, NEW k, Ended(k), k \notin {"board", "portal"},
           query' \in Queries, query'.word = query.word, query'.choice = query.choice,
           UNCHANGED conVars, Loads(fetch', query', db), LastIsFresh(fetch', db), Pends(fetch'),
           EmployeesStay', DevicesStay'
    PROVE  PageInv'
<1>1. /\ kind = k /\ job' = NoJob /\ loading' = TRUE /\ fresh' = (job.stamp = db.stamp)
      /\ UNCHANGED <<kind, typed, shown, db, calm, summary, steps>>
  BY DEF Ended
<1>2. NoJob \in Jobs /\ NoJob.op = "none"
  BY PageBounds DEF NoJob, Jobs
<1>3. TypeOK' /\ last' = last
  BY <1>1, <1>2 DEF PageInv, TypeOK, ConTypeOK, conVars, Loads
<1>4. JobHasRow' /\ TimerIsOfSearch' /\ SummaryIsCurrent'
  BY <1>1, <1>2 DEF PageInv, JobHasRow, TimerIsOfSearch, Searchable, Page, SummaryIsCurrent
<1> QED
  BY <1>1, <1>3, <1>4, PendingKeeps

LEMMA EndSoftDeleteKeeps ==
    ASSUME PageInv, EndSoftDelete
    PROVE  PageInv'
<1> DEFINE q == [job.query EXCEPT !.page = NextTargetPage]
<1> DEFINE g == Load(fetch, q, query')
<1>1. /\ Ended("employees") /\ job.items # Unread /\ UNCHANGED conVars
      /\ kind = "employees" /\ job.op = "done" /\ job' = NoJob
      /\ query' = [query EXCEPT !.page = NextTargetPage] /\ fetch' = Reload(g, query')
      /\ UNCHANGED <<kind, calm, db>>
  BY DEF EndSoftDelete, Ended
<1>2. job.items = 1 /\ job.query \in Queries /\ query \in Queries
  BY <1>1 DEF PageInv, JobHasRow, TypeOK
<1>3. /\ NextTargetPage = (IF job.query.page > 0 THEN job.query.page - 1 ELSE job.query.page)
      /\ NextTargetPage \in 0..MaxRows
  BY <1>2, PageBounds, NoQueryType DEF NextTargetPage
<1>4. /\ q \in Queries /\ query' \in Queries /\ query'.page = NextTargetPage
      /\ query'.word = query.word /\ query'.choice = query.choice
  BY <1>1, <1>2, <1>3 DEF Queries
<1>5. fetch' = g \/ fetch' = Load(g, query', query')
  BY <1>1 DEF Reload
<1> HIDE DEF q
<1>6. Loads(fetch', query', db) /\ LastIsFresh(fetch', db) /\ Pends(fetch')
  BY <1>1, <1>4, <1>5, LoadsAgain
<1>7. calm => query'.page = 0 \/ query'.page < db.rows
  BY <1>1, <1>2, <1>3, <1>4, NoQueryType DEF PageInv, EmployeesStay, AtMostOneOff, TypeOK
<1>8. EmployeesStay' /\ DevicesStay'
  BY <1>1, <1>7 DEF EmployeesStay, DevicesStay, OnPage, NoJob
<1> QED
  BY <1>1, <1>4, <1>6, <1>8, EndedKeeps

LEMMA ReloadedKeeps ==
    ASSUME PageInv, EndEmployees \/ EndCredentials \/ EndApprovals \/ EndRequests
    PROVE  PageInv'
<1>1. PICK k \in {"employees", "credentials", "approvals", "requests"} :
        Reloaded(k) /\ (k = "employees" => job.items = Unread)
  BY DEF EndEmployees, EndCredentials, EndApprovals, EndRequests
<1>2. /\ Ended(k) /\ kind = k /\ job.op = "done" /\ job' = NoJob /\ fetch' = Load(fetch, job.query, query)
      /\ UNCHANGED <<kind, query, calm, db, conVars>>
  BY <1>1 DEF Reloaded, Ended, AfterChange
<1>3. job.query \in Queries /\ query \in Queries
  BY <1>2 DEF PageInv, JobHasRow, TypeOK
<1>4. Loads(fetch', query, db) /\ LastIsFresh(fetch', db) /\ Pends(fetch')
  BY <1>2, <1>3, LoadsAgain
<1>5. EmployeesStay' /\ DevicesStay'
  BY <1>1, <1>2, NoQueryType DEF PageInv, EmployeesStay, DevicesStay, OnPage, NoJob
<1> QED
  BY <1>2, <1>3, <1>4, <1>5, EndedKeeps

\* The reload after a removal is the only one that may leave its page.
LEMMA EndDevicesKeeps ==
    ASSUME PageInv, EndDevices
    PROVE  PageInv'
<1> DEFINE g == Load(fetch, job.query, query)
<1>1. /\ Ended("devices") /\ fetch' = Refresh(g)
      /\ kind = "devices" /\ job.op = "done" /\ job' = NoJob
      /\ UNCHANGED <<kind, query, calm, db, conVars>>
  BY DEF EndDevices, Ended, AfterChange
<1>2. job.query \in Queries /\ query \in Queries /\ TypeOK /\ fetch \in Seq(Fetches)
  BY <1>1 DEF PageInv, JobHasRow, TypeOK
<1>3. /\ Loads(g, query, db) /\ LastIsFresh(g, db) /\ Pends(g)
      /\ \A k \in DOMAIN g : g[k].refresh => \E j \in DOMAIN fetch : g[k] = fetch[j]
  BY <1>1, <1>2, LoadsAgain
<1>4. LastOf(g).query = job.query /\ LastOf(g).items = Unread
  <2>1. LastOf(g) = NewLoad(job.query, query)
    BY <1>2, LoadShape
  <2> QED
    BY <2>1 DEF NewLoad
<1> HIDE DEF g
<1> DEFINE n == Len(g)
<1> DEFINE e == [g[n] EXCEPT !.refresh = TRUE]
<1>5. g \in Seq(Fetches) /\ g # <<>> /\ n \in Nat /\ n \in DOMAIN g /\ DOMAIN g = 1..n /\ g[n] \in Fetches
  BY <1>3 DEF Loads, Pends
<1>6. /\ e \in Fetches /\ e.query = g[n].query /\ e.items = g[n].items /\ e.stamp = g[n].stamp
      /\ e.why = g[n].why /\ e.refresh /\ e.snap = g[n].snap /\ e.stage = g[n].stage
  BY <1>5 DEF Fetches
<1>7. fetch' = [g EXCEPT ![n] = e]
  BY <1>1 DEF Refresh
<1> HIDE DEF e
<1>8. /\ fetch' \in Seq(Fetches) /\ Len(fetch') = n /\ DOMAIN fetch' = DOMAIN g
      /\ fetch'[n] = e /\ \A j \in DOMAIN g \ {n} : fetch'[j] = g[j]
  BY <1>5, <1>6, <1>7, ExceptShape
<1>9. \A j \in DOMAIN g :
           /\ fetch'[j].query = g[j].query /\ fetch'[j].items = g[j].items /\ fetch'[j].stamp = g[j].stamp
           /\ fetch'[j].why = g[j].why /\ fetch'[j].snap = g[j].snap /\ fetch'[j].stage = g[j].stage
  BY <1>6, <1>8
<1>10. LastOf(fetch') = e /\ fetch' # <<>> /\ LastOf(g) = g[n]
  BY <1>5, <1>8 DEF LastOf
<1> HIDE DEF n
<1>11. LastFits(fetch', query) /\ LastIsFresh(fetch', db) /\ Pends(fetch')
  BY <1>3, <1>5, <1>6, <1>10 DEF Loads, LastFits, LastIsFresh, Pends
<1>12. Overtakes(fetch')
  BY <1>3, <1>8, <1>9 DEF Loads, Overtakes
<1>13. ReadsRows(fetch', db)
  BY <1>3, <1>8, <1>9 DEF Loads, ReadsRows
<1>14. KindFits(fetch')
  BY <1>1, <1>3, <1>8, <1>9 DEF Loads, KindFits
<1>15. Loads(fetch', query, db)
  BY <1>8, <1>11, <1>12, <1>13, <1>14 DEF Loads
<1>16. DevicesStay'
  <2> SUFFICES ASSUME calm
               PROVE  DevicesStay'
    BY <1>1 DEF DevicesStay
  <2>1. job # NoJob /\ DevicesStay
    BY <1>1 DEF NoJob, PageInv
  <2>2. \A j \in DOMAIN fetch : ~fetch[j].refresh
    BY <1>1, <2>1 DEF DevicesStay
  <2>3. \A k \in DOMAIN fetch' : fetch'[k].refresh => k = n
    BY <1>3, <1>8, <2>2
  <2>4. AtMostOneOff(job.query) /\ (OnPage(query) \/ query.page = job.query.page)
    BY <1>1, <2>1, <2>2 DEF DevicesStay
  <2>5. n \in DOMAIN fetch' /\ fetch'[n].refresh /\ fetch'[n].query = job.query /\ fetch'[n].items = Unread
    BY <1>4, <1>5, <1>6, <1>8, <1>10
  <2>6. job'.op = "none"
    BY <1>1 DEF NoJob
  <2> QED
    BY <1>1, <2>3, <2>4, <2>5, <2>6 DEF DevicesStay, OnPage, AtMostOneOff
<1>17. EmployeesStay'
  BY <1>1 DEF EmployeesStay
<1> QED
  BY <1>1, <1>2, <1>11, <1>15, <1>16, <1>17, EndedKeeps

-----------------------------------------------------------------------------
(* The invariant. *)

LEMMA StartType ==
    ASSUME Init
    PROVE  /\ query \in Queries /\ TypeOK /\ ConInv
           /\ fetch = <<NewLoad(query, query)>> /\ NewLoad(query, query) \in Fetches
<1>1. query \in Queries /\ query.page = 0 /\ typed \in [word : Searches, armed : BOOLEAN]
  <2>1. (CHOOSE x \in Searches : TRUE) \in Searches /\ (CHOOSE x \in Choices : TRUE) \in Choices
    BY WordsAssumption
  <2>2. 0 \in 0..MaxRows
    BY PageBounds
  <2> QED
    BY <2>1, <2>2 DEF Init, Queries, Searchable
<1>2. NewLoad(query, query) \in Fetches
  BY <1>1, PageBounds DEF NewLoad, Fetches, Unread, Nobody, Words
<1>3. fetch = <<NewLoad(query, query)>>
  <2>1. (IF Cancels THEN <<>> ELSE <<>>) = <<>>
    OBVIOUS
  <2> QED
    BY <2>1 DEF Init, Load, NewLoad
<1>4. ConTypeOK
  BY DEF Init, ConInit, ConTypeOK, Words
<1>5. ConInv
  <2>1. Macs(<<>>) = {} /\ \A t, w : EndsWith(<<>>, t, w)
    BY SilenceSays
  <2> QED
    BY <1>4, <2>1 DEF Init, ConInit, ConInv, BrokerKeepsLast, BackendHears, PageHears, SilentIsUnknown
<1>6. fetch \in Seq(Fetches)
  BY <1>2, <1>3
<1>7. /\ shown \in [query : Queries \cup {NoQuery}, items : {0, 1}, total : 0..MaxRows,
                    stamp : 0..MaxSteps, why : {"none", "fits", "late", "closure", "failed"}]
      /\ db \in [rows : 0..MaxRows, stamp : 0..MaxSteps]
      /\ job \in Jobs /\ steps \in 0..MaxSteps
      /\ summary \in [of : Queries \cup {NoQuery}, asked : Queries \cup {NoQuery}, raced : BOOLEAN]
  <2>1. 0 \in 0..MaxRows /\ 0 \in 0..MaxSteps /\ \A n \in 1..MaxRows : n \in 0..MaxRows
    BY PageBounds
  <2> QED
    BY <2>1 DEF Init, NoJob, Jobs
<1> QED
  BY <1>1, <1>2, <1>3, <1>4, <1>5, <1>6, <1>7 DEF TypeOK, Init

LEMMA StartInv ==
    ASSUME Init
    PROVE  ListInv
<1> DEFINE n == NewLoad(query, query)
<1>1. query \in Queries /\ TypeOK /\ ConInv /\ fetch = <<n>> /\ n \in Fetches
  BY StartType
<1>2. /\ n.query = query /\ n.items = Unread /\ n.stamp = 0 /\ n.why = "fits" /\ ~n.refresh
      /\ n.stage = (IF kind = "board" THEN "asked" ELSE "list")
      /\ \A t \in Terminals : n.snap[t] = "none"
  BY DEF NewLoad, Nobody
<1> HIDE DEF n
<1>3. fetch \in Seq(Fetches) /\ Len(fetch) = 1 /\ DOMAIN fetch = {1} /\ fetch[1] = n
      /\ LastOf(fetch) = n /\ fetch # <<>>
  BY <1>1 DEF LastOf
<1>4. db.stamp = 0 /\ db.rows \in Nat
  BY <1>1 DEF Init, TypeOK
<1>5. LastFits(fetch, query) /\ ReadsRows(fetch, db) /\ KindFits(fetch)
  BY <1>2, <1>3, <1>4 DEF LastFits, ReadsRows, KindFits
<1>6. Overtakes(fetch)
  BY <1>3 DEF Overtakes
<1>7. (fresh => LastIsFresh(fetch, db)) /\ ShownFits /\ ShownByKind
  BY <1>4 DEF Init, ShownFits, ShownByKind
<1>8. SummaryIsCurrent /\ TimerIsOfSearch /\ JobHasRow
  BY DEF Init, SummaryIsCurrent, TimerIsOfSearch, JobHasRow, NoJob
<1>9. query.page = 0 /\ job.op = "none"
  BY DEF Init, NoJob
<1>10. EmployeesStay /\ DevicesStay
  BY <1>2, <1>3, <1>9 DEF EmployeesStay, DevicesStay, OnPage
<1> QED
  BY <1>1, <1>3, <1>5, <1>6, <1>7, <1>8, <1>10 DEF ListInv, PageInv, Loads

\* A terminal speaks, the broker, the backend or the socket does something.
LEMMA BoardKeeps ==
    ASSUME ListInv, ConStep \/ (\E t \in Terminals : Rejoin(t)) \/ ConFault,
           UNCHANGED <<kind, query, typed, shown, loading, fetch, db, job, fresh, calm, summary>>,
           steps' = steps \/ Step
    PROVE  ListInv'
<1>1. ConInv' /\ ConTypeOK'
  BY ConKeeps DEF ListInv, ConInv
<1>2. \A t \in Terminals : last'[t] = "none" => last[t] = "none"
  BY SilenceStays DEF ListInv
<1>3. steps' \in 0..MaxSteps
  BY StepType DEF ListInv, PageInv, TypeOK
<1>4. TypeOK'
  BY <1>1, <1>3 DEF ListInv, PageInv, TypeOK
<1>5. TimerIsOfSearch' /\ SummaryIsCurrent'
  BY DEF ListInv, PageInv, TimerIsOfSearch, Searchable, Page, SummaryIsCurrent
<1> QED
  BY <1>1, <1>2, <1>4, <1>5, PageStaysPut DEF ListInv

LEMMA ServingKeeps ==
    ASSUME ListInv, NEW i \in DOMAIN fetch, Serving(i) \/ Fail(i)
    PROVE  ListInv'
<1> USE DEF ListInv
<1>1. CASE Serve(i)
  BY <1>1, ServeKeeps, ConUntouched DEF Serve
<1>2. CASE Answer(i)
  BY <1>2, AnswerKeeps, ConUntouched DEF Answer
<1>3. CASE ReadSnapshot(i)
  BY <1>3, ReadSnapshotKeeps, ConUntouched DEF ReadSnapshot
<1>4. CASE FinishDevices(i)
  BY <1>4, FinishDevicesKeeps
<1>5. CASE Fail(i)
  BY <1>5, FailKeeps, ConUntouched DEF Fail
<1> QED
  BY <1>1, <1>2, <1>3, <1>4, <1>5 DEF Serving

LEMMA UserKeeps ==
    ASSUME ListInv, User
    PROVE  ListInv'
<1> USE DEF ListInv
<1>1. ASSUME NEW w \in Searches, Type(w) PROVE ListInv'
  BY <1>1, TypeKeeps, ConUntouched DEF Type
<1>2. ASSUME NEW c \in Choices, Choose(c) PROVE ListInv'
  BY <1>2, ChooseKeeps, ConUntouched DEF Choose
<1>3. ASSUME NEW p \in 0..MaxRows, TurnPage(p) PROVE ListInv'
  BY <1>3, TurnPageKeeps, ConUntouched DEF TurnPage
<1>4. ASSUME NEW op \in Page.ops, StartJob(op) PROVE ListInv'
  BY <1>4, StartJobKeeps, ConUntouched DEF StartJob
<1>5. CASE RefreshList
  BY <1>5, RefreshListKeeps, ConUntouched DEF RefreshList
<1>6. CASE Calculate
  BY <1>6, SummaryKeeps, ConUntouched DEF Calculate
<1> QED
  BY <1>1, <1>2, <1>3, <1>4, <1>5, <1>6 DEF User

LEMMA EndJobKeeps ==
    ASSUME ListInv, EndJob
    PROVE  ListInv'
<1> USE DEF ListInv
<1>1. CASE EndSoftDelete
  BY <1>1, EndSoftDeleteKeeps, ConUntouched DEF EndSoftDelete
<1>2. CASE EndDevices
  BY <1>2, EndDevicesKeeps, ConUntouched DEF EndDevices
<1>3. CASE EndEmployees \/ EndCredentials \/ EndApprovals \/ EndRequests
  <2>1. UNCHANGED conVars
    BY <1>3 DEF EndEmployees, EndCredentials, EndApprovals, EndRequests, Reloaded
  <2> QED
    BY <1>3, <2>1, ReloadedKeeps, ConUntouched
<1> QED
  BY <1>1, <1>2, <1>3 DEF EndJob

\* Whatever a page, its backend and its terminals do keeps ListInv.
THEOREM ListInvariance == Spec => []ListInv
<1>1. Init => ListInv
  BY StartInv
<1>2. ListInv /\ [Next]_vars => ListInv'
  <2> SUFFICES ASSUME ListInv, [Next]_vars PROVE ListInv'
    OBVIOUS
  <2> USE DEF ListInv
  <2>1. CASE User
    BY <2>1, UserKeeps
  <2>2. CASE Debounced
    BY <2>2, DebouncedKeeps, ConUntouched DEF Debounced
  <2>3. ASSUME NEW i \in DOMAIN fetch, Serving(i) \/ Fail(i) PROVE ListInv'
    BY <2>3, ServingKeeps
  <2>4. CASE Execute
    BY <2>4, ExecuteKeeps, ConUntouched DEF Execute
  <2>5. CASE EndJob
    BY <2>5, EndJobKeeps
  <2>6. CASE FailJob
    BY <2>6, FailJobKeeps, ConUntouched DEF FailJob
  <2>7. CASE OtherChange
    BY <2>7, OtherChangeKeeps, ConUntouched DEF OtherChange
  <2>8. CASE ShowSummary
    BY <2>8, SummaryKeeps, ConUntouched DEF ShowSummary
  <2>9. CASE (ConStep \/ (\E t \in Terminals : Rejoin(t))) /\ UNCHANGED pageVars
    BY <2>9, BoardKeeps DEF pageVars
  <2>10. CASE Step /\ ConFault /\ UNCHANGED <<kind, query, typed, shown, loading, fetch, db, job, fresh, calm, summary>>
    BY <2>10, BoardKeeps
  <2>11. CASE UNCHANGED vars
    <3>1. UNCHANGED pageVars /\ UNCHANGED conVars
      BY <2>11 DEF vars
    <3>2. ConInv' /\ last' = last
      BY <3>1, ConUntouched DEF conVars
    <3>3. TypeOK' /\ TimerIsOfSearch' /\ SummaryIsCurrent'
      BY <3>1, <3>2 DEF PageInv, ConInv, TypeOK, pageVars, TimerIsOfSearch, Searchable, Page, SummaryIsCurrent
    <3> QED
      BY <3>1, <3>2, <3>3, PageStaysPut DEF pageVars
  <2> HIDE DEF ListInv
  <2> QED
    BY <2>1, <2>2, <2>3, <2>4, <2>5, <2>6, <2>7, <2>8, <2>9, <2>10, <2>11 DEF Next
<1> QED
  BY <1>1, <1>2, PTL DEF Spec

-----------------------------------------------------------------------------
(* What it says. *)

\* On every page, of every size and with any number of loads under way: what
\* a settled page shows is what it asks for, but for the excuses it names.
THEOREM SettledPages == Spec => []SettledPageFits
<1>1. ListInv => SettledPageFits
  <2> SUFFICES ASSUME ListInv PROVE SettledPageFits
    OBVIOUS
  <2> USE DEF ListInv, PageInv
  <2>1. TypeOK /\ SummaryFits
    BY DEF SummaryFits, SummaryIsCurrent
  <2>2. ASSUME Settled, shown.items = 1
        PROVE  \/ shown.query = query
               \/ shown.why \in {"late", "closure"} /\ kind # "portal"
               \/ shown.why = "failed" /\ Page.clears = "nothing"
    <3>1. ~Pends(fetch)
      BY <2>2 DEF Settled, Pends
    <3>2. shown.why \in {"none", "fits", "late", "closure", "failed"}
      BY DEF TypeOK
    <3> QED
      BY <2>2, <3>1, <3>2 DEF ShownFits, ShownByKind
  <2> QED
    BY <2>1, <2>2 DEF SettledPageFits, SettledRowsFit
<1> QED
  BY <1>1, ListInvariance, PTL

\* Of the user's own changes: a settled page shows the last one, and whoever
\* removes the last row of a page is taken to a page that is there.
THEOREM OwnChanges == Spec => []OwnChangeIsShown
<1>1. ListInv => OwnChangeIsShown
  <2> SUFFICES ASSUME ListInv, Settled, fresh, shown.why = "fits"
               PROVE  /\ shown.stamp = db.stamp
                      /\ calm /\ kind \in {"employees", "devices"} => shown.items = 1 \/ query.page = 0
    BY DEF OwnChangeIsShown, NoEmptyPage
  <2> USE DEF ListInv, PageInv
  <2>1. ~Pends(fetch)
    BY DEF Settled, Pends
  <2>2. shown.query = query /\ shown.stamp = db.stamp /\ shown.items = Rows(query, db)
    BY <2>1 DEF ShownFits
  <2>3. ASSUME calm, kind \in {"employees", "devices"}
        PROVE  OnPage(query)
    <3>1. job.op = "none" /\ DOMAIN fetch = {}
      BY DEF Settled, NoJob
    <3> QED
      BY <2>3, <3>1 DEF EmployeesStay, DevicesStay
  <2> QED
    BY <2>2, <2>3 DEF OnPage, Rows
<1> QED
  BY <1>1, ListInvariance, PTL

\* Of any number of terminals the board shows exactly those off line whose
\* last word was OFFLINE, but for those whose word was missed or crossed.
THEOREM LastWords == Spec => []BoardShowsLastWord
<1>1. ListInv => BoardShowsLastWord
  BY ConSaysLast DEF ListInv
<1> QED
  BY <1>1, ListInvariance, PTL
=============================================================================
