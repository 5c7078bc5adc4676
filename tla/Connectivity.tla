---------------------------- MODULE Connectivity ----------------------------
(***************************************************************************)
(* Which terminals the managers' board shows as off line.  A terminal says *)
(* ACTIVE from time to time and leaves a last will, OFFLINE, with the      *)
(* broker; all terminals use one retained topic, so the broker keeps only  *)
(* the last message of any of them.  MqttService keeps what it hears in    *)
(* memory and pushes it to the managers' sockets; DevicesPage merges these *)
(* events with a snapshot it asks for after every load of its list.        *)
(***************************************************************************)
EXTENDS Naturals, Sequences, FiniteSets

CONSTANT Terminals

VARIABLES
    link,      \* the terminals with an MQTT session
    last,      \* history: the last status each of them has published
    retained,  \* what the broker keeps for the status topic
    live,      \* the backend is subscribed
    wire,      \* status messages on their way to the backend
    known,     \* deviceOnlineMap
    events,    \* device:status events on their way to the page
    board,     \* onlineMap of the page
    missed,    \* history: terminals whose last status the backend has not heard
    crossed    \* history: terminals whose last event the page has not kept

conVars == <<link, last, retained, live, wire, known, events, board, missed, crossed>>

Words == {"none", "ACTIVE", "OFFLINE"}
Statuses == [mac : Terminals, status : {"ACTIVE", "OFFLINE"}]
Silent == [mac |-> "none", status |-> "none"]

ConTypeOK ==
    /\ link \subseteq Terminals
    /\ last \in [Terminals -> Words] /\ known \in [Terminals -> Words]
    /\ board \in [Terminals -> Words]
    /\ retained \in Statuses \cup {Silent}
    /\ live \in BOOLEAN
    /\ wire \in Seq(Statuses) /\ events \in Seq(Statuses)
    /\ missed \subseteq Terminals /\ crossed \subseteq Terminals

ConInit ==
    /\ link = Terminals /\ retained = Silent /\ live = TRUE
    /\ last = [t \in Terminals |-> "none"] /\ known = last /\ board = last
    /\ wire = <<>> /\ events = <<>> /\ missed = {} /\ crossed = {}

Macs(s) == {s[i].mac : i \in DOMAIN s}

\* A retained message, from the terminal or from the broker for it.
Announce(t, s) ==
    LET m == [mac |-> t, status |-> s] IN
    /\ last' = [last EXCEPT ![t] = s]
    /\ retained' = m
    /\ wire' = IF live THEN Append(wire, m) ELSE wire
    /\ missed' = IF live THEN missed \ {t} ELSE missed \cup {t}

\* publishOnlineStatus, registered or not.  Bound: one message of a
\* terminal on its way at a time.
Beat(t) ==
    /\ t \in link /\ t \notin Macs(wire) \cup Macs(events)
    /\ Announce(t, "ACTIVE")
    /\ UNCHANGED <<link, live, known, events, board, crossed>>

\* The broker publishes the last will.
Drop(t) ==
    /\ t \in link /\ link' = link \ {t}
    /\ Announce(t, "OFFLINE")
    /\ UNCHANGED <<live, known, events, board, crossed>>

Rejoin(t) ==
    /\ t \notin link /\ link' = link \cup {t}
    /\ UNCHANGED <<last, retained, live, wire, known, events, board, missed, crossed>>

\* handleStatusMessage: remembered, and pushed to the role MANAGER.
HandleStatus ==
    /\ wire # <<>> /\ wire' = Tail(wire)
    /\ known' = [known EXCEPT ![Head(wire).mac] = Head(wire).status]
    /\ events' = Append(events, Head(wire))
    /\ UNCHANGED <<link, last, retained, live, board, missed, crossed>>

\* The broker connection is lost, or the process is restarted and forgets.
LoseBackend(restart) ==
    /\ live /\ live' = FALSE
    /\ missed' = missed \cup Macs(wire) \cup (IF restart THEN {t \in Terminals : last[t] # "none"} ELSE {})
    /\ wire' = <<>>
    /\ known' = IF restart THEN [t \in Terminals |-> "none"] ELSE known
    /\ events' = IF restart THEN <<>> ELSE events
    /\ crossed' = IF restart THEN crossed \cup Macs(events) ELSE crossed
    /\ UNCHANGED <<link, last, retained, board>>

\* on('connect'): the topic is subscribed again and the broker sends what it
\* has kept of it, one message for all terminals.
Subscribe ==
    /\ ~live /\ live' = TRUE
    /\ wire' = IF retained = Silent THEN <<>> ELSE <<retained>>
    /\ missed' = missed \ {retained.mac}
    /\ UNCHANGED <<link, last, retained, known, events, board, crossed>>

\* The page's listener; a socket that reconnects has lost what was sent.
LastShown(m) == [board EXCEPT ![m.mac] = m.status]
ShowEvent ==
    /\ events # <<>> /\ events' = Tail(events)
    /\ board' = LastShown(Head(events))
    /\ crossed' = crossed \ {Head(events).mac}
    /\ UNCHANGED <<link, last, retained, live, wire, known, missed>>

LoseSocket ==
    /\ events # <<>> /\ events' = <<>>
    /\ crossed' = crossed \cup Macs(events)
    /\ UNCHANGED <<link, last, retained, live, wire, known, board, missed>>

\* loadDevices: the snapshot overwrites what the events have set.
AllMerged(snap) == [t \in Terminals |-> IF snap[t] = "none" THEN "OFFLINE" ELSE snap[t]]
Merged(snap) == [t \in Terminals |-> IF snap[t] = "none" THEN board[t] ELSE snap[t]]
MergeSnapshot(snap) ==
    /\ board' = Merged(snap)
    /\ crossed' = {t \in Terminals : IF snap[t] = "none" THEN t \in crossed ELSE snap[t] # known[t]}
    /\ UNCHANGED <<link, last, retained, live, wire, known, events, missed>>

\* effectiveStatus of a device whose row is ACTIVE.
ShownOffline(t) == board[t] = "OFFLINE"

ConStep == (\E t \in Terminals : Beat(t)) \/ HandleStatus \/ Subscribe \/ ShowEvent
ConFault ==
    \/ \E t \in Terminals : Drop(t)
    \/ \E r \in BOOLEAN : LoseBackend(r)
    \/ LoseSocket

-----------------------------------------------------------------------------
(* Properties. *)

\* Once nothing is on its way the board shows exactly the terminals off line
\* whose last word was OFFLINE.  Two things break that: a backend that has
\* missed a last will and gets only the last message of all terminals when it
\* is back, and a snapshot that overtakes an event.
BoardShowsLastWord ==
    wire = <<>> /\ events = <<>> =>
      \A t \in Terminals \ (missed \cup crossed) : ShownOffline(t) <=> last[t] = "OFFLINE"

\* Either way the next heartbeat heals it: a terminal that stays connected is
\* not shown off line for good.
ConnectedIsShown ==
    \A t \in Terminals : <>[](t \in link) => <>[](~ShownOffline(t))
=============================================================================
