---------------------------- MODULE Notifications ----------------------------
(***************************************************************************)
(* The bell of the web client, composed with the session it belongs to.    *)
(* NotificationsService stores a notification and pushes it to the owner's *)
(* sockets; NotificationProvider fetches the unread count and the list     *)
(* once, when the tab becomes signed in, and then counts on its own what   *)
(* is pushed and what is marked as read.                                   *)
(***************************************************************************)
EXTENDS WebSession

CONSTANTS
    Notes,   \* the notifications of an instance, in the order they are made
    PageSize,  \* the notifications that a fetch of the list asks for
    Old      \* the owners of those made, pushed and not read before it begins

ASSUME NotesAssumption == Notes \subseteq Nat \ {0} /\ Old \in Seq(Users) /\ DOMAIN Old \subseteq Notes
ASSUME PageSizeAssumption == PageSize \in Nat \ {0}

VARIABLES
    nt,      \* the table: owner, is_read, and whether the push has been sent
    wire,    \* notification:new events on the tab's socket
    socket,  \* whether it is connected or refused, for whom, and its token's era
    loads,   \* the fetches of the count and the list, oldest first
    mark,    \* PATCH notifications/:id/read or read-all
    cl,      \* unreadCount and notifications, newest first
    missed   \* history: "count" or "list" when it has missed something

notVars == <<nt, wire, socket, loads, mark, cl, missed>>
vars == <<sesVars, notVars>>

Both == {"count", "list"}
Unmade == [owner |-> NoUser, read |-> FALSE, pushed |-> FALSE]
NoMark == [pc |-> "idle", token |-> NoToken, what |-> {}]
Entries == [id : Notes, read : BOOLEAN]
Off == [up |-> FALSE, user |-> NoUser, era |-> 0, refused |-> FALSE]

NotTypeOK ==
    /\ nt \in [Notes -> [owner : Users \cup {NoUser}, read : BOOLEAN, pushed : BOOLEAN]]
    /\ wire \in Seq(Notes)
    /\ socket \in [up : BOOLEAN, user : Users \cup {NoUser}, era : Nat, refused : BOOLEAN]
    /\ \A i \in DOMAIN loads :
         /\ loads[i].what \in Both /\ loads[i].token \in Tokens \cup {NoToken}
         /\ loads[i].pc \in {"sent", "ok", "no"} /\ loads[i].items \in Seq(Entries)
         /\ loads[i].crossed \in BOOLEAN
    /\ mark \in [pc : {"idle", "sent", "ok", "no"}, token : Tokens \cup {NoToken}, what : SUBSET Notes]
    /\ cl.count \in Nat /\ cl.list \in Seq(Entries)
    /\ missed \subseteq Both

NotInit ==
    /\ nt = [n \in Notes |-> IF n \in DOMAIN Old
                               THEN [owner |-> Old[n], read |-> FALSE, pushed |-> TRUE]
                               ELSE Unmade]
    /\ wire = <<>> /\ socket = Off /\ loads = <<>> /\ mark = NoMark
    /\ cl = [count |-> 0, list |-> <<>>] /\ missed = {}
Init == SesInit /\ NotInit

Own(u) == {n \in Notes : nt[n].owner = u}
Unread(u) == {n \in Own(u) : ~nt[n].read}
\* Made, but not yet with the client.
Pending(u) == {n \in Own(u) : ~nt[n].pushed \/ \E i \in DOMAIN wire : wire[i] = n}
\* findByEmployee: a page of the newest.
Newest(S) == {n \in S : Cardinality({k \in S : k > n}) < PageSize}
\* The newest first.
Listed(S) ==
    CHOOSE s \in [1..Cardinality(S) -> {[id |-> n, read |-> nt[n].read] : n \in S}] :
      \A i, j \in DOMAIN s : i < j => s[i].id > s[j].id

On(c) == c.auth /\ ~c.boot
\* Answers that were read before what happens now.
Crossed(f) == [i \in DOMAIN f |-> IF f[i].pc = "ok" THEN [f[i] EXCEPT !.crossed = TRUE] ELSE f[i]]

-----------------------------------------------------------------------------
(* What NotificationProvider's effect makes of a step of the session. *)

Start(what) == [what |-> what, token |-> store', pc |-> "sent", items |-> <<>>, crossed |-> FALSE]
\* Fetches of an earlier sign-in go on.
Outdated(f) == [i \in DOMAIN f |-> [f[i] EXCEPT !.crossed = TRUE]]

\* Signed in: both fetches, and a socket for the owner of the token.  What the
\* client held before stays until they are answered.
Fetch ==
    /\ loads' = Outdated(loads) \o <<Start("count"), Start("list")>>
    /\ socket' = Off /\ missed' = Both /\ UNCHANGED <<wire, mark, cl>>
Subscribe ==
    /\ loads' = Outdated(loads) \o <<Start("count"), Start("list")>>
    /\ socket' = [Off EXCEPT !.user = store'.user, !.era = store'.era]
    /\ missed' = Both
    /\ UNCHANGED <<wire, mark, cl>>

Unsubscribe == socket' = Off /\ wire' = <<>> /\ UNCHANGED <<loads, mark, cl, missed>>

Effect ==
    /\ UNCHANGED nt
    /\ CASE ~On(ctx) /\ On(ctx') -> Subscribe
         [] On(ctx) /\ ~On(ctx') -> Unsubscribe
         [] OTHER                -> UNCHANGED <<wire, socket, loads, mark, cl, missed>>

\* The page was loaded anew: nothing of before is left in the client.
Forget ==
    /\ cl' = [count |-> 0, list |-> <<>>] /\ loads' = <<>> /\ mark' = NoMark
    /\ socket' = Off /\ wire' = <<>> /\ missed' = {} /\ UNCHANGED nt

-----------------------------------------------------------------------------
(* Pushes. *)

\* create: insert, then emit to the owner's room.
Make(n, u) ==
    /\ nt[n].owner = NoUser /\ \A k \in Notes : k < n => nt[k].owner # NoUser
    /\ nt' = [nt EXCEPT ![n] = [Unmade EXCEPT !.owner = u]]
    /\ loads' = Crossed(loads)
    /\ UNCHANGED <<wire, socket, mark, cl, missed, sesVars>>

Push(n) ==
    /\ nt[n].owner # NoUser /\ ~nt[n].pushed
    /\ nt' = [nt EXCEPT ![n].pushed = TRUE]
    /\ IF nt[n].owner # socket.user THEN UNCHANGED <<wire, missed>>
       ELSE IF socket.up THEN wire' = Append(wire, n) /\ UNCHANGED missed
       ELSE missed' = Both /\ UNCHANGED wire
    /\ loads' = Crossed(loads)
    /\ UNCHANGED <<socket, mark, cl, sesVars>>

\* The server stops in between; nobody pushes the row later.
LosePush(n) ==
    /\ Step /\ nt[n].owner # NoUser /\ ~nt[n].pushed
    /\ nt' = [nt EXCEPT ![n].pushed = TRUE]
    /\ missed' = Both /\ loads' = Crossed(loads)
    /\ UNCHANGED <<wire, socket, mark, cl, acct, store, ctx, path, me, signin, change, era, odd>>

Uncounted(n) == [cl EXCEPT !.list = <<[id |-> n, read |-> FALSE]>> \o @]
Counted(n) == [count |-> cl.count + 1, list |-> <<[id |-> n, read |-> FALSE]>> \o cl.list]
Receive ==
    /\ wire # <<>> /\ wire' = Tail(wire)
    /\ cl' = Counted(Head(wire))
    /\ missed' = IF mark.pc = "ok" THEN Both ELSE missed
    /\ loads' = Crossed(loads)
    /\ UNCHANGED <<nt, socket, mark, sesVars>>

\* handleConnection: the token the socket was made with names the room.  If
\* it has expired the server disconnects, and socket.io does not try again.
Connect ==
    /\ socket.user # NoUser /\ ~socket.up /\ ~socket.refused
    /\ socket' = IF Lasts(socket) THEN [socket EXCEPT !.up = TRUE]
                                 ELSE [socket EXCEPT !.refused = TRUE]
    /\ UNCHANGED <<nt, wire, loads, mark, cl, missed, sesVars>>

DropSocket ==
    /\ Step /\ socket.up
    /\ socket' = [socket EXCEPT !.up = FALSE] /\ wire' = <<>>
    /\ IF wire = <<>> THEN UNCHANGED <<missed, loads>> ELSE missed' = Both /\ loads' = Crossed(loads)
    /\ UNCHANGED <<nt, mark, cl, acct, store, ctx, path, me, signin, change, era, odd>>

-----------------------------------------------------------------------------
(* Fetches. *)

ServeLoad(i) ==
    /\ loads[i].pc = "sent"
    /\ LET u == loads[i].token.user IN
       loads' = IF ~Admitted(loads[i].token) THEN [loads EXCEPT ![i].pc = "no"]
                ELSE [loads EXCEPT ![i].pc = "ok",
                        ![i].items = Listed(IF loads[i].what = "count" THEN Unread(u) ELSE Newest(Own(u))),
                        ![i].crossed = @ \/ Pending(u) # {} \/ mark.pc # "idle"]
    /\ UNCHANGED <<nt, wire, socket, mark, cl, missed, sesVars>>

Without(f, i) == SubSeq(f, 1, i - 1) \o SubSeq(f, i + 1, Len(f))

\* A failure is silent and changes nothing.
AnswerLoad(i) ==
    /\ loads[i].pc \in {"ok", "no"} /\ loads' = Without(loads, i)
    /\ LET load == loads[i] IN
       /\ cl' = CASE load.pc = "ok" /\ load.what = "count" -> [cl EXCEPT !.count = Len(load.items)]
                  [] load.pc = "ok" /\ load.what = "list"  -> [cl EXCEPT !.list = load.items]
                  [] OTHER                                 -> cl
       /\ missed' = IF load.pc = "ok" /\ ~load.crossed THEN missed \ {load.what}
                                                       ELSE missed \cup {load.what}
    /\ UNCHANGED <<nt, wire, socket, mark, sesVars>>

-----------------------------------------------------------------------------
(* Marking as read. *)

\* Bound: one request at a time.  A click on an entry that is read already
\* sends it again, and the answer counts down again.
MarkAsRead(k) ==
    /\ Step /\ On(ctx) /\ path = "portal" /\ mark.pc = "idle"
    /\ LET n == cl.list[k].id IN
       /\ mark' = [pc |-> "sent", token |-> store, what |-> {n}]
       /\ missed' = IF nt[n].read \/ n \in Pending(nt[n].owner) THEN missed \cup {"count"} ELSE missed
    /\ loads' = Crossed(loads)
    /\ UNCHANGED <<nt, wire, socket, cl, acct, store, ctx, path, me, signin, change, era, odd>>

MarkAllAsRead ==
    /\ Step /\ On(ctx) /\ path = "portal" /\ mark.pc = "idle" /\ cl.count > 0
    /\ mark' = [pc |-> "sent", token |-> store, what |-> Notes]
    /\ loads' = Crossed(loads)
    /\ UNCHANGED <<nt, wire, socket, cl, missed, acct, store, ctx, path, me, signin, change, era, odd>>

All(what) == what = Notes
ServeMark ==
    /\ mark.pc = "sent"
    /\ LET u == mark.token.user
           mine == mark.what \cap Own(u)
       IN  IF Admitted(mark.token) /\ (All(mark.what) \/ mine # {})
             THEN /\ nt' = [n \in Notes |-> IF n \in mine THEN [nt[n] EXCEPT !.read = TRUE] ELSE nt[n]]
                  /\ mark' = [mark EXCEPT !.pc = "ok"]
                  /\ missed' = IF Pending(u) # {} THEN Both ELSE missed
             ELSE mark' = [mark EXCEPT !.pc = "no"] /\ UNCHANGED <<nt, missed>>
    /\ loads' = Crossed(loads)
    /\ UNCHANGED <<wire, socket, cl, sesVars>>

\* The answer is lost.
LoseMark ==
    /\ Step /\ mark.pc = "ok" /\ mark' = NoMark /\ missed' = Both
    /\ loads' = Crossed(loads)
    /\ UNCHANGED <<nt, wire, socket, cl, acct, store, ctx, path, me, signin, change, era, odd>>

Marked(e) == [e EXCEPT !.read = @ \/ e.id \in mark.what]
LessOne == IF cl.count > 0 THEN cl.count - 1 ELSE 0
AnswerMark ==
    /\ mark.pc \in {"ok", "no"} /\ mark' = NoMark
    /\ cl' = IF mark.pc = "no" THEN cl
             ELSE [list |-> [k \in DOMAIN cl.list |-> Marked(cl.list[k])],
                   count |-> IF All(mark.what) THEN 0 ELSE LessOne]
    /\ loads' = Crossed(loads)
    /\ UNCHANGED <<nt, wire, socket, missed, sesVars>>

-----------------------------------------------------------------------------
Answering(i) == i \in DOMAIN loads /\ (ServeLoad(i) \/ AnswerLoad(i))
Delivery ==
    \/ \E n \in Notes : Push(n)
    \/ Receive \/ Connect \/ ServeMark \/ AnswerMark
    \/ \E i \in DOMAIN loads : Answering(i)

Next ==
    \/ (SesAnswer \/ SesUser) /\ Effect
    \/ Reload /\ Forget
    \/ Delivery
    \/ \E n \in Notes, u \in Users : Make(n, u)
    \/ \E n \in Notes : LosePush(n)
    \/ DropSocket \/ LoseMark \/ MarkAllAsRead
    \/ \E k \in DOMAIN cl.list : MarkAsRead(k)

Spec == Init /\ [][Next]_vars

\* The backend answers, React renders, socket.io delivers and connects again.
FairSpec == Spec /\ WF_vars(SesAnswer /\ Effect) /\ WF_vars(Delivery)

-----------------------------------------------------------------------------
(* Properties. *)

Quiet == loads = <<>> /\ mark.pc = "idle" /\ Pending(socket.user) = {}
Regular == odd \cap {"hurried", "late", "shared"} = {}

\* With nothing on its way the badge shows the number of unread notifications,
\* unless a push was lost, an answer crossed something newer, or an entry that
\* was read already was clicked.
QuietBadgeIsExact ==
    Regular /\ On(ctx) /\ Quiet /\ "count" \notin missed => cl.count = Cardinality(Unread(socket.user))

\* With the same exceptions, the list shows the newest notifications of the
\* user that is signed in, each once and as it is, and none of the user before;
\* what it leaves out is older than all it shows, and then it fills a page.
QuietListIsExact ==
    Regular /\ On(ctx) /\ Quiet /\ "list" \notin missed =>
      /\ \A j, k \in DOMAIN cl.list : cl.list[j].id = cl.list[k].id => j = k
      /\ \A k \in DOMAIN cl.list :
           LET n == cl.list[k].id IN nt[n].owner = ctx.profile /\ nt[n].read = cl.list[k].read
      /\ \A n \in Own(ctx.profile) :
           \/ \E k \in DOMAIN cl.list : cl.list[k].id = n
           \/ Len(cl.list) >= PageSize /\ \A k \in DOMAIN cl.list : n < cl.list[k].id

\* The bell is exact when nothing is on its way.
QuietBellIsExact == NotTypeOK /\ QuietBadgeIsExact /\ QuietListIsExact

\* The session is that of the token, in a tab of the portal, too.
SessionFollowsToken == SesTypeOK /\ SignedInAsTokenOwner /\ PortalTokenIsFull

\* Whoever stays signed in is subscribed to what is pushed from some time on,
\* with the exceptions of SignedInAsTokenOwner, for as long as the token lasts
\* that the socket was made with: afterwards a lost connection is not restored.
StaysSubscribed ==
    <>[](On(ctx) /\ Regular) => <>[](socket.user # NoUser /\ (socket.up \/ ~Lasts(socket)))
=============================================================================
