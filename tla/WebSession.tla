----------------------------- MODULE WebSession -----------------------------
(***************************************************************************)
(* Who is signed in: AuthService with its guards, and one tab of the web   *)
(* client, AuthContext with the pages that route by it.  The access token  *)
(* lives in localStorage, which all tabs share and nobody watches; what    *)
(* the tab believes lives in React state, set by the answers of calls that *)
(* overlap.  All tokens that have been issued may expire at any time.      *)
(***************************************************************************)
EXTENDS Naturals, Sequences, FiniteSets

CONSTANTS
    Users, NoUser,
    New,       \* the accounts with a generated password at the beginning
    MaxSteps   \* bound on what people and faults do

ASSUME UsersAssumption == NoUser \notin Users /\ New \subseteq Users
ASSUME MaxStepsAssumption == MaxSteps \in Nat

VARIABLES
    acct,    \* the accounts: is_active and must_change_password
    store,   \* the token in localStorage
    ctx,     \* the state of AuthContext
    path,    \* the page: login, portal or change (change-password)
    me,      \* GET auth/me of the bootstrap
    signin,  \* POST auth/login
    change,  \* POST auth/change-password
    era,     \* tokens issued in an earlier era have expired
    odd,     \* history: what has happened that AuthContext does not expect
    steps

sesVars == <<acct, store, ctx, path, me, signin, change, era, odd, steps>>

NoToken == [user |-> NoUser, scope |-> "none", era |-> 0]
Tokens == [user : Users, scope : {"full", "change"}, era : Nat]
SignedOut == [boot |-> FALSE, auth |-> FALSE, requires |-> FALSE, profile |-> NoUser]
NoMe == [pc |-> "idle", token |-> NoToken, must |-> FALSE]
NoSignin == [pc |-> "idle", user |-> NoUser, must |-> FALSE]
NoChange == [pc |-> "idle", user |-> NoUser, heard |-> TRUE]

SesTypeOK ==
    /\ acct \in [Users -> [active : BOOLEAN, must : BOOLEAN]]
    /\ store \in Tokens \cup {NoToken}
    /\ ctx \in [boot : BOOLEAN, auth : BOOLEAN, requires : BOOLEAN, profile : Users \cup {NoUser}]
    /\ path \in {"login", "portal", "change"}
    /\ me \in [pc : {"idle", "sent", "ok", "no"}, token : Tokens \cup {NoToken}, must : BOOLEAN]
    /\ signin \in [pc : {"idle", "sent", "ok", "no"}, user : Users \cup {NoUser}, must : BOOLEAN]
    /\ change \in [pc : {"idle", "sent", "read", "ok", "no"}, user : Users \cup {NoUser},
                  heard : BOOLEAN]
    /\ era \in Nat
    /\ odd \subseteq {"hurried", "late", "shared", "elsewhere"}
    /\ steps \in 0..MaxSteps

Step == steps < MaxSteps /\ steps' = steps + 1

\* The page loaded anew with the token t: the bootstrap asks who it is.
Loaded(t) ==
    /\ ctx' = [SignedOut EXCEPT !.boot = t # NoToken]
    /\ me' = IF t = NoToken THEN NoMe ELSE [pc |-> "sent", token |-> t, must |-> FALSE]

\* What the backend signs in an account: whoever must change the password gets
\* a token for nothing else.
NextScope(must) == IF must THEN "change" ELSE "full"
Issued(u, must) == [user |-> u, scope |-> NextScope(must), era |-> era]

\* The tab is opened, with a token of an earlier visit or without.
SesInit ==
    /\ acct = [u \in Users |-> [active |-> TRUE, must |-> u \in New]] /\ era = 0
    /\ store \in {NoToken} \cup {Issued(u, acct[u].must) : u \in Users}
    /\ ctx = [SignedOut EXCEPT !.boot = store # NoToken]
    /\ me = IF store = NoToken THEN NoMe ELSE [pc |-> "sent", token |-> store, must |-> FALSE]
    /\ path = IF store = NoToken THEN "login" ELSE "portal"
    /\ signin = NoSignin /\ change = NoChange
    /\ odd = {} /\ steps = 0

\* Where a page p ends after the redirects of ProtectedRoute and LoginPage.
Routed(c, p) ==
    CASE c.boot                         -> p
      [] ~c.boot /\ ~c.auth             -> "login"
      [] ~c.boot /\ c.auth /\ c.requires -> "change"
      [] OTHER                          -> IF p = "login" THEN "portal" ELSE p

-----------------------------------------------------------------------------
(* The backend. *)

\* Passport refuses an expired token, and JwtStrategy.validate looks the
\* account up again for every request.
Lasts(t) == t.era = era
Validated(t) == t # NoToken /\ Lasts(t) /\ acct[t.user].active
\* ScopeGuard: a token for changing the password is good for two endpoints.
Admitted(t) == Validated(t) /\ t.scope = "full"

ServeMe ==
    /\ me.pc = "sent"
    /\ me' = IF Validated(me.token)
               THEN [me EXCEPT !.pc = "ok", !.must = acct[me.token.user].must]
               ELSE [me EXCEPT !.pc = "no"]
    /\ UNCHANGED <<acct, store, ctx, path, signin, change, era, odd, steps>>

\* A wrong password is an answer like that of an inactive account.
ServeLogin ==
    /\ signin.pc = "sent"
    /\ \/ acct[signin.user].active
          /\ signin' = [signin EXCEPT !.pc = "ok", !.must = acct[signin.user].must]
       \/ signin' = [signin EXCEPT !.pc = "no"]
    /\ UNCHANGED <<acct, store, ctx, path, me, change, era, odd, steps>>

\* changePassword verifies and hashes between its read and its update.  It
\* refuses an expired token and a wrong password as well.
ReadAccount ==
    /\ change.pc = "sent"
    /\ \/ acct[change.user].active /\ change' = [change EXCEPT !.pc = "read"]
       \/ change' = [change EXCEPT !.pc = "no"]
    /\ UNCHANGED <<acct, store, ctx, path, me, signin, era, odd, steps>>
UpdatePassword ==
    /\ change.pc = "read"
    /\ change' = [change EXCEPT !.pc = "ok"]
    /\ acct' = [acct EXCEPT ![change.user].must = FALSE]
    /\ UNCHANGED <<store, ctx, path, me, signin, era, odd, steps>>

\* A call fails on its way.
FailCall ==
    /\ Step
    /\ \/ me.pc \in {"sent", "ok"} /\ me' = [me EXCEPT !.pc = "no"] /\ UNCHANGED <<signin, change, odd>>
       \/ signin.pc \in {"sent", "ok"} /\ signin' = [signin EXCEPT !.pc = "no"] /\ UNCHANGED <<me, change, odd>>
       \/ /\ change.pc \in {"sent", "ok"} /\ change' = [change EXCEPT !.pc = "no"]
          /\ odd' = IF change.pc = "ok" THEN odd \cup {"elsewhere"} ELSE odd
          /\ UNCHANGED <<me, signin>>
    /\ UNCHANGED <<acct, store, ctx, path, era>>

\* resetPassword: a generated password, to be changed at the next sign-in.
ResetPassword(u) ==
    /\ Step
    /\ acct' = [acct EXCEPT ![u].must = TRUE]
    /\ UNCHANGED <<store, ctx, path, me, signin, change, era, odd>>

Deactivate(u) ==
    /\ Step /\ acct[u].active /\ acct' = [acct EXCEPT ![u].active = FALSE]
    /\ UNCHANGED <<store, ctx, path, me, signin, change, era, odd>>

\* The password is changed in another browser.
ChangeElsewhere(u) ==
    /\ Step /\ acct[u].must /\ acct' = [acct EXCEPT ![u].must = FALSE]
    /\ odd' = odd \cup {"elsewhere"}
    /\ UNCHANGED <<store, ctx, path, me, signin, change, era>>

\* One hour after a sign-in, ten minutes if it was for changing the password.
\* Bound: what was issued before expires together.
Expire ==
    /\ Step /\ era' = era + 1
    /\ UNCHANGED <<acct, store, ctx, path, me, signin, change, odd>>

-----------------------------------------------------------------------------
(* The tab. *)

\* A failed bootstrap removes whatever token is there by now.
AsBefore == ctx.requires
Required == ctx.requires \/ me.must
FailedBootstrap == [ctx EXCEPT !.auth = FALSE, !.profile = NoUser]
NoBootstrap == [FailedBootstrap EXCEPT !.boot = FALSE]
EndBootstrap ==
    /\ me.pc \in {"ok", "no"} /\ me' = NoMe
    /\ \/ /\ me.pc = "ok" /\ UNCHANGED store
          /\ ctx' = [boot |-> FALSE, auth |-> TRUE, requires |-> Required,
                     profile |-> me.token.user]
       \/ me.pc = "no" /\ ctx' = NoBootstrap /\ store' = NoToken
    /\ path' = Routed(ctx', path)
    /\ UNCHANGED <<acct, signin, change, era, odd, steps>>

\* LoginPage does not wait for the bootstrap.
SubmitLogin(u) ==
    /\ Step /\ path = "login" /\ signin.pc = "idle"
    /\ signin' = [pc |-> "sent", user |-> u, must |-> FALSE]
    /\ odd' = IF ctx.boot THEN odd \cup {"hurried"} ELSE odd
    /\ UNCHANGED <<acct, store, ctx, path, me, change, era>>

EndLogin ==
    /\ signin.pc \in {"ok", "no"} /\ signin' = NoSignin
    /\ IF signin.pc = "no" THEN UNCHANGED <<store, ctx, path>> ELSE
         /\ store' = Issued(signin.user, signin.must)
         /\ ctx' = [ctx EXCEPT !.auth = TRUE, !.requires = signin.must,
                               !.profile = IF signin.must THEN NoUser ELSE signin.user]
         /\ path' = Routed(ctx', IF signin.must THEN "change" ELSE "portal")
    /\ UNCHANGED <<acct, me, change, era, odd, steps>>

\* The menu of MainLayout; calls on their way are not called back.
Logout ==
    /\ Step /\ path = "portal" /\ ctx.auth /\ ~ctx.boot
    /\ store' = NoToken
    /\ ctx' = [SignedOut EXCEPT !.boot = ctx.boot] /\ path' = "login"
    /\ odd' = IF signin.pc # "idle" \/ change.pc # "idle" THEN odd \cup {"late"} ELSE odd
    /\ UNCHANGED <<acct, me, signin, change, era>>

SubmitChange ==
    /\ Step /\ path = "change" /\ ctx.auth /\ change.pc = "idle" /\ store # NoToken
    /\ change' = [pc |-> "sent", user |-> store.user, heard |-> TRUE]
    /\ UNCHANGED <<acct, store, ctx, path, me, signin, era, odd>>

\* onPasswordChanged, wherever the user is by now.
EndChange ==
    /\ change.pc \in {"ok", "no"} /\ change' = NoChange
    /\ odd' = IF change.pc = "ok" /\ ~change.heard THEN odd \cup {"elsewhere"} ELSE odd
    /\ IF change.pc = "no" \/ ~change.heard THEN UNCHANGED <<store, ctx, path>> ELSE
         /\ store' = Issued(change.user, FALSE)
         /\ ctx' = [ctx EXCEPT !.auth = TRUE, !.requires = FALSE, !.profile = change.user]
         /\ path' = Routed(ctx', "portal")
    /\ UNCHANGED <<acct, me, signin, era, steps>>

\* To and from the page that changes the password, with the browser's buttons.
Browse ==
    /\ Step /\ ~ctx.boot /\ ctx.auth
    /\ \E p \in {"portal", "change"} : p # path /\ path' = Routed(ctx, p) /\ path' # path
    /\ UNCHANGED <<acct, store, ctx, me, signin, change, era, odd>>

\* The page is loaded again and forgets its calls; the backend does not.
Reload ==
    /\ Step /\ Loaded(store)
    /\ path' = IF store = NoToken THEN "login" ELSE path
    /\ signin' = NoSignin
    /\ change' = IF change.pc = "idle" THEN change ELSE [change EXCEPT !.heard = FALSE]
    /\ odd' = IF change.pc = "idle" THEN odd ELSE odd \cup {"elsewhere"}
    /\ UNCHANGED <<acct, store, era>>

\* Another tab signs out, or in as somebody.
OtherTab ==
    /\ Step /\ store' \in {NoToken} \cup {Issued(u, FALSE) : u \in Users}
    /\ store' # store
    /\ odd' = odd \cup {"shared"}
    /\ UNCHANGED <<acct, ctx, path, me, signin, change, era>>

SesAnswer == ServeMe \/ ServeLogin \/ ReadAccount \/ UpdatePassword \/ EndBootstrap \/ EndLogin \/ EndChange
SesUser ==
    \/ \E u \in Users : SubmitLogin(u) \/ ResetPassword(u) \/ Deactivate(u) \/ ChangeElsewhere(u)
    \/ Expire \/ Logout \/ SubmitChange \/ Browse \/ OtherTab \/ FailCall

-----------------------------------------------------------------------------
(* Properties. *)

\* The tab is signed in exactly when it holds a token, and as its owner,
\* unless a sign-in was submitted before the bootstrap had ended, an answer
\* came after a logout, or another tab has changed the token.
SignedInAsTokenOwner ==
    odd \cap {"hurried", "late", "shared"} = {} /\ ~ctx.boot =>
      /\ ctx.auth <=> store # NoToken
      /\ ctx.auth => ctx.profile = store.user \/ (ctx.profile = NoUser /\ ctx.requires)

\* Whoever is let into the portal has a token the backend takes there, unless
\* the password was changed without this tab being told.
PortalTokenIsFull ==
    odd = {} /\ ctx.auth /\ path = "portal" => store.scope = "full"

\* The spinner of the bootstrap ends, and so does that of the sign-in.
SessionSettles ==
    /\ ctx.boot ~> ~ctx.boot
    /\ signin.pc # "idle" ~> signin.pc = "idle"
=============================================================================
