------------------------ MODULE NotificationsProofs ------------------------
(***************************************************************************)
(* Theorems about the session of the tab and the bell that runs beside it, *)
(* for any number of users and notifications.                              *)
(***************************************************************************)
EXTENDS Notifications, FiniteSetTheorems, TLAPS

\* Calls know whose they are, and a page that has loaded has asked who it is.
CallsAreOwned ==
    /\ ctx.boot <=> me.pc # "idle"
    /\ signin.pc # "idle" => signin.user \in Users
    /\ change.pc # "idle" => change.user \in Users

\* The pages follow the state of the session.
PathFollows ==
    ~ctx.boot =>
      /\ path = "login" => ~ctx.auth
      /\ ctx.auth /\ ctx.requires => path = "change"

\* Without sign-ins during the bootstrap, answers after a logout and other
\* tabs: the bootstrap is alone with its token, and a sign-in or a change
\* belongs to the session that it was made in.
CallsBelong ==
    Regular =>
      /\ ctx.boot =>
           /\ me.token = store /\ store # NoToken
           /\ ~ctx.auth /\ ~ctx.requires
           /\ signin.pc = "idle"
      /\ signin.pc # "idle" => ~ctx.auth
      /\ change.pc # "idle" /\ change.heard => ctx.auth

SignedInProperly ==
    Regular /\ ~ctx.boot =>
      /\ ctx.auth <=> store # NoToken
      /\ ctx.auth => ctx.profile = store.user \/ (ctx.profile = NoUser /\ ctx.requires)

\* When nobody else has changed the password: whoever holds a token for
\* changing it has to, and the tab knows.
ChangeIsOwed ==
    odd = {} =>
      /\ change.pc # "idle" => ~ctx.boot /\ change.heard /\ change.user = store.user
      /\ store.scope = "change" => acct[store.user].must \/ change.pc = "ok"
      /\ signin.pc = "ok" /\ signin.must => acct[signin.user].must
      /\ ctx.boot /\ me.pc = "ok" /\ store.scope = "change" => me.must
      /\ ~ctx.boot /\ ctx.auth /\ store.scope = "change" => ctx.requires

IInv ==
    /\ SesTypeOK
    /\ CallsAreOwned /\ PathFollows /\ CallsBelong /\ SignedInProperly /\ ChangeIsOwed

-----------------------------------------------------------------------------
(* What the updates of accounts, tokens and the context are. *)

Accounts == [active : BOOLEAN, must : BOOLEAN]
Contexts == [boot : BOOLEAN, auth : BOOLEAN, requires : BOOLEAN, profile : Users \cup {NoUser}]
MeCalls == [pc : {"idle", "sent", "ok", "no"}, token : Tokens \cup {NoToken}, must : BOOLEAN]
Signins == [pc : {"idle", "sent", "ok", "no"}, user : Users \cup {NoUser}, must : BOOLEAN]

\* An account stays one when a flag of it is set.
LEMMA AccountUpdated ==
  ASSUME NEW a \in [Users -> Accounts], NEW u \in Users, NEW b \in BOOLEAN
  PROVE  /\ [a EXCEPT ![u].must = b] \in [Users -> Accounts]
         /\ [a EXCEPT ![u].active = b] \in [Users -> Accounts]
<1>1. a[u] \in Accounts
  OBVIOUS
<1>2. [a[u] EXCEPT !.must = b] \in Accounts
  BY <1>1 DEF Accounts
<1>3. [a[u] EXCEPT !.active = b] \in Accounts
  BY <1>1 DEF Accounts
<1>4. QED
  BY <1>2, <1>3, Zenon

\* The answers of auth/me and auth/login.
LEMMA AnswersTyped ==
  ASSUME NEW m \in MeCalls, NEW s \in Signins, NEW p \in {"ok", "no"}, NEW b \in BOOLEAN
  PROVE  /\ [m EXCEPT !.pc = p] \in MeCalls
         /\ [m EXCEPT !.pc = p, !.must = b] \in MeCalls
         /\ [s EXCEPT !.pc = p] \in Signins
         /\ [s EXCEPT !.pc = p, !.must = b] \in Signins
BY DEF MeCalls, Signins

\* The context after an answer that signs somebody in.
LEMMA ContextSignedIn ==
  ASSUME NEW c \in Contexts, NEW r \in BOOLEAN, NEW p \in Users \cup {NoUser}
  PROVE  LET d == [c EXCEPT !.auth = TRUE, !.requires = r, !.profile = p] IN
         /\ d \in Contexts /\ d.boot = c.boot
         /\ d.auth = TRUE /\ d.requires = r /\ d.profile = p
BY DEF Contexts

\* The context of somebody who has to change the password first.
LEMMA ContextOwing ==
  ASSUME NEW c \in Contexts
  PROVE  LET d == [c EXCEPT !.auth = TRUE, !.requires = TRUE, !.profile = NoUser] IN
         /\ d \in Contexts /\ d.boot = c.boot
         /\ d.auth /\ d.requires /\ d.profile = NoUser
BY DEF Contexts

\* The context after a bootstrap that failed, and after a logout or a reload.
LEMMA ContextReset ==
  ASSUME NEW b \in BOOLEAN, ctx \in Contexts, UsersAssumption
  PROVE  /\ NoBootstrap \in Contexts
         /\ NoBootstrap.boot = FALSE /\ NoBootstrap.auth = FALSE
         /\ NoBootstrap.requires = ctx.requires /\ NoBootstrap.profile = NoUser
         /\ LET d == [SignedOut EXCEPT !.boot = b] IN
            /\ d \in Contexts /\ d.boot = b
            /\ d.auth = FALSE /\ d.requires = FALSE /\ d.profile = NoUser
<1>1. /\ NoBootstrap \in Contexts
      /\ NoBootstrap.boot = FALSE /\ NoBootstrap.auth = FALSE
      /\ NoBootstrap.requires = ctx.requires /\ NoBootstrap.profile = NoUser
  BY DEF Contexts, NoBootstrap, FailedBootstrap
<1>2. LET d == [SignedOut EXCEPT !.boot = b] IN
      /\ d \in Contexts /\ d.boot = b
      /\ d.auth = FALSE /\ d.requires = FALSE /\ d.profile = NoUser
  BY DEF Contexts, SignedOut
<1>3. QED
  BY <1>1, <1>2

\* A token says whose it is and, by its scope, whether a change is owed.
LEMMA IssuedToken ==
  ASSUME NEW u \in Users, NEW b \in BOOLEAN, UsersAssumption, era \in Nat
  PROVE  /\ Issued(u, b) \in Tokens /\ Issued(u, b) # NoToken
         /\ Issued(u, b).user = u
         /\ Issued(u, b).scope = IF b THEN "change" ELSE "full"
BY UsersAssumption DEF Issued, NextScope, Tokens, NoToken

\* The type invariant with its parts named.
LEMMA SesTypes ==
  ASSUME SesTypeOK
  PROVE  /\ acct \in [Users -> Accounts] /\ store \in Tokens \cup {NoToken}
         /\ ctx \in Contexts /\ me \in MeCalls /\ signin \in Signins
BY DEF SesTypeOK, Accounts, Contexts, MeCalls, Signins

-----------------------------------------------------------------------------
(* One lemma for every action of the session. *)

\* An answer to the bootstrap carries the flag of the account as it is.
LEMMA ServeMeKeeps ==
  ASSUME IInv, ServeMe
  PROVE  IInv'
<1> USE UsersAssumption, MaxStepsAssumption DEF IInv
<1>1. SesTypeOK'
  <2>1. me' \in MeCalls
    <3>1. CASE Validated(me.token)
      <4>1. me.token.user \in Users
        BY <3>1 DEF SesTypeOK, Validated, Tokens
      <4>2. acct[me.token.user].must \in BOOLEAN
        BY <4>1, SesTypes DEF Accounts
      <4>3. QED
        BY <3>1, <4>2, SesTypes, AnswersTyped DEF ServeMe
    <3>2. CASE ~Validated(me.token)
      BY <3>2, SesTypes, AnswersTyped DEF ServeMe
    <3>3. QED
      BY <3>1, <3>2
  <2>2. QED
    BY <2>1 DEF SesTypeOK, MeCalls, ServeMe
<1>3. CallsAreOwned'
  BY <1>1 DEF CallsAreOwned, SesTypeOK, Tokens, NoToken, ServeMe, Validated
<1>4. PathFollows'
  BY <1>1 DEF PathFollows, SesTypeOK, Tokens, NoToken, ServeMe, Validated
<1>5. CallsBelong'
  BY <1>1 DEF CallsBelong, CallsAreOwned, PathFollows, SesTypeOK, Regular, Tokens,
       NoToken, ServeMe, Validated
<1>6. SignedInProperly'
  BY <1>1 DEF SignedInProperly, CallsBelong, CallsAreOwned, SesTypeOK, Regular, Tokens,
       NoToken, ServeMe, Validated
<1>7. ChangeIsOwed'
  BY <1>1 DEF ChangeIsOwed, CallsBelong, CallsAreOwned, SignedInProperly, PathFollows,
       SesTypeOK, Regular, Tokens, NoToken, ServeMe, Validated
<1>8. QED
  BY <1>1, <1>3, <1>4, <1>5, <1>6, <1>7

\* An answer to a sign-in carries the flag of the account as it is.
LEMMA ServeLoginKeeps ==
  ASSUME IInv, ServeLogin
  PROVE  IInv'
<1> USE UsersAssumption, MaxStepsAssumption DEF IInv
<1>1. SesTypeOK'
  <2>1. signin.user \in Users
    BY DEF CallsAreOwned, ServeLogin
  <2>2. acct[signin.user].must \in BOOLEAN
    BY <2>1, SesTypes DEF Accounts
  <2>3. signin' \in Signins
    <3>1. CASE signin' = [signin EXCEPT !.pc = "ok", !.must = acct[signin.user].must]
      BY <3>1, <2>2, SesTypes, AnswersTyped
    <3>2. CASE signin' = [signin EXCEPT !.pc = "no"]
      BY <3>2, SesTypes DEF Signins
    <3>3. QED
      BY <3>1, <3>2 DEF ServeLogin
  <2>4. QED
    BY <2>3 DEF SesTypeOK, Signins, ServeLogin
<1>3. CallsAreOwned'
  BY <1>1 DEF CallsAreOwned, SesTypeOK, Tokens, NoToken, ServeLogin
<1>4. PathFollows'
  BY <1>1 DEF PathFollows, SesTypeOK, Tokens, NoToken, ServeLogin
<1>5. CallsBelong'
  BY <1>1 DEF CallsBelong, CallsAreOwned, PathFollows, SesTypeOK, Regular, Tokens,
       NoToken, ServeLogin
<1>6. SignedInProperly'
  BY <1>1 DEF SignedInProperly, CallsBelong, CallsAreOwned, SesTypeOK, Regular, Tokens,
       NoToken, ServeLogin
<1>7. ChangeIsOwed'
  <2>1. signin'.pc = "ok" => signin'.user = signin.user /\ signin'.must = acct[signin.user].must
    BY SesTypes DEF Signins, ServeLogin
  <2>2. UNCHANGED <<acct, store, ctx, path, me, change, odd>>
    BY DEF ServeLogin
  <2>3. QED
    BY <2>1, <2>2 DEF ChangeIsOwed
<1>8. QED
  BY <1>1, <1>3, <1>4, <1>5, <1>6, <1>7

\* A change that has been accepted or refused is still the same user's.
LEMMA ReadAccountKeeps ==
  ASSUME IInv, ReadAccount
  PROVE  IInv'
<1> USE UsersAssumption, MaxStepsAssumption DEF IInv
<1>1. SesTypeOK'
  BY DEF SesTypeOK, Tokens, ReadAccount
<1>3. CallsAreOwned'
  BY <1>1 DEF CallsAreOwned, SesTypeOK, Tokens, NoToken, ReadAccount
<1>4. PathFollows'
  BY <1>1 DEF PathFollows, SesTypeOK, Tokens, NoToken, ReadAccount
<1>5. CallsBelong'
  BY <1>1 DEF CallsBelong, CallsAreOwned, PathFollows, SesTypeOK, Regular, Tokens,
       NoToken, ReadAccount
<1>6. SignedInProperly'
  BY <1>1 DEF SignedInProperly, CallsBelong, CallsAreOwned, SesTypeOK, Regular, Tokens,
       NoToken, ReadAccount
<1>7. ChangeIsOwed'
  BY <1>1 DEF ChangeIsOwed, CallsBelong, CallsAreOwned, SignedInProperly, PathFollows,
       SesTypeOK, Regular, Tokens, NoToken, ReadAccount
<1>8. QED
  BY <1>1, <1>3, <1>4, <1>5, <1>6, <1>7

\* The flag is cleared for an account that is no longer owed a change.
LEMMA UpdatePasswordKeeps ==
  ASSUME IInv, UpdatePassword
  PROVE  IInv'
<1> USE UsersAssumption, MaxStepsAssumption DEF IInv
<1>1. SesTypeOK'
  <2>1. acct' \in [Users -> Accounts]
    BY SesTypes, AccountUpdated DEF UpdatePassword, CallsAreOwned
  <2>2. QED
    BY <2>1 DEF SesTypeOK, Accounts, UpdatePassword
<1>3. CallsAreOwned'
  BY <1>1 DEF CallsAreOwned, SesTypeOK, Tokens, NoToken, UpdatePassword
<1>4. PathFollows'
  BY <1>1 DEF PathFollows, SesTypeOK, Tokens, NoToken, UpdatePassword
<1>5. CallsBelong'
  BY <1>1 DEF CallsBelong, CallsAreOwned, PathFollows, SesTypeOK, Regular, Tokens,
       NoToken, UpdatePassword
<1>6. SignedInProperly'
  BY <1>1 DEF SignedInProperly, CallsBelong, CallsAreOwned, SesTypeOK, Regular, Tokens,
       NoToken, UpdatePassword
<1>7. ChangeIsOwed'
  BY <1>1 DEF ChangeIsOwed, CallsBelong, CallsAreOwned, SignedInProperly, PathFollows,
       SesTypeOK, Regular, Tokens, NoToken, UpdatePassword
<1>8. QED
  BY <1>1, <1>3, <1>4, <1>5, <1>6, <1>7

\* A failed call tells the tab nothing; a lost change counts as made elsewhere.
LEMMA FailCallKeeps ==
  ASSUME IInv, FailCall
  PROVE  IInv'
<1> USE UsersAssumption, MaxStepsAssumption DEF IInv
<1>1. SesTypeOK'
  <2>1. me' \in MeCalls /\ signin' \in Signins
    BY SesTypes, AnswersTyped DEF FailCall
  <2>2. change' \in [pc : {"idle", "sent", "read", "ok", "no"}, user : Users \cup {NoUser},
                     heard : BOOLEAN]
    BY DEF SesTypeOK, FailCall
  <2>3. QED
    BY <2>1, <2>2 DEF SesTypeOK, MeCalls, Signins, FailCall, Step
<1>3. CallsAreOwned'
  BY <1>1 DEF CallsAreOwned, SesTypeOK, Tokens, NoToken, FailCall, Step
<1>4. PathFollows'
  BY <1>1 DEF PathFollows, SesTypeOK, Tokens, NoToken, FailCall, Step
<1>5. CallsBelong'
  BY <1>1 DEF CallsBelong, CallsAreOwned, PathFollows, SesTypeOK, Regular, Tokens,
       NoToken, FailCall, Step
<1>6. SignedInProperly'
  BY <1>1 DEF SignedInProperly, CallsBelong, CallsAreOwned, SesTypeOK, Regular, Tokens,
       NoToken, FailCall, Step
<1>7. ChangeIsOwed'
  <2>1. UNCHANGED <<acct, store, ctx, path>>
    BY DEF FailCall
  <2>2. CASE /\ me.pc \in {"sent", "ok"} /\ me' = [me EXCEPT !.pc = "no"]
             /\ UNCHANGED <<signin, change, odd>>
    <3>1. me'.pc = "no"
      BY <2>2, SesTypes DEF MeCalls
    <3>2. QED
      BY <2>1, <2>2, <3>1 DEF ChangeIsOwed
  <2>3. CASE /\ signin.pc \in {"sent", "ok"} /\ signin' = [signin EXCEPT !.pc = "no"]
             /\ UNCHANGED <<me, change, odd>>
    <3>1. signin'.pc = "no"
      BY <2>3, SesTypes DEF Signins
    <3>2. QED
      BY <2>1, <2>3, <3>1 DEF ChangeIsOwed
  <2>4. CASE /\ change.pc \in {"sent", "ok"} /\ change' = [change EXCEPT !.pc = "no"]
             /\ odd' = IF change.pc = "ok" THEN odd \cup {"elsewhere"} ELSE odd
             /\ UNCHANGED <<me, signin>>
    <3>1. change'.pc = "no" /\ change'.user = change.user /\ change'.heard = change.heard
      BY <2>4 DEF SesTypeOK
    <3>2. odd' = {} => odd = {} /\ change.pc = "sent"
      BY <2>4
    <3>3. QED
      BY <2>1, <2>4, <3>1, <3>2 DEF ChangeIsOwed
  <2>5. QED
    BY <2>2, <2>3, <2>4 DEF FailCall
<1>8. QED
  BY <1>1, <1>3, <1>4, <1>5, <1>6, <1>7

\* A reset sets the flag of the account that is now owed a change.
LEMMA ResetPasswordKeeps ==
  ASSUME IInv, NEW u \in Users, ResetPassword(u)
  PROVE  IInv'
<1> USE UsersAssumption, MaxStepsAssumption DEF IInv
<1>1. SesTypeOK'
  <2>1. acct' \in [Users -> Accounts]
    BY SesTypes, AccountUpdated DEF ResetPassword
  <2>2. QED
    BY <2>1 DEF SesTypeOK, Accounts, ResetPassword, Step
<1>3. CallsAreOwned'
  BY <1>1 DEF CallsAreOwned, SesTypeOK, Tokens, NoToken, ResetPassword, Step
<1>4. PathFollows'
  BY <1>1 DEF PathFollows, SesTypeOK, Tokens, NoToken, ResetPassword, Step
<1>5. CallsBelong'
  BY <1>1 DEF CallsBelong, CallsAreOwned, PathFollows, SesTypeOK, Regular, Tokens,
       NoToken, ResetPassword, Step
<1>6. SignedInProperly'
  BY <1>1 DEF SignedInProperly, CallsBelong, CallsAreOwned, SesTypeOK, Regular, Tokens,
       NoToken, ResetPassword, Step
<1>7. ChangeIsOwed'
  BY <1>1 DEF ChangeIsOwed, CallsBelong, CallsAreOwned, SignedInProperly, PathFollows,
       SesTypeOK, Regular, Tokens, NoToken, ResetPassword, Step
<1>8. QED
  BY <1>1, <1>3, <1>4, <1>5, <1>6, <1>7

\* An inactive account keeps its flag.
LEMMA DeactivateKeeps ==
  ASSUME IInv, NEW u \in Users, Deactivate(u)
  PROVE  IInv'
<1> USE UsersAssumption, MaxStepsAssumption DEF IInv
<1>1. SesTypeOK'
  <2>1. acct' \in [Users -> Accounts]
    BY SesTypes, AccountUpdated DEF Deactivate
  <2>2. QED
    BY <2>1 DEF SesTypeOK, Accounts, Deactivate, Step
<1>3. CallsAreOwned'
  BY <1>1 DEF CallsAreOwned, SesTypeOK, Tokens, NoToken, Deactivate, Step
<1>4. PathFollows'
  BY <1>1 DEF PathFollows, SesTypeOK, Tokens, NoToken, Deactivate, Step
<1>5. CallsBelong'
  BY <1>1 DEF CallsBelong, CallsAreOwned, PathFollows, SesTypeOK, Regular, Tokens,
       NoToken, Deactivate, Step
<1>6. SignedInProperly'
  BY <1>1 DEF SignedInProperly, CallsBelong, CallsAreOwned, SesTypeOK, Regular, Tokens,
       NoToken, Deactivate, Step
<1>7. ChangeIsOwed'
  BY <1>1 DEF ChangeIsOwed, CallsBelong, CallsAreOwned, SignedInProperly, PathFollows,
       SesTypeOK, Regular, Tokens, NoToken, Deactivate, Step
<1>8. QED
  BY <1>1, <1>3, <1>4, <1>5, <1>6, <1>7

\* A change in another browser is remembered in odd.
LEMMA ChangeElsewhereKeeps ==
  ASSUME IInv, NEW u \in Users, ChangeElsewhere(u)
  PROVE  IInv'
<1> USE UsersAssumption, MaxStepsAssumption DEF IInv
<1>1. SesTypeOK'
  <2>1. acct' \in [Users -> Accounts]
    BY SesTypes, AccountUpdated DEF ChangeElsewhere
  <2>2. QED
    BY <2>1 DEF SesTypeOK, Accounts, ChangeElsewhere, Step
<1>3. CallsAreOwned'
  BY <1>1 DEF CallsAreOwned, SesTypeOK, Tokens, NoToken, ChangeElsewhere, Step
<1>4. PathFollows'
  BY <1>1 DEF PathFollows, SesTypeOK, Tokens, NoToken, ChangeElsewhere, Step
<1>5. CallsBelong'
  BY <1>1 DEF CallsBelong, CallsAreOwned, PathFollows, SesTypeOK, Regular, Tokens,
       NoToken, ChangeElsewhere, Step
<1>6. SignedInProperly'
  BY <1>1 DEF SignedInProperly, CallsBelong, CallsAreOwned, SesTypeOK, Regular, Tokens,
       NoToken, ChangeElsewhere, Step
<1>7. ChangeIsOwed'
  BY <1>1 DEF ChangeIsOwed, CallsBelong, CallsAreOwned, SignedInProperly, PathFollows,
       SesTypeOK, Regular, Tokens, NoToken, ChangeElsewhere, Step
<1>8. QED
  BY <1>1, <1>3, <1>4, <1>5, <1>6, <1>7

\* The bootstrap ends signed in with the token it asked for, or without one.
LEMMA EndBootstrapKeeps ==
  ASSUME IInv, EndBootstrap
  PROVE  IInv'
<1> USE UsersAssumption, MaxStepsAssumption DEF IInv
<1>0. /\ ctx' \in Contexts /\ ~ctx'.boot /\ store' \in Tokens \cup {NoToken} /\ me' = NoMe
      /\ me.pc \in {"ok", "no"} /\ UNCHANGED <<acct, signin, change, era, odd, steps>>
      /\ path' = Routed(ctx', path)
      /\ \/ me.pc = "ok" /\ store' = store /\ ctx'.auth /\ ctx'.profile = me.token.user
            /\ ctx'.requires = (ctx.requires \/ me.must)
         \/ store' = NoToken /\ ~ctx'.auth /\ ctx'.requires = ctx.requires
  <2>1. CASE me.pc = "ok"
    <3>1. ctx' = [boot |-> FALSE, auth |-> TRUE, requires |-> Required, profile |-> me.token.user]
      BY <2>1 DEF EndBootstrap
    <3>2. Required \in BOOLEAN /\ me.token.user \in Users \cup {NoUser}
      BY SesTypes DEF Required, Contexts, MeCalls, Tokens, NoToken
    <3>3. ctx' \in Contexts
      BY <3>1, <3>2 DEF Contexts
    <3>4. QED
      BY <2>1, <3>1, <3>3, SesTypes DEF EndBootstrap, Required
  <2>2. CASE me.pc = "no"
    <3>1. ctx' = NoBootstrap /\ store' = NoToken
      BY <2>2 DEF EndBootstrap
    <3>2. QED
      BY <2>2, <3>1, SesTypes, ContextReset DEF EndBootstrap
  <2>3. QED
    BY <2>1, <2>2 DEF EndBootstrap
<1>1. SesTypeOK'
  BY <1>0 DEF SesTypeOK, Contexts, Tokens, NoToken, NoMe, Routed
<1>3. CallsAreOwned'
  BY <1>0, <1>1 DEF CallsAreOwned, SesTypeOK, Tokens, NoToken, NoMe, Routed, Contexts
<1>4. PathFollows'
  BY <1>0, <1>1 DEF PathFollows, SesTypeOK, Tokens, NoToken, NoMe, Routed, Contexts
<1>5. CallsBelong'
  BY <1>0, <1>1 DEF CallsBelong, CallsAreOwned, PathFollows, SesTypeOK, Regular, Tokens,
       NoToken, NoMe, Routed, Contexts
<1>6. SignedInProperly'
  BY <1>0, <1>1 DEF SignedInProperly, CallsBelong, CallsAreOwned, SesTypeOK, Regular,
       Tokens, NoToken, NoMe, Routed, Contexts
<1>7. ChangeIsOwed'
  BY <1>0, <1>1 DEF ChangeIsOwed, CallsBelong, CallsAreOwned, SignedInProperly,
       PathFollows, SesTypeOK, Regular, Tokens, NoToken, NoMe, Routed, Contexts
<1>8. QED
  BY <1>1, <1>3, <1>4, <1>5, <1>6, <1>7

\* A sign-in is submitted where nobody is signed in.
LEMMA SubmitLoginKeeps ==
  ASSUME IInv, NEW u \in Users, SubmitLogin(u)
  PROVE  IInv'
<1> USE UsersAssumption, MaxStepsAssumption DEF IInv
<1>1. SesTypeOK'
  BY DEF SesTypeOK, Tokens, SubmitLogin, Step
<1>3. CallsAreOwned'
  BY <1>1 DEF CallsAreOwned, SesTypeOK, Tokens, NoToken, SubmitLogin, Step
<1>4. PathFollows'
  BY <1>1 DEF PathFollows, SesTypeOK, Tokens, NoToken, SubmitLogin, Step
<1>5. CallsBelong'
  BY <1>1 DEF CallsBelong, CallsAreOwned, PathFollows, SesTypeOK, Regular, Tokens,
       NoToken, SubmitLogin, Step
<1>6. SignedInProperly'
  BY <1>1 DEF SignedInProperly, CallsBelong, CallsAreOwned, SesTypeOK, Regular, Tokens,
       NoToken, SubmitLogin, Step
<1>7. ChangeIsOwed'
  BY <1>1 DEF ChangeIsOwed, CallsBelong, CallsAreOwned, SignedInProperly, PathFollows,
       SesTypeOK, Regular, Tokens, NoToken, SubmitLogin, Step
<1>8. QED
  BY <1>1, <1>3, <1>4, <1>5, <1>6, <1>7

\* A sign-in ends with the token and the context of its user.
LEMMA EndLoginKeeps ==
  ASSUME IInv, EndLogin
  PROVE  IInv'
<1> USE UsersAssumption, MaxStepsAssumption DEF IInv
<1>0. /\ ctx' \in Contexts /\ ctx'.boot = ctx.boot /\ store' \in Tokens \cup {NoToken}
      /\ signin' = NoSignin /\ signin.pc \in {"ok", "no"}
      /\ UNCHANGED <<acct, me, change, era, odd, steps>>
      /\ \/ signin.pc = "no" /\ UNCHANGED <<store, ctx, path>>
         \/ /\ signin.pc = "ok" /\ store' # NoToken /\ store'.user = signin.user
            /\ store'.scope = (IF signin.must THEN "change" ELSE "full")
            /\ ctx'.auth /\ (ctx'.requires <=> signin.must)
            /\ ctx'.profile = (IF signin.must THEN NoUser ELSE signin.user)
            /\ path' = Routed(ctx', IF signin.must THEN "change" ELSE "portal")
  <2>1. CASE signin.pc = "ok"
    <3>1. signin.user \in Users /\ signin.must \in BOOLEAN
      BY <2>1, SesTypes DEF CallsAreOwned, Signins
    <3>2. ctx' = [ctx EXCEPT !.auth = TRUE, !.requires = signin.must,
                             !.profile = IF signin.must THEN NoUser ELSE signin.user]
      BY <2>1 DEF EndLogin
    <3>3. /\ ctx' \in Contexts /\ ctx'.boot = ctx.boot
          /\ ctx'.auth /\ (ctx'.requires <=> signin.must)
          /\ ctx'.profile = (IF signin.must THEN NoUser ELSE signin.user)
      <4>1. CASE signin.must
        <5>1. ctx' = [ctx EXCEPT !.auth = TRUE, !.requires = TRUE, !.profile = NoUser]
          BY <3>2, <4>1
        <5>2. /\ ctx' \in Contexts /\ ctx'.boot = ctx.boot
              /\ ctx'.auth /\ ctx'.requires /\ ctx'.profile = NoUser
          BY <5>1, SesTypes, ContextOwing
        <5>3. QED
          BY <4>1, <5>2
      <4>2. CASE ~signin.must
        <5>0. signin.must = FALSE
          BY <3>1, <4>2
        <5>1. ctx' = [ctx EXCEPT !.auth = TRUE, !.requires = FALSE, !.profile = signin.user]
          BY <3>2, <5>0
        <5>2. /\ ctx' \in Contexts /\ ctx'.boot = ctx.boot
              /\ ctx'.auth /\ ~ctx'.requires /\ ctx'.profile = signin.user
          BY <3>1, <5>1, SesTypes, ContextSignedIn
        <5>3. QED
          BY <4>2, <5>2
      <4>3. QED
        BY <3>1, <4>1, <4>2
    <3>4. store' = Issued(signin.user, signin.must)
      BY <2>1 DEF EndLogin
    <3>5. /\ store' \in Tokens /\ store' # NoToken /\ store'.user = signin.user
          /\ store'.scope = (IF signin.must THEN "change" ELSE "full")
      BY <3>1, <3>4, IssuedToken DEF SesTypeOK
    <3>6. QED
      BY <2>1, <3>3, <3>5 DEF EndLogin
  <2>2. CASE signin.pc = "no"
    BY <2>2, SesTypes DEF EndLogin
  <2>3. QED
    BY <2>1, <2>2 DEF EndLogin
<1>1. SesTypeOK'
  BY <1>0 DEF SesTypeOK, Contexts, Tokens, NoToken, NoSignin, Routed
<1>3. CallsAreOwned'
  BY <1>0, <1>1 DEF CallsAreOwned, SesTypeOK, Tokens, NoToken, NoSignin, Routed, Contexts
<1>4. PathFollows'
  BY <1>0, <1>1 DEF PathFollows, SesTypeOK, Tokens, NoToken, NoSignin, Routed, Contexts
<1>5. CallsBelong'
  BY <1>0, <1>1 DEF CallsBelong, CallsAreOwned, PathFollows, SesTypeOK, Regular, Tokens,
       NoToken, NoSignin, Routed, Contexts
<1>6. SignedInProperly'
  BY <1>0, <1>1 DEF SignedInProperly, CallsBelong, CallsAreOwned, SesTypeOK, Regular,
       Tokens, NoToken, NoSignin, Routed, Contexts
<1>7. ChangeIsOwed'
  BY <1>0, <1>1 DEF ChangeIsOwed, CallsBelong, CallsAreOwned, SignedInProperly,
       PathFollows, SesTypeOK, Regular, Tokens, NoToken, NoSignin, Routed, Contexts
<1>8. QED
  BY <1>1, <1>3, <1>4, <1>5, <1>6, <1>7

\* A logout drops token and context together.
LEMMA LogoutKeeps ==
  ASSUME IInv, Logout
  PROVE  IInv'
<1> USE UsersAssumption, MaxStepsAssumption DEF IInv
<1>1. SesTypeOK'
  <2>1. ctx' \in Contexts
    <3>1. ctx.boot \in BOOLEAN
      BY SesTypes DEF Contexts
    <3>2. QED
      BY <3>1, SesTypes, ContextReset DEF Logout
  <2>2. QED
    BY <2>1 DEF SesTypeOK, Contexts, Logout, Step
<1>3. CallsAreOwned'
  BY <1>1 DEF CallsAreOwned, SesTypeOK, Tokens, NoToken, Logout, Step, SignedOut
<1>4. PathFollows'
  BY <1>1 DEF PathFollows, SesTypeOK, Tokens, NoToken, Logout, Step, SignedOut
<1>5. CallsBelong'
  BY <1>1 DEF CallsBelong, CallsAreOwned, PathFollows, SesTypeOK, Regular, Tokens,
       NoToken, Logout, Step, SignedOut
<1>6. SignedInProperly'
  BY <1>1 DEF SignedInProperly, CallsBelong, CallsAreOwned, SesTypeOK, Regular, Tokens,
       NoToken, Logout, Step, SignedOut
<1>7. ChangeIsOwed'
  BY <1>1 DEF ChangeIsOwed, CallsBelong, CallsAreOwned, SignedInProperly, PathFollows,
       SesTypeOK, Regular, Tokens, NoToken, Logout, Step, SignedOut
<1>8. QED
  BY <1>1, <1>3, <1>4, <1>5, <1>6, <1>7

\* A change is asked for with the token that is in the store.
LEMMA SubmitChangeKeeps ==
  ASSUME IInv, SubmitChange
  PROVE  IInv'
<1> USE UsersAssumption, MaxStepsAssumption DEF IInv
<1>1. SesTypeOK'
  BY DEF SesTypeOK, Tokens, SubmitChange, Step, NoToken
<1>3. CallsAreOwned'
  BY <1>1 DEF CallsAreOwned, SesTypeOK, Tokens, NoToken, SubmitChange, Step
<1>4. PathFollows'
  BY <1>1 DEF PathFollows, SesTypeOK, Tokens, NoToken, SubmitChange, Step
<1>5. CallsBelong'
  BY <1>1 DEF CallsBelong, CallsAreOwned, PathFollows, SesTypeOK, Regular, Tokens,
       NoToken, SubmitChange, Step
<1>6. SignedInProperly'
  BY <1>1 DEF SignedInProperly, CallsBelong, CallsAreOwned, SesTypeOK, Regular, Tokens,
       NoToken, SubmitChange, Step
<1>7. ChangeIsOwed'
  BY <1>1 DEF ChangeIsOwed, CallsBelong, CallsAreOwned, SignedInProperly, PathFollows,
       SesTypeOK, Regular, Tokens, NoToken, SubmitChange, Step
<1>8. QED
  BY <1>1, <1>3, <1>4, <1>5, <1>6, <1>7

\* A change ends with a full token and a context that requires nothing.
LEMMA EndChangeKeeps ==
  ASSUME IInv, EndChange
  PROVE  IInv'
<1> USE UsersAssumption, MaxStepsAssumption DEF IInv
<1>0. /\ ctx' \in Contexts /\ ctx'.boot = ctx.boot /\ store' \in Tokens \cup {NoToken}
      /\ change' = NoChange /\ change.pc \in {"ok", "no"}
      /\ UNCHANGED <<acct, me, signin, era, steps>>
      /\ odd' = (IF change.pc = "ok" /\ ~change.heard THEN odd \cup {"elsewhere"} ELSE odd)
      /\ \/ (change.pc = "no" \/ ~change.heard) /\ UNCHANGED <<store, ctx, path>>
         \/ /\ change.pc = "ok" /\ change.heard /\ store' # NoToken
            /\ store'.user = change.user /\ store'.scope = "full"
            /\ ctx'.auth /\ ~ctx'.requires /\ ctx'.profile = change.user
            /\ path' = Routed(ctx', "portal")
  <2>1. CASE change.pc = "ok" /\ change.heard
    <3>1. change.user \in Users
      BY <2>1 DEF CallsAreOwned
    <3>2. ctx' = [ctx EXCEPT !.auth = TRUE, !.requires = FALSE, !.profile = change.user]
      BY <2>1 DEF EndChange
    <3>3. /\ ctx' \in Contexts /\ ctx'.boot = ctx.boot
          /\ ctx'.auth /\ ~ctx'.requires /\ ctx'.profile = change.user
      BY <3>1, <3>2, SesTypes, ContextSignedIn
    <3>4. store' = Issued(change.user, FALSE)
      BY <2>1 DEF EndChange
    <3>5. /\ store' \in Tokens /\ store' # NoToken
          /\ store'.user = change.user /\ store'.scope = "full"
      BY <3>1, <3>4, IssuedToken DEF SesTypeOK
    <3>6. QED
      BY <2>1, <3>3, <3>5 DEF EndChange
  <2>2. CASE change.pc = "no" \/ ~change.heard
    BY <2>2, SesTypes DEF EndChange
  <2>3. QED
    BY <2>1, <2>2 DEF EndChange
<1>1. SesTypeOK'
  BY <1>0 DEF SesTypeOK, Contexts, Tokens, NoToken, NoChange, Routed
<1>3. CallsAreOwned'
  BY <1>0, <1>1 DEF CallsAreOwned, SesTypeOK, Tokens, NoToken, NoChange, Routed, Contexts
<1>4. PathFollows'
  BY <1>0, <1>1 DEF PathFollows, SesTypeOK, Tokens, NoToken, NoChange, Routed, Contexts
<1>5. CallsBelong'
  BY <1>0, <1>1 DEF CallsBelong, CallsAreOwned, PathFollows, SesTypeOK, Regular, Tokens,
       NoToken, NoChange, Routed, Contexts
<1>6. SignedInProperly'
  BY <1>0, <1>1 DEF SignedInProperly, CallsBelong, CallsAreOwned, SesTypeOK, Regular,
       Tokens, NoToken, NoChange, Routed, Contexts
<1>7. ChangeIsOwed'
  BY <1>0, <1>1 DEF ChangeIsOwed, CallsBelong, CallsAreOwned, SignedInProperly,
       PathFollows, SesTypeOK, Regular, Tokens, NoToken, NoChange, Routed, Contexts
<1>8. QED
  BY <1>1, <1>3, <1>4, <1>5, <1>6, <1>7

\* The redirects keep a required change on its page.
LEMMA BrowseKeeps ==
  ASSUME IInv, Browse
  PROVE  IInv'
<1> USE UsersAssumption, MaxStepsAssumption DEF IInv
<1>1. SesTypeOK'
  BY DEF SesTypeOK, Tokens, Browse, Step, Routed
<1>3. CallsAreOwned'
  BY <1>1 DEF CallsAreOwned, SesTypeOK, Tokens, NoToken, Browse, Step, Routed
<1>4. PathFollows'
  BY <1>1 DEF PathFollows, SesTypeOK, Tokens, NoToken, Browse, Step, Routed
<1>5. CallsBelong'
  BY <1>1 DEF CallsBelong, CallsAreOwned, PathFollows, SesTypeOK, Regular, Tokens,
       NoToken, Browse, Step, Routed
<1>6. SignedInProperly'
  BY <1>1 DEF SignedInProperly, CallsBelong, CallsAreOwned, SesTypeOK, Regular, Tokens,
       NoToken, Browse, Step, Routed
<1>7. ChangeIsOwed'
  BY <1>1 DEF ChangeIsOwed, CallsBelong, CallsAreOwned, SignedInProperly, PathFollows,
       SesTypeOK, Regular, Tokens, NoToken, Browse, Step, Routed
<1>8. QED
  BY <1>1, <1>3, <1>4, <1>5, <1>6, <1>7

\* Another tab is remembered in odd.
LEMMA OtherTabKeeps ==
  ASSUME IInv, OtherTab
  PROVE  IInv'
<1> USE UsersAssumption, MaxStepsAssumption DEF IInv
<1>1. SesTypeOK'
  <2>1. store' \in Tokens \cup {NoToken}
    <3>1. era \in Nat /\ \A u \in Users : Issued(u, FALSE) \in Tokens
      BY IssuedToken DEF SesTypeOK
    <3>2. QED
      BY <3>1 DEF OtherTab
  <2>2. QED
    BY <2>1 DEF SesTypeOK, OtherTab, Step
<1>3. CallsAreOwned'
  BY <1>1 DEF CallsAreOwned, SesTypeOK, Tokens, NoToken, OtherTab, Step
<1>4. PathFollows'
  BY <1>1 DEF PathFollows, SesTypeOK, Tokens, NoToken, OtherTab, Step
<1>5. CallsBelong'
  BY <1>1 DEF CallsBelong, CallsAreOwned, PathFollows, SesTypeOK, Regular, Tokens,
       NoToken, OtherTab, Step
<1>6. SignedInProperly'
  BY <1>1 DEF SignedInProperly, CallsBelong, CallsAreOwned, SesTypeOK, Regular, Tokens,
       NoToken, OtherTab, Step
<1>7. ChangeIsOwed'
  BY <1>1 DEF ChangeIsOwed, CallsBelong, CallsAreOwned, SignedInProperly, PathFollows,
       SesTypeOK, Regular, Tokens, NoToken, OtherTab, Step
<1>8. QED
  BY <1>1, <1>3, <1>4, <1>5, <1>6, <1>7

\* A token that has expired stays where it is.
LEMMA ExpireKeeps ==
  ASSUME IInv, Expire
  PROVE  IInv'
<1> USE MaxStepsAssumption DEF IInv, Expire
<1>1. SesTypeOK'
  BY DEF SesTypeOK, Step
<1>2. CallsAreOwned' /\ PathFollows'
  BY DEF CallsAreOwned, PathFollows
<1>3. CallsBelong' /\ SignedInProperly' /\ ChangeIsOwed'
  BY DEF CallsBelong, SignedInProperly, ChangeIsOwed, Regular
<1>4. QED
  BY <1>1, <1>2, <1>3

\* A reload asks again with the token that is in the store.
LEMMA ReloadKeeps ==
  ASSUME IInv, Reload
  PROVE  IInv'
<1> USE UsersAssumption, MaxStepsAssumption DEF IInv
<1>1. SesTypeOK'
  <2>1. ctx' \in Contexts
    BY SesTypes, ContextReset DEF Reload, Loaded
  <2>2. me' \in MeCalls
    BY SesTypes DEF Reload, Loaded, MeCalls, NoMe
  <2>3. signin' \in Signins
    BY DEF Reload, Signins, NoSignin
  <2>4. change' \in [pc : {"idle", "sent", "read", "ok", "no"}, user : Users \cup {NoUser},
                     heard : BOOLEAN]
    BY DEF SesTypeOK, Reload
  <2>5. QED
    BY <2>1, <2>2, <2>3, <2>4 DEF SesTypeOK, Contexts, MeCalls, Signins, Reload, Step
<1>3. CallsAreOwned'
  BY <1>1 DEF CallsAreOwned, SesTypeOK, Tokens, NoToken, Reload, Step, Loaded, NoMe,
       NoSignin, SignedOut
<1>4. PathFollows'
  BY <1>1 DEF PathFollows, SesTypeOK, Tokens, NoToken, Reload, Step, Loaded, NoMe,
       NoSignin, SignedOut
<1>5. CallsBelong'
  BY <1>1 DEF CallsBelong, CallsAreOwned, PathFollows, SesTypeOK, Regular, Tokens,
       NoToken, Reload, Step, Loaded, NoMe, NoSignin, SignedOut
<1>6. SignedInProperly'
  BY <1>1 DEF SignedInProperly, CallsBelong, CallsAreOwned, SesTypeOK, Regular, Tokens,
       NoToken, Reload, Step, Loaded, NoMe, NoSignin, SignedOut
<1>7. ChangeIsOwed'
  BY <1>1 DEF ChangeIsOwed, CallsBelong, CallsAreOwned, SignedInProperly, PathFollows,
       SesTypeOK, Regular, Tokens, NoToken, Reload, Step, Loaded, NoMe, NoSignin, SignedOut
<1>8. QED
  BY <1>1, <1>3, <1>4, <1>5, <1>6, <1>7


-----------------------------------------------------------------------------
(* The invariant of the whole. *)

\* The bell takes at most one of the counted steps from the session.
LEMMA BellKeeps ==
  ASSUME IInv, Step \/ UNCHANGED steps,
         UNCHANGED <<acct, store, ctx, path, me, signin, change, era, odd>>
  PROVE  IInv'
<1> USE MaxStepsAssumption DEF IInv
<1>1. SesTypeOK'
  <2>1. steps' \in 0..MaxSteps
    BY DEF SesTypeOK, Step
  <2>2. QED
    BY <2>1 DEF SesTypeOK
<1>2. CallsAreOwned' /\ PathFollows'
  BY DEF CallsAreOwned, PathFollows
<1>3. CallsBelong' /\ SignedInProperly' /\ ChangeIsOwed'
  BY DEF CallsBelong, SignedInProperly, ChangeIsOwed, Regular
<1>4. QED
  BY <1>1, <1>2, <1>3

\* The tab opens with a token of an earlier visit or without one.
LEMMA InitHolds ==
  ASSUME Init
  PROVE  IInv
<1> USE UsersAssumption, MaxStepsAssumption DEF Init, SesInit
<1>1. acct \in [Users -> Accounts]
  BY DEF Accounts
<1>2. store = NoToken \/ (store # NoToken /\ store \in Tokens
                          /\ (store.scope = "change" => acct[store.user].must))
  <2>1. CASE store = NoToken
    BY <2>1
  <2>2. CASE \E u \in Users : store = Issued(u, acct[u].must)
    <3>1. PICK u \in Users : store = Issued(u, acct[u].must)
      BY <2>2
    <3>2. acct[u].must \in BOOLEAN
      BY <1>1 DEF Accounts
    <3>3. QED
      BY <3>1, <3>2, IssuedToken
  <2>3. QED
    BY <2>1, <2>2
<1>3. /\ ctx \in Contexts /\ ~ctx.auth /\ ~ctx.requires /\ ctx.profile = NoUser
      /\ ctx.boot <=> store # NoToken
  BY DEF Contexts, SignedOut
<1>4. me = IF store = NoToken THEN NoMe ELSE [pc |-> "sent", token |-> store, must |-> FALSE]
  OBVIOUS
<1>5. SesTypeOK
  <2>1. me \in MeCalls
    BY <1>2, <1>4 DEF MeCalls, NoMe
  <2>2. signin \in Signins
    BY DEF Signins, NoSignin
  <2>3. QED
    BY <1>1, <1>2, <1>3, <2>1, <2>2
       DEF SesTypeOK, Accounts, Contexts, MeCalls, Signins, NoChange
<1>7. CallsAreOwned /\ PathFollows
  BY <1>3, <1>4 DEF CallsAreOwned, PathFollows, NoMe, NoSignin, NoChange
<1>8. CallsBelong /\ SignedInProperly
  BY <1>3, <1>4 DEF CallsBelong, SignedInProperly, NoSignin, NoChange
<1>9. ChangeIsOwed
  BY <1>2, <1>3, <1>4 DEF ChangeIsOwed, NoMe, NoSignin, NoChange, NoToken
<1>10. QED
  BY <1>5, <1>7, <1>8, <1>9 DEF IInv

\* Every step of the session, by the lemma of its action.
LEMMA SessionKeeps ==
  ASSUME IInv, SesAnswer \/ SesUser
  PROVE  IInv'
<1>1. CASE SesAnswer
  BY <1>1, ServeMeKeeps, ServeLoginKeeps, ReadAccountKeeps, UpdatePasswordKeeps,
     EndBootstrapKeeps, EndLoginKeeps, EndChangeKeeps DEF SesAnswer
<1>2. CASE SesUser
  <2>1. CASE \E u \in Users : SubmitLogin(u) \/ ResetPassword(u) \/ Deactivate(u)
                              \/ ChangeElsewhere(u)
    BY <2>1, SubmitLoginKeeps, ResetPasswordKeeps, DeactivateKeeps, ChangeElsewhereKeeps
  <2>2. CASE Expire \/ Logout \/ SubmitChange \/ Browse \/ OtherTab \/ FailCall
    BY <2>2, ExpireKeeps, LogoutKeeps, SubmitChangeKeeps, BrowseKeeps, OtherTabKeeps, FailCallKeeps
  <2>3. QED
    BY <1>2, <2>1, <2>2 DEF SesUser
<1>3. QED
  BY <1>1, <1>2

\* The backend's work for the bell leaves the session alone.
LEMMA DeliveryIsApart ==
  ASSUME Delivery
  PROVE  UNCHANGED sesVars
<1>1. CASE \E n \in Notes : Push(n)
  BY <1>1 DEF Push
<1>2. CASE Receive \/ Connect \/ ServeMark \/ AnswerMark
  BY <1>2 DEF Receive, Connect, ServeMark, AnswerMark
<1>3. CASE \E i \in DOMAIN loads : Answering(i)
  BY <1>3 DEF Answering, ServeLoad, AnswerLoad
<1>4. QED
  BY <1>1, <1>2, <1>3 DEF Delivery

\* Every step of the composition.
LEMMA NextKeeps ==
  ASSUME IInv, [Next]_vars
  PROVE  IInv'
<1>1. CASE (SesAnswer \/ SesUser) /\ Effect
  BY <1>1, SessionKeeps
<1>2. CASE Reload /\ Forget
  BY <1>2, ReloadKeeps
<1>3. CASE Delivery
  BY <1>3, DeliveryIsApart, BellKeeps DEF sesVars
<1>4. CASE \E n \in Notes, u \in Users : Make(n, u)
  BY <1>4, BellKeeps DEF Make, sesVars
<1>5. CASE \E n \in Notes : LosePush(n)
  BY <1>5, BellKeeps DEF LosePush
<1>6. CASE DropSocket \/ LoseMark \/ MarkAllAsRead
  BY <1>6, BellKeeps DEF DropSocket, LoseMark, MarkAllAsRead
<1>7. CASE \E k \in DOMAIN cl.list : MarkAsRead(k)
  BY <1>7, BellKeeps DEF MarkAsRead
<1>8. CASE UNCHANGED vars
  BY <1>8, BellKeeps DEF vars, sesVars
<1>9. QED
  BY <1>1, <1>2, <1>3, <1>4, <1>5, <1>6, <1>7, <1>8 DEF Next

\* The invariant holds in every behaviour.
LEMMA Invariance == Spec => []IInv
BY InitHolds, NextKeeps, PTL DEF Spec

-----------------------------------------------------------------------------
(* The theorems. *)

\* The tab is signed in as the owner of its token, and only a full token opens
\* the portal, whatever order logins, bootstraps, logouts, resets and changes
\* of the password end in.
THEOREM TokenIsFollowed == Spec => []SessionFollowsToken
<1>1. IInv => SessionFollowsToken
  <2> SUFFICES ASSUME IInv PROVE SessionFollowsToken
    OBVIOUS
  <2>1. SesTypeOK
    BY DEF IInv
  <2>2. SignedInAsTokenOwner
    BY DEF IInv, SignedInProperly, SignedInAsTokenOwner, Regular
  <2>3. PortalTokenIsFull
    <3> SUFFICES ASSUME odd = {}, ctx.auth, path = "portal"
                 PROVE  store.scope = "full"
      BY DEF PortalTokenIsFull
    <3>1. ~ctx.boot
      BY DEF IInv, CallsBelong, Regular
    <3>2. store # NoToken /\ ~ctx.requires
      BY <3>1 DEF IInv, SignedInProperly, PathFollows, Regular
    <3>3. store.scope # "change"
      BY <3>1, <3>2 DEF IInv, ChangeIsOwed
    <3>4. QED
      BY <2>1, <3>2, <3>3 DEF SesTypeOK, Tokens
  <2>4. QED
    BY <2>1, <2>2, <2>3 DEF SessionFollowsToken
<1>2. QED
  BY <1>1, Invariance, PTL

-----------------------------------------------------------------------------
(* The bell.  What the client knows of the table, while it is signed in.    *)

Load == [what : Both, token : Tokens \cup {NoToken}, pc : {"sent", "ok", "no"},
         items : Seq(Entries), crossed : BOOLEAN]
Made == {n \in Notes : nt[n].owner # NoUser}

BellTypes ==
    /\ nt \in [Notes -> [owner : Users \cup {NoUser}, read : BOOLEAN, pushed : BOOLEAN]]
    /\ wire \in Seq(Notes)
    /\ socket \in [up : BOOLEAN, user : Users \cup {NoUser}, era : Nat, refused : BOOLEAN]
    /\ loads \in Seq(Load)
    /\ mark \in [pc : {"idle", "sent", "ok", "no"}, token : Tokens \cup {NoToken}, what : SUBSET Notes]
    /\ cl \in [count : Nat, list : Seq(Entries)]
    /\ missed \subseteq Both
    /\ IsFiniteSet(Made) /\ \A m \in Made, n \in Notes : n < m => n \in Made
    /\ \A k \in DOMAIN cl.list : cl.list[k].id \in Made
    /\ \A i \in DOMAIN loads : \A k \in DOMAIN loads[i].items : loads[i].items[k].id \in Made

\* Pushes on the socket are its owner's, each once; signed out there are none.
WireFits ==
    /\ ~On(ctx) => socket.user = NoUser /\ wire = <<>>
    /\ \A i \in DOMAIN wire :
         socket.user # NoUser /\ nt[wire[i]].owner = socket.user /\ nt[wire[i]].pushed
    /\ \A i, j \in DOMAIN wire : wire[i] = wire[j] => i = j

\* A change of password belongs to whoever is signed in.
ChangeFits == Regular /\ change.pc # "idle" /\ change.heard => change.user = store.user

\* What is not on its way, and what of it is unread.
Seen(u) == Own(u) \ Pending(u)
UnreadSeen(u) == {n \in Seen(u) : ~nt[n].read}

\* A list is of the notes of S, each once.
Shows(list, S) ==
    /\ Len(list) = Cardinality(S)
    /\ \A k \in DOMAIN list : list[k].id \in S
    /\ \A n \in S : \E k \in DOMAIN list : list[k].id = n

\* The notes U are left out of those of S: a page of others is newer than
\* them, and so is all else in A.
LeavesOut(U, S, A) ==
    /\ U # {} => PageSize <= Cardinality(S \ U)
    /\ \A n \in U, k \in A \ U : n < k
ShowsPage(list, S, A) == \E U \in SUBSET S : LeavesOut(U, S, A) /\ Shows(list, S \ U)

Newer(k, S) == \A m \in S : m < k

\* A fetch that nothing has crossed is of this sign-in, and its answer is the
\* table as it still is.
LoadFits(l) ==
    /\ l.token.user = socket.user
    /\ l.token.scope = "full" => ctx.profile = socket.user
    /\ l.pc = "ok" =>
         /\ l.token.scope = "full" /\ mark.pc = "idle" /\ Pending(socket.user) = {}
         /\ l.what = "count" => Len(l.items) = Cardinality(Unread(socket.user))
         /\ l.what = "list" =>
              /\ ShowsPage(l.items, Own(socket.user), Own(socket.user))
              /\ \A k \in DOMAIN l.items : l.items[k].read = nt[l.items[k].id].read
LoadsFit == \A i \in DOMAIN loads : ~loads[i].crossed => LoadFits(loads[i])

\* Once something is known, a mark is of this sign-in, one that is done has
\* marked all that it names, and what is on its way is unread.
MarkFits ==
    missed # Both =>
      /\ mark.pc # "idle" => mark.token.user = socket.user
      /\ mark.pc = "ok" => \A n \in mark.what \cap Seen(socket.user) : nt[n].read
      /\ \A n \in Pending(socket.user) : ~nt[n].read

CountFits ==
    "count" \notin missed =>
      /\ mark.pc = "ok" /\ ~All(mark.what) => cl.count = Cardinality(UnreadSeen(socket.user)) + 1
      /\ mark.pc # "ok" => cl.count = Cardinality(UnreadSeen(socket.user))
      /\ mark.pc = "sent" /\ ~All(mark.what) =>
           \E n \in Made : /\ mark.what = {n} /\ ~nt[n].read
                           /\ n \in Own(socket.user) => n \in Seen(socket.user)

ListFits ==
    "list" \notin missed =>
      /\ ctx.profile = socket.user
      /\ ShowsPage(cl.list, Seen(socket.user), Own(socket.user))
      /\ \A k \in DOMAIN cl.list :
           LET e == cl.list[k] IN
           \/ e.read = nt[e.id].read
           \/ mark.pc = "ok" /\ e.id \in mark.what /\ nt[e.id].read

SocketFits == socket.user = store.user /\ socket.user # NoUser

Known == SocketFits /\ LoadsFit /\ MarkFits /\ CountFits /\ ListFits

BellInv == BellTypes /\ WireFits /\ ChangeFits /\ (Regular /\ On(ctx) => Known)

-----------------------------------------------------------------------------
(* Lists, the newest first. *)

LEMMA LeastNote ==
    ASSUME NEW S \in SUBSET Nat, S # {}
    PROVE  \E x \in S : \A y \in S : x <= y
<1>1. PICK x \in S : \A y \in S : ~(<<y, x>> \in OpToRel(<, Nat))
  BY NatLessThanWellFounded, WFMin
<1>2. \A y \in S : <<y, x>> \in Nat \X Nat /\ ~(y < x)
  BY <1>1 DEF OpToRel
<1>3. \A y \in S : x <= y
  <2> SUFFICES ASSUME NEW y \in S PROVE x <= y
    OBVIOUS
  <2>1. x \in Nat /\ y \in Nat /\ ~(y < x)
    BY <1>2
  <2> QED
    BY <2>1
<1> QED
  BY <1>3

\* The elements of a finite set of numbers, the greatest first.
Falling(S) ==
    \E s \in [1..Cardinality(S) -> S] : \A i, j \in 1..Cardinality(S) : i < j => s[i] > s[j]

LEMMA FallingExists ==
    ASSUME NEW S \in SUBSET Nat, IsFiniteSet(S)
    PROVE  Falling(S)
<1> DEFINE Bad == {n \in Nat : \E T \in SUBSET Nat : IsFiniteSet(T) /\ Cardinality(T) = n /\ ~Falling(T)}
<1>1. SUFFICES ASSUME Bad # {} PROVE FALSE
  BY FS_CardinalityType
<1>2. PICK n \in Bad : \A k \in Bad : n <= k
  BY <1>1, LeastNote
<1>3. PICK T \in SUBSET Nat : IsFiniteSet(T) /\ Cardinality(T) = n /\ ~Falling(T)
  BY <1>2
<1>4. n \in Nat
  BY <1>2
<1>5. T # {}
  <2> SUFFICES ASSUME T = {} PROVE FALSE
    OBVIOUS
  <2>1. n = 0 /\ 1..n = {}
    BY <1>3, FS_EmptySet
  <2>2. <<>> \in [1..n -> T]
    BY <2>1
  <2> QED
    BY <1>3, <2>1, <2>2 DEF Falling
<1>6. PICK m \in T : \A y \in T : m <= y
  BY <1>5, LeastNote
<1> DEFINE R == T \ {m}
<1>7. IsFiniteSet(R) /\ Cardinality(R) = n - 1
  BY <1>3, FS_RemoveElement
<1>8. n - 1 \in Nat
  BY <1>7, FS_CardinalityType
<1>9. Falling(R)
  <2>1. n - 1 \notin Bad
    BY <1>2, <1>4
  <2>2. R \in SUBSET Nat
    OBVIOUS
  <2> QED
    BY <1>7, <1>8, <2>1, <2>2
<1>10. PICK g \in [1..(n - 1) -> R] : \A i, j \in 1..(n - 1) : i < j => g[i] > g[j]
  BY <1>7, <1>9 DEF Falling
<1> DEFINE f == [i \in 1..n |-> IF i = n THEN m ELSE g[i]]
<1>11. \A i \in 1..n : i # n => i \in 1..(n - 1)
  BY <1>4
<1>12. f \in [1..n -> T]
  BY <1>10, <1>11
<1>13. ASSUME NEW i \in 1..n, NEW j \in 1..n, i < j PROVE f[i] > f[j]
  <2>0. i # n /\ i \in 1..(n - 1)
    BY <1>4, <1>11, <1>13
  <2>1. i # n /\ i \in 1..(n - 1) /\ f[i] = g[i] /\ g[i] \in R /\ g[i] \in Nat /\ m \in Nat
    BY <1>10, <2>0
  <2>2. CASE j = n
    <3>1. f[j] = m /\ m <= g[i] /\ g[i] # m
      BY <1>6, <2>1, <2>2
    <3> QED
      BY <2>1, <3>1
  <2>3. CASE j # n
    <3>1. j \in 1..(n - 1) /\ f[j] = g[j]
      BY <1>11, <2>3
    <3> QED
      BY <1>10, <1>13, <2>1, <3>1
  <2> QED
    BY <2>2, <2>3
<1>14. Falling(T)
  BY <1>3, <1>12, <1>13 DEF Falling
<1> QED
  BY <1>3, <1>14

\* The answer of the backend: the notes of S, each once, as the table has them.
LEMMA ListedShows ==
    ASSUME BellTypes, NEW S \in SUBSET Made
    PROVE  /\ Listed(S) \in Seq(Entries) /\ Shows(Listed(S), S)
           /\ \A k \in DOMAIN Listed(S) : Listed(S)[k].read = nt[Listed(S)[k].id].read
<1> DEFINE n == Cardinality(S)
           E == {[id |-> x, read |-> nt[x].read] : x \in S}
           Sorted(s) == \A i, j \in DOMAIN s : i < j => s[i].id > s[j].id
<1>1. S \in SUBSET Nat /\ S \subseteq Notes /\ IsFiniteSet(S) /\ n \in Nat
  BY NotesAssumption, FS_Subset, FS_CardinalityType DEF BellTypes, Made
<1>2. \A e \in E : e.id \in S /\ e.read = nt[e.id].read /\ e \in Entries
  BY <1>1 DEF BellTypes, Entries
<1>3. \E s \in [1..n -> E] : Sorted(s)
  <2>1. PICK f \in [1..n -> S] : \A i, j \in 1..n : i < j => f[i] > f[j]
    BY <1>1, FallingExists DEF Falling
  <2> DEFINE s == [i \in 1..n |-> [id |-> f[i], read |-> nt[f[i]].read]]
  <2>2. s \in [1..n -> E]
    BY <2>1
  <2>3. \A i \in 1..n : s[i].id = f[i]
    BY <2>1
  <2>4. DOMAIN s = 1..n
    OBVIOUS
  <2> HIDE DEF s
  <2>5. Sorted(s)
    BY <2>1, <2>3, <2>4
  <2> QED
    BY <2>2, <2>5
<1> DEFINE r == Listed(S)
<1>4. r \in [1..n -> E] /\ Sorted(r)
  BY <1>3 DEF Listed
<1> HIDE DEF r, E
<1>5. DOMAIN r = 1..n /\ r \in Seq(Entries) /\ Len(r) = n
  <2>1. \A i \in 1..n : r[i] \in Entries
    BY <1>2, <1>4
  <2>2. r \in [1..n -> Entries]
    BY <1>4, <2>1
  <2>3. r \in Seq(Entries)
    BY <1>1, <2>2
  <2> QED
    BY <1>1, <1>4, <2>3
<1>6. \A k \in 1..n : r[k].id \in S /\ r[k].read = nt[r[k].id].read
  BY <1>2, <1>4
<1>7. \A x \in S : \E k \in 1..n : r[k].id = x
  <2> DEFINE h == [k \in 1..n |-> r[k].id]
  <2>1. \A i, j \in 1..n : i < j => h[i] > h[j]
    BY <1>4, <1>5
  <2>2. h \in [1..n -> S]
    BY <1>6
  <2>3. \A i, j \in 1..n : i # j => h[i] # h[j]
    <3> SUFFICES ASSUME NEW i \in 1..n, NEW j \in 1..n, i # j PROVE h[i] # h[j]
      OBVIOUS
    <3>0. h[i] \in S /\ h[j] \in S /\ i \in Int /\ j \in Int
      BY <2>2
    <3>1. h[i] \in Nat /\ h[j] \in Nat
      BY <1>1, <3>0
    <3>2. h[i] > h[j] \/ h[j] > h[i]
      BY <2>1, <3>1
    <3> QED
      BY <3>1, <3>2
  <2> HIDE DEF h
  <2>4. h \in Injection(1..n, S)
    BY <2>2, <2>3 DEF Injection, IsInjective
  <2>5. Cardinality(1..n) = n
    BY <1>1, FS_Interval
  <2>6. h \in Surjection(1..n, S)
    BY <1>1, <2>4, <2>5, FS_Injection
  <2>7. \A x \in S : \E k \in 1..n : h[k] = x
    BY <2>6 DEF Surjection
  <2> QED
    BY <2>7 DEF h
<1>8. Shows(r, S)
  BY <1>5, <1>6, <1>7 DEF Shows
<1> QED
  BY <1>5, <1>6, <1>8 DEF r

-----------------------------------------------------------------------------
(* The session under the bell. *)

LEMMA OddGrows ==
    ASSUME SesAnswer \/ SesUser \/ Reload, Regular'
    PROVE  Regular
<1>1. odd \subseteq odd'
  <2>1. CASE SesAnswer
    BY <2>1 DEF SesAnswer, ServeMe, ServeLogin, ReadAccount, UpdatePassword, EndBootstrap, EndLogin, EndChange
  <2>2. CASE SesUser
    BY <2>2 DEF SesUser, SubmitLogin, ResetPassword, Deactivate, ChangeElsewhere, Logout, SubmitChange,
                Browse, OtherTab, FailCall, Expire
  <2>3. CASE Reload
    BY <2>3 DEF Reload
  <2> QED
    BY <2>1, <2>2, <2>3
<1> QED
  BY <1>1 DEF Regular

\* The steps that change nothing the bell looks at.
SameTab == store' = store /\ ctx' = ctx
SameChange ==
    /\ change'.user = change.user /\ change'.heard = change.heard
    /\ change'.pc # "idle" => change.pc # "idle"

LEMMA QuietSession ==
    ASSUME SesTypeOK,
           \/ ServeMe \/ ServeLogin \/ ReadAccount \/ UpdatePassword \/ Browse \/ FailCall \/ Expire
           \/ \E u \in Users : SubmitLogin(u) \/ ResetPassword(u) \/ Deactivate(u) \/ ChangeElsewhere(u)
    PROVE  SameTab /\ SameChange
<1>1. \A p \in {"read", "ok", "no"} :
        LET c == [change EXCEPT !.pc = p] IN c.user = change.user /\ c.heard = change.heard
  BY DEF SesTypeOK
<1>2. CASE ReadAccount \/ UpdatePassword \/ FailCall
  <2>1. /\ SameTab
        /\ \/ change' = change
           \/ change.pc # "idle" /\ \E p \in {"read", "ok", "no"} : change' = [change EXCEPT !.pc = p]
    BY <1>2 DEF ReadAccount, UpdatePassword, FailCall, SameTab
  <2> QED
    BY <1>1, <2>1 DEF SameChange
<1>3. CASE ServeMe \/ ServeLogin \/ Browse \/ Expire
  BY <1>3 DEF ServeMe, ServeLogin, Browse, Expire, SameTab, SameChange
<1>4. CASE \E u \in Users : SubmitLogin(u) \/ ResetPassword(u) \/ Deactivate(u) \/ ChangeElsewhere(u)
  BY <1>4 DEF SubmitLogin, ResetPassword, Deactivate, ChangeElsewhere, SameTab, SameChange
<1> QED
  BY <1>2, <1>3, <1>4

\* What the other steps do to the token and the context.
LEMMA BootstrapEnds ==
    ASSUME IInv, Regular, EndBootstrap
    PROVE  /\ ctx.boot /\ ~ctx.auth /\ change' = change /\ store.user \in Users
           /\ \/ ~On(ctx')
              \/ store' = store /\ ctx'.profile = store.user
<1>1. SesTypeOK /\ ctx.boot /\ ~ctx.auth /\ me.token = store /\ store # NoToken
  BY DEF IInv, CallsAreOwned, CallsBelong, EndBootstrap
<1>2. store.user \in Users
  BY <1>1 DEF SesTypeOK, Tokens
<1>3. CASE me.pc = "ok" /\ store' = store
           /\ ctx' = [boot |-> FALSE, auth |-> TRUE, requires |-> Required, profile |-> me.token.user]
  BY <1>1, <1>2, <1>3 DEF EndBootstrap
<1>4. CASE ctx' = NoBootstrap
  BY <1>1, <1>2, <1>4 DEF EndBootstrap, NoBootstrap, FailedBootstrap, SesTypeOK, On
<1> QED
  BY <1>3, <1>4 DEF EndBootstrap

LEMMA LoginEnds ==
    ASSUME IInv, Regular, EndLogin
    PROVE  /\ ~ctx.auth /\ change' = change
           /\ \/ SameTab
              \/ /\ store'.user = signin.user /\ signin.user \in Users
                 /\ store'.scope = "full" => ctx'.profile = store'.user
<1>1. SesTypeOK /\ ~ctx.auth /\ signin.user \in Users /\ signin.must \in BOOLEAN
  BY DEF IInv, CallsAreOwned, CallsBelong, EndLogin, SesTypeOK
<1>2. CASE signin.pc = "no"
  BY <1>1, <1>2 DEF EndLogin, SameTab
<1>3. CASE signin.pc # "no"
  <2>1. /\ store' = Issued(signin.user, signin.must)
        /\ ctx' = [ctx EXCEPT !.auth = TRUE, !.requires = signin.must,
                              !.profile = IF signin.must THEN NoUser ELSE signin.user]
    BY <1>3 DEF EndLogin
  <2>2. store'.user = signin.user /\ (store'.scope = "full" => ~signin.must)
    BY <1>1, <2>1 DEF Issued, NextScope
  <2>3. ~signin.must => ctx'.profile = signin.user
    BY <1>1, <2>1 DEF SesTypeOK
  <2> QED
    BY <1>1, <2>2, <2>3 DEF EndLogin
<1> QED
  BY <1>2, <1>3

LEMMA ChangeEnds ==
    ASSUME IInv, EndChange
    PROVE  /\ change'.pc = "idle"
           /\ \/ SameTab
              \/ /\ change.pc # "idle" /\ change.heard /\ change.user \in Users
                 /\ store'.user = change.user /\ ctx'.profile = change.user
<1>1. SesTypeOK /\ change.user \in Users /\ change.pc \in {"ok", "no"} /\ change' = NoChange
  BY DEF IInv, CallsAreOwned, EndChange
<1>0. change'.pc = "idle"
  BY <1>1 DEF NoChange
<1>2. CASE change.pc = "no" \/ ~change.heard
  <2>1. UNCHANGED <<store, ctx, path>>
    BY <1>2 DEF EndChange
  <2> QED
    BY <1>0, <2>1 DEF SameTab
<1>3. CASE change.pc # "no" /\ change.heard
  <2>1. /\ store' = Issued(change.user, FALSE)
        /\ ctx' = [ctx EXCEPT !.auth = TRUE, !.requires = FALSE, !.profile = change.user]
    BY <1>3 DEF EndChange
  <2>2. store'.user = change.user /\ ctx'.profile = change.user
    BY <2>1, <1>1 DEF Issued, SesTypeOK
  <2> QED
    BY <1>0, <1>1, <1>3, <2>2
<1> QED
  BY <1>2, <1>3

\* The other steps of the session, one by one.
LEMMA SessionCases ==
    ASSUME SesAnswer \/ SesUser
    PROVE  \/ ServeMe \/ ServeLogin \/ ReadAccount \/ UpdatePassword \/ Browse \/ FailCall \/ Expire
           \/ \E u \in Users : SubmitLogin(u) \/ ResetPassword(u) \/ Deactivate(u) \/ ChangeElsewhere(u)
           \/ EndBootstrap \/ EndLogin \/ EndChange \/ Logout \/ SubmitChange \/ OtherTab
BY DEF SesAnswer, SesUser

LEMMA OtherTabIsOdd == ASSUME OtherTab PROVE ~Regular'
BY DEF OtherTab, Regular

LEMMA LogsOut ==
    ASSUME SesTypeOK, Logout
    PROVE  ~On(ctx') /\ change' = change /\ (change.pc # "idle" => ~Regular')
<1>1. ctx'.auth = FALSE /\ change' = change
  BY DEF Logout, SignedOut
<1>2. change.pc # "idle" => "late" \in odd'
  BY DEF Logout
<1> QED
  BY <1>1, <1>2 DEF On, Regular

LEMMA ChangeFitsKeeps ==
    ASSUME IInv, ChangeFits, SesAnswer \/ SesUser
    PROVE  ChangeFits'
<1> SUFFICES ASSUME Regular', change'.pc # "idle", change'.heard
             PROVE  change'.user = store'.user
  BY DEF ChangeFits
<1>1. SesTypeOK /\ Regular
  BY OddGrows DEF IInv
<1>2. CASE SameTab /\ SameChange
  BY <1>1, <1>2 DEF ChangeFits, SameTab, SameChange
<1>3. change' = change => change.pc # "idle" /\ change.heard /\ ctx.auth /\ change.user = store.user
  BY <1>1 DEF IInv, CallsBelong, ChangeFits
<1>4. CASE EndBootstrap
  BY <1>1, <1>3, <1>4, BootstrapEnds
<1>5. CASE EndLogin
  BY <1>1, <1>3, <1>5, LoginEnds
<1>6. CASE EndChange
  BY <1>6, ChangeEnds
<1>7. CASE Logout
  BY <1>1, <1>3, <1>7, LogsOut
<1>8. CASE SubmitChange
  BY <1>8 DEF SubmitChange
<1>9. CASE OtherTab
  BY <1>9, OtherTabIsOdd
<1> QED
  BY <1>1, <1>2, <1>4, <1>5, <1>6, <1>7, <1>8, <1>9, SessionCases, QuietSession

\* Who stays signed in stays the same user.
LEMMA StaysSigned ==
    ASSUME IInv, ChangeFits, SesAnswer \/ SesUser, Regular', On(ctx), On(ctx')
    PROVE  store'.user = store.user /\ ctx'.profile \in {ctx.profile, store.user}
<1>1. SesTypeOK /\ Regular /\ ctx.auth /\ ~ctx.boot
  BY OddGrows DEF IInv, On
<1>2. CASE SameTab
  BY <1>2 DEF SameTab
<1>3. CASE EndBootstrap \/ EndLogin
  BY <1>1, <1>3, BootstrapEnds, LoginEnds
<1>4. CASE EndChange
  BY <1>1, <1>2, <1>4, ChangeEnds DEF ChangeFits
<1>5. CASE Logout \/ OtherTab
  BY <1>1, <1>5, LogsOut, OtherTabIsOdd
<1>6. CASE SubmitChange
  BY <1>2, <1>6 DEF SubmitChange, SameTab
<1> QED
  BY <1>1, <1>2, <1>3, <1>4, <1>5, <1>6, SessionCases, QuietSession

\* Who signs in with a full token is known by name.
LEMMA SignsIn ==
    ASSUME IInv, SesAnswer \/ SesUser, Regular', ~On(ctx), On(ctx')
    PROVE  store'.user \in Users /\ (store'.scope = "full" => ctx'.profile = store'.user)
<1>1. SesTypeOK /\ Regular
  BY OddGrows DEF IInv
<1>2. ~SameTab
  BY DEF SameTab
<1>3. CASE EndBootstrap
  BY <1>1, <1>3, BootstrapEnds
<1>4. CASE EndLogin
  BY <1>1, <1>2, <1>4, LoginEnds
<1>5. CASE EndChange
  BY <1>2, <1>5, ChangeEnds
<1>6. CASE Logout \/ OtherTab
  BY <1>1, <1>6, LogsOut, OtherTabIsOdd
<1>7. CASE SubmitChange
  BY <1>2, <1>7 DEF SubmitChange, SameTab
<1> QED
  BY <1>1, <1>2, <1>3, <1>4, <1>5, <1>6, <1>7, SessionCases, QuietSession

-----------------------------------------------------------------------------
(* The bell's own steps: what they leave alone. *)

LEMMA NobodyHasNoToken ==
    /\ NoToken.user = NoUser
    /\ \A t \in Tokens \cup {NoToken} : t.user \in Users \cup {NoUser} /\ t.era \in Nat
BY DEF NoToken, Tokens

\* What is made is finite, and so is every part of it.
LEMMA PartsAreFinite ==
    ASSUME BellTypes, NEW u, u # NoUser
    PROVE  /\ Own(u) \subseteq Made /\ Seen(u) \subseteq Own(u)
           /\ Unread(u) \subseteq Own(u) /\ UnreadSeen(u) \subseteq Seen(u) /\ Pending(u) \subseteq Own(u)
           /\ IsFiniteSet(Seen(u)) /\ Cardinality(Seen(u)) \in Nat
           /\ IsFiniteSet(UnreadSeen(u)) /\ Cardinality(UnreadSeen(u)) \in Nat
<1>1. /\ Own(u) \subseteq Made /\ Seen(u) \subseteq Own(u)
      /\ Unread(u) \subseteq Own(u) /\ UnreadSeen(u) \subseteq Seen(u) /\ Pending(u) \subseteq Own(u)
  BY DEF Own, Made, Seen, Unread, UnreadSeen, Pending
<1>2. IsFiniteSet(Seen(u)) /\ IsFiniteSet(UnreadSeen(u))
  BY <1>1, FS_Subset DEF BellTypes
<1> QED
  BY <1>1, <1>2, FS_CardinalityType

\* With everything missed nothing has to be shown about the count and the list.
LEMMA AllMissed ==
    ASSUME missed' = Both, SocketFits', LoadsFit'
    PROVE  Known'
<1>1. MarkFits'
  BY DEF MarkFits
<1>2. CountFits' /\ ListFits'
  BY DEF CountFits, ListFits, Both
<1> QED
  BY <1>1, <1>2 DEF Known

\* What is left out stays so while only newer notifications come.
LEMMA PageKept ==
    ASSUME NEW list, NEW S, NEW A, NEW B, ShowsPage(list, S, A),
           \A k \in B : k \in A \/ Newer(k, S)
    PROVE  ShowsPage(list, S, B)
<1>1. PICK U \in SUBSET S : LeavesOut(U, S, A) /\ Shows(list, S \ U)
  BY DEF ShowsPage
<1>2. ASSUME NEW n \in U, NEW k \in B \ U PROVE n < k
  BY <1>1 DEF LeavesOut, Newer
<1>3. LeavesOut(U, S, B)
  BY <1>1, <1>2 DEF LeavesOut
<1> QED
  BY <1>1, <1>3 DEF ShowsPage

\* It is of notes of S, and it stays so when nothing but flags changes in it.
LEMMA PageRelisted ==
    ASSUME NEW S, NEW A, NEW list, NEW more, ShowsPage(list, S, A), DOMAIN more = DOMAIN list,
           Len(more) = Len(list), \A k \in DOMAIN list : more[k].id = list[k].id
    PROVE  ShowsPage(more, S, A) /\ \A k \in DOMAIN list : list[k].id \in S
<1>1. PICK U \in SUBSET S : LeavesOut(U, S, A) /\ Shows(list, S \ U)
  BY DEF ShowsPage
<1>2. Shows(more, S \ U) /\ \A k \in DOMAIN list : list[k].id \in S
  BY <1>1 DEF Shows
<1> QED
  BY <1>1, <1>2 DEF ShowsPage

\* The same for a step after which the table looks the same to the client.
SameView ==
    /\ Seen(socket.user)' = Seen(socket.user) /\ socket'.user = socket.user
    /\ \A n \in Made : nt'[n].read = nt[n].read /\ nt'[n].owner = nt[n].owner /\ n \in Made'
    /\ \A n \in Pending(socket.user)' : n \in Pending(socket.user) \/ ~nt'[n].read
    /\ \A n \in Own(socket.user)' : n \in Own(socket.user) \/ Newer(n, Made)

LEMMA ViewKept ==
    ASSUME BellTypes, Known, SameView, UNCHANGED <<cl, mark, missed, ctx>>
    PROVE  MarkFits' /\ CountFits' /\ ListFits'
<1> DEFINE u == socket.user
<1>1. /\ u # NoUser /\ socket'.user = u /\ Seen(u) \subseteq Made /\ Seen(u)' = Seen(u)
      /\ \A n \in Seen(u) : nt'[n].read = nt[n].read
  BY PartsAreFinite DEF Known, SocketFits, SameView
<1>2. UnreadSeen(u)' = UnreadSeen(u)
  BY <1>1 DEF UnreadSeen
<1>3. MarkFits'
  BY <1>1 DEF Known, MarkFits, SameView, Pending, Own, Made
<1>4. CountFits'
  <2> SUFFICES ASSUME "count" \notin missed PROVE CountFits'
    BY DEF CountFits
  <2>1. Cardinality(UnreadSeen(socket.user)') = Cardinality(UnreadSeen(socket.user))
    BY <1>1, <1>2
  <2>2. ASSUME mark.pc = "sent", ~All(mark.what)
        PROVE  \E n \in Made' : /\ mark.what = {n} /\ ~nt'[n].read
                                /\ n \in Own(socket.user)' => n \in Seen(socket.user)'
    <3>1. PICK n \in Made : /\ mark.what = {n} /\ ~nt[n].read
                            /\ n \in Own(socket.user) => n \in Seen(socket.user)
      BY <2>2 DEF Known, CountFits
    <3>2. nt'[n].read = nt[n].read /\ nt'[n].owner = nt[n].owner /\ n \in Made'
      BY DEF SameView
    <3>3. n \in Own(socket.user)' => n \in Own(socket.user)
      BY <1>1, <3>2 DEF Own
    <3> QED
      BY <1>1, <3>1, <3>2, <3>3
  <2> QED
    BY <1>2, <2>1, <2>2 DEF Known, CountFits, All
<1>5. ListFits'
  <2> SUFFICES ASSUME "list" \notin missed PROVE ListFits'
    BY DEF ListFits
  <2>1. ShowsPage(cl.list, Seen(u), Own(u))
    BY DEF Known, ListFits
  <2>2. \A k \in DOMAIN cl.list : cl.list[k].id \in Seen(u)
    BY <2>1 DEF ShowsPage, Shows
  <2>3. \A n \in Own(u)' : n \in Own(u) \/ Newer(n, Seen(u))
    BY <1>1 DEF SameView, Newer
  <2>4. ShowsPage(cl.list, Seen(u), Own(u)')
    BY <2>1, <2>3, PageKept
  <2>5. ShowsPage(cl'.list, Seen(socket.user)', Own(socket.user)') /\ ctx'.profile = socket'.user
    BY <1>1, <2>4 DEF Known, ListFits
  <2>6. \A k \in DOMAIN cl.list :
          \/ cl.list[k].read = nt'[cl.list[k].id].read
          \/ mark.pc = "ok" /\ cl.list[k].id \in mark.what /\ nt'[cl.list[k].id].read
    BY <1>1, <2>2 DEF Known, ListFits
  <2> QED
    BY <2>5, <2>6 DEF ListFits
<1> QED
  BY <1>3, <1>4, <1>5

\* Answers that something has crossed need nothing, and fetches are of this sign-in.
LEMMA LoadsCrossed ==
    ASSUME BellTypes, loads' = Crossed(loads)
    PROVE  /\ loads' \in Seq(Load) /\ DOMAIN loads' = DOMAIN loads
           /\ \A i \in DOMAIN loads : /\ loads'[i].token = loads[i].token /\ loads'[i].items = loads[i].items
                                      /\ loads'[i].crossed \/ (~loads[i].crossed /\ loads'[i].pc # "ok")
           /\ LoadsFit /\ socket'.user = socket.user /\ ctx' = ctx => LoadsFit'
<1>1. loads \in Seq(Load) /\ \A i \in DOMAIN loads : loads[i] \in Load
  BY DEF BellTypes
<1>2. /\ DOMAIN loads' = DOMAIN loads
      /\ \A i \in DOMAIN loads : loads'[i] = IF loads[i].pc = "ok" THEN [loads[i] EXCEPT !.crossed = TRUE]
                                             ELSE loads[i]
  BY DEF Crossed
<1>3. \A i \in DOMAIN loads : loads'[i] \in Load
  BY <1>1, <1>2 DEF Load
<1>4. loads' \in Seq(Load)
  <2>1. DOMAIN loads = 1..Len(loads) /\ Len(loads) \in Nat
    BY <1>1
  <2>2. loads' = [i \in 1..Len(loads) |-> loads'[i]]
    BY <1>2, <2>1 DEF Crossed
  <2>3. \A i \in 1..Len(loads) : loads'[i] \in Load
    BY <1>3, <2>1
  <2>4. loads' \in [1..Len(loads) -> Load]
    BY <2>2, <2>3
  <2> QED
    BY <2>1, <2>4
<1>5. \A i \in DOMAIN loads : /\ loads'[i].token = loads[i].token /\ loads'[i].items = loads[i].items
                              /\ loads'[i].crossed \/ (~loads[i].crossed /\ loads'[i].pc # "ok")
  BY <1>1, <1>2 DEF Load
<1>6. ASSUME LoadsFit, socket'.user = socket.user, ctx' = ctx PROVE LoadsFit'
  BY <1>2, <1>5, <1>6 DEF LoadsFit, LoadFits
<1> QED
  BY <1>2, <1>4, <1>5, <1>6

\* Fetches stay what they are while nobody touches them or the table.
LEMMA LoadsStay ==
    ASSUME LoadsFit, UNCHANGED <<loads, nt, wire, mark, ctx>>, socket'.user = socket.user
    PROVE  LoadsFit'
<1>1. Pending(socket.user)' = Pending(socket.user) /\ Own(socket.user)' = Own(socket.user)
      /\ Unread(socket.user)' = Unread(socket.user)
  BY DEF Pending, Own, Unread
<1>2. \A i \in DOMAIN loads : LoadFits(loads[i]) => LoadFits(loads[i])'
  BY <1>1 DEF LoadFits
<1> QED
  BY <1>2 DEF LoadsFit, LoadFits

-----------------------------------------------------------------------------
(* The bell's own steps: what they do. *)

\* A step of the bell leaves the session alone.
SameSession == UNCHANGED <<store, ctx, change, odd>>

LEMMA BellStep ==
    ASSUME BellInv, SameSession, BellTypes', WireFits', Regular /\ On(ctx) /\ Known => Known'
    PROVE  BellInv'
<1>1. ChangeFits' /\ (Regular' <=> Regular) /\ (On(ctx') <=> On(ctx))
  BY DEF BellInv, ChangeFits, SameSession, Regular, On
<1> QED
  BY <1>1 DEF BellInv

LEMMA TypesKept ==
    ASSUME BellTypes, loads' = loads \/ loads' = Crossed(loads),
           nt' \in [Notes -> [owner : Users \cup {NoUser}, read : BOOLEAN, pushed : BOOLEAN]],
           Made \subseteq Made', IsFiniteSet(Made'), \A m \in Made', x \in Notes : x < m => x \in Made',
           wire' \in Seq(Notes),
           socket' \in [up : BOOLEAN, user : Users \cup {NoUser}, era : Nat, refused : BOOLEAN],
           mark' \in [pc : {"idle", "sent", "ok", "no"}, token : Tokens \cup {NoToken}, what : SUBSET Notes],
           cl' \in [count : Nat, list : Seq(Entries)], missed' \subseteq Both,
           \A k \in DOMAIN cl'.list : cl'.list[k].id \in Made'
    PROVE  BellTypes'
<1>1. /\ loads' \in Seq(Load) /\ DOMAIN loads' = DOMAIN loads
      /\ \A i \in DOMAIN loads : loads'[i].items = loads[i].items
  BY LoadsCrossed DEF BellTypes
<1>2. \A i \in DOMAIN loads' : \A k \in DOMAIN loads'[i].items : loads'[i].items[k].id \in Made'
  BY <1>1 DEF BellTypes
<1> QED
  BY <1>1, <1>2 DEF BellTypes

\* The table with one flag set, or a row filled.
LEMMA PushedOnly ==
    ASSUME BellTypes, NEW n \in Notes, nt' = [nt EXCEPT ![n].pushed = TRUE]
    PROVE  /\ nt' \in [Notes -> [owner : Users \cup {NoUser}, read : BOOLEAN, pushed : BOOLEAN]]
           /\ \A x \in Notes : /\ nt'[x].owner = nt[x].owner /\ nt'[x].read = nt[x].read
                               /\ nt'[x].pushed = (nt[x].pushed \/ x = n)
           /\ Made' = Made /\ IsFiniteSet(Made')
<1>1. nt \in [Notes -> [owner : Users \cup {NoUser}, read : BOOLEAN, pushed : BOOLEAN]]
  BY DEF BellTypes
<1>2. nt' \in [Notes -> [owner : Users \cup {NoUser}, read : BOOLEAN, pushed : BOOLEAN]]
  BY <1>1
<1>3. \A x \in Notes : /\ nt'[x].owner = nt[x].owner /\ nt'[x].read = nt[x].read
                       /\ nt'[x].pushed = (nt[x].pushed \/ x = n)
  BY <1>1
<1>4. Made' = Made
  BY <1>3 DEF Made
<1> QED
  BY <1>2, <1>3, <1>4 DEF BellTypes

LEMMA MakeBell ==
    ASSUME BellInv, NEW n \in Notes, NEW u \in Users, Make(n, u)
    PROVE  BellInv'
<1>1. BellTypes /\ u # NoUser /\ u \in Users
  BY UsersAssumption DEF BellInv
<1>2. /\ nt[n].owner = NoUser /\ nt' = [nt EXCEPT ![n] = [Unmade EXCEPT !.owner = u]] /\ loads' = Crossed(loads)
      /\ UNCHANGED <<wire, socket, mark, cl, missed>> /\ SameSession
  BY DEF Make, sesVars, SameSession
<1>3. nt \in [Notes -> [owner : Users \cup {NoUser}, read : BOOLEAN, pushed : BOOLEAN]]
  BY <1>1 DEF BellTypes
<1>4. nt' \in [Notes -> [owner : Users \cup {NoUser}, read : BOOLEAN, pushed : BOOLEAN]]
  BY <1>1, <1>2, <1>3 DEF Unmade
<1>5. /\ \A x \in Notes : x # n => nt'[x] = nt[x]
      /\ nt'[n].owner = u /\ ~nt'[n].read /\ ~nt'[n].pushed
      /\ nt[n].owner = NoUser
  BY <1>2, <1>3 DEF Unmade
<1>6. Made' = Made \cup {n} /\ IsFiniteSet(Made') /\ n \notin Made
  <2>1. Made' = Made \cup {n} /\ n \notin Made
    BY <1>1, <1>5 DEF Made
  <2> QED
    BY <1>1, <2>1, FS_AddElement DEF BellTypes
<1>11. \A k \in Notes : k < n => k \in Made
  BY DEF Make, Made
<1>12. Newer(n, Made)
  <2> SUFFICES ASSUME NEW m \in Made PROVE m < n
    BY DEF Newer
  <2>1. m \in Notes /\ m \in Nat /\ n \in Nat /\ m # n
    BY <1>6, NotesAssumption DEF Made
  <2>2. ~(n < m)
    BY <1>1, <1>6 DEF BellTypes
  <2> QED
    BY <2>1, <2>2
<1>13. \A m \in Made', x \in Notes : x < m => x \in Made'
  BY <1>1, <1>6, <1>11 DEF BellTypes
<1>7. BellTypes'
  BY <1>1, <1>2, <1>4, <1>6, <1>13, TypesKept DEF BellTypes
<1>8. \A i \in DOMAIN wire : wire[i] \in Notes /\ wire[i] # n
  BY <1>1, <1>5 DEF BellInv, WireFits, BellTypes
<1>9. WireFits'
  BY <1>2, <1>5, <1>8 DEF BellInv, WireFits, SameSession
<1>10. ASSUME Known PROVE Known'
  <2>0. socket.user # NoUser /\ socket' = socket
    BY <1>2, <1>10 DEF Known, SocketFits
  <2>1. \A x \in Notes : x # n => (x \in Own(socket.user)' <=> x \in Own(socket.user))
    BY <1>2, <1>5 DEF Own
  <2>2. \A x \in Notes : x # n => (x \in Pending(socket.user)' <=> x \in Pending(socket.user))
    BY <1>2, <1>5, <2>1 DEF Pending
  <2>3. n \notin Seen(socket.user) /\ n \notin Seen(socket.user)'
    BY <1>5, <2>0 DEF Seen, Own, Pending
  <2>4. Seen(socket.user)' = Seen(socket.user)
    BY <2>1, <2>2, <2>3 DEF Seen, Own
  <2>5. \A x \in Pending(socket.user)' : x \in Pending(socket.user) \/ ~nt'[x].read
    <3>1. Pending(socket.user)' \subseteq Notes
      BY DEF Pending, Own
    <3> QED
      BY <1>5, <2>2, <3>1
  <2>6. \A x \in Made : nt'[x].read = nt[x].read /\ nt'[x].owner = nt[x].owner /\ x \in Made'
    BY <1>5, <1>6 DEF Made
  <2>11. \A x \in Own(socket.user)' : x \in Own(socket.user) \/ Newer(x, Made)
    BY <1>12, <2>1 DEF Own
  <2>7. SameView
    BY <2>0, <2>4, <2>5, <2>6, <2>11 DEF SameView
  <2>8. MarkFits' /\ CountFits' /\ ListFits'
    BY <1>1, <1>2, <1>10, <2>7, ViewKept DEF SameSession
  <2>9. LoadsFit'
    BY <1>1, <1>2, <1>10, LoadsCrossed DEF Known, SameSession
  <2>10. SocketFits'
    BY <1>2, <1>10 DEF Known, SocketFits, SameSession
  <2> QED
    BY <2>8, <2>9, <2>10 DEF Known
<1> QED
  BY <1>2, <1>7, <1>9, <1>10, BellStep

\* A push: onto the socket, past it, or lost with a socket that is not there.
LEMMA PushBell ==
    ASSUME BellInv, NEW n \in Notes, Push(n)
    PROVE  BellInv'
<1>1. BellTypes /\ WireFits
  BY DEF BellInv
<1>2. /\ nt[n].owner # NoUser /\ ~nt[n].pushed /\ nt' = [nt EXCEPT ![n].pushed = TRUE]
      /\ loads' = Crossed(loads) /\ UNCHANGED <<socket, mark, cl>> /\ SameSession
  BY DEF Push, sesVars, SameSession
<1>3. \/ nt[n].owner # socket.user /\ UNCHANGED <<wire, missed>>
      \/ nt[n].owner = socket.user /\ wire' = Append(wire, n) /\ UNCHANGED missed
      \/ nt[n].owner = socket.user /\ missed' = Both /\ UNCHANGED wire
  BY DEF Push
<1>4. /\ nt' \in [Notes -> [owner : Users \cup {NoUser}, read : BOOLEAN, pushed : BOOLEAN]]
      /\ \A x \in Notes : /\ nt'[x].owner = nt[x].owner /\ nt'[x].read = nt[x].read
                          /\ nt'[x].pushed = (nt[x].pushed \/ x = n)
      /\ Made' = Made /\ IsFiniteSet(Made')
  BY <1>1, <1>2, PushedOnly
<1>5. wire \in Seq(Notes) /\ wire' \in Seq(Notes) /\ missed' \subseteq Both
  <2>1. wire \in Seq(Notes) /\ missed' \subseteq Both
    BY <1>1, <1>3 DEF BellTypes
  <2>2. wire' = wire \/ wire' = Append(wire, n)
    BY <1>3
  <2> QED
    BY <2>1, <2>2
<1>6. BellTypes'
  BY <1>1, <1>2, <1>4, <1>5, TypesKept DEF BellTypes
<1>7. /\ \A i \in DOMAIN wire : wire[i] \in Notes /\ wire[i] # n
      /\ \A i \in DOMAIN wire' : (i \in DOMAIN wire /\ wire'[i] = wire[i])
                                  \/ (wire' = Append(wire, n) /\ i = Len(wire) + 1 /\ wire'[i] = n)
  BY <1>1, <1>2, <1>3, <1>5 DEF WireFits
<1>8. ~On(ctx)' => socket'.user = NoUser /\ wire' = <<>>
  BY <1>1, <1>2, <1>3 DEF WireFits, SameSession, On
<1>9. WireFits'
  <2>1. \A i \in DOMAIN wire' : socket'.user # NoUser /\ nt'[wire'[i]].owner = socket'.user /\ nt'[wire'[i]].pushed
    <3> SUFFICES ASSUME NEW i \in DOMAIN wire'
                 PROVE  socket'.user # NoUser /\ nt'[wire'[i]].owner = socket'.user /\ nt'[wire'[i]].pushed
      OBVIOUS
    <3>1. CASE i \in DOMAIN wire /\ wire'[i] = wire[i]
      BY <1>1, <1>2, <1>4, <1>7, <3>1 DEF WireFits
    <3>2. CASE wire' = Append(wire, n) /\ wire'[i] = n
      <4>1. wire' # wire
        BY <1>5, <3>2
      <4>2. nt[n].owner = socket.user
        BY <1>3, <4>1
      <4> QED
        BY <1>2, <1>4, <3>2, <4>2
    <3> QED
      BY <1>7, <3>1, <3>2
  <2>2. \A i, j \in DOMAIN wire' : wire'[i] = wire'[j] => i = j
    BY <1>1, <1>7 DEF WireFits
  <2> QED
    BY <1>8, <2>1, <2>2 DEF WireFits
<1>10. ASSUME Known PROVE Known'
  <2>1. LoadsFit' /\ SocketFits' /\ socket' = socket /\ socket.user # NoUser
    BY <1>1, <1>2, <1>10, LoadsCrossed DEF Known, SameSession, SocketFits
  <2>2. CASE missed' = Both
    BY <2>1, <2>2, AllMissed
  <2>3. CASE UNCHANGED missed /\ ((UNCHANGED wire /\ nt[n].owner # socket.user) \/ wire' = Append(wire, n))
    <3>1. \A x \in Notes : (\E i \in DOMAIN wire' : wire'[i] = x) <=>
                           (\E i \in DOMAIN wire : wire[i] = x) \/ (wire' = Append(wire, n) /\ x = n)
      BY <1>5, <2>3
    <3>2. Own(socket.user)' = Own(socket.user)
      BY <1>2, <1>4 DEF Own
    <3>3. Pending(socket.user)' = Pending(socket.user)
      <4>1. \A x \in Own(socket.user) :
              (~nt'[x].pushed \/ \E i \in DOMAIN wire' : wire'[i] = x) <=>
              (~nt[x].pushed \/ \E i \in DOMAIN wire : wire[i] = x)
        BY <1>2, <1>4, <2>3, <3>1 DEF Own
      <4> QED
        BY <3>2, <4>1 DEF Pending
    <3>4. SameView
      BY <1>4, <2>1, <3>2, <3>3 DEF SameView, Seen, Made
    <3> QED
      BY <1>1, <1>2, <1>10, <2>1, <2>3, <3>4, ViewKept DEF Known, SameSession
  <2> QED
    BY <1>3, <2>2, <2>3
<1> QED
  BY <1>2, <1>6, <1>9, <1>10, BellStep

\* What is lost on the way: the push that a stopped server owed, and an answer.
LEMMA LosePushBell ==
    ASSUME BellInv, NEW n \in Notes, LosePush(n)
    PROVE  BellInv'
<1>1. BellTypes /\ WireFits
  BY DEF BellInv
<1>2. /\ nt[n].owner # NoUser /\ ~nt[n].pushed /\ nt' = [nt EXCEPT ![n].pushed = TRUE]
      /\ loads' = Crossed(loads) /\ missed' = Both /\ UNCHANGED <<wire, socket, mark, cl>> /\ SameSession
  BY DEF LosePush, SameSession
<1>3. /\ nt' \in [Notes -> [owner : Users \cup {NoUser}, read : BOOLEAN, pushed : BOOLEAN]]
      /\ \A x \in Notes : /\ nt'[x].owner = nt[x].owner /\ nt'[x].read = nt[x].read
                          /\ nt'[x].pushed = (nt[x].pushed \/ x = n)
      /\ Made' = Made /\ IsFiniteSet(Made')
  BY <1>1, <1>2, PushedOnly
<1>4. BellTypes'
  BY <1>1, <1>2, <1>3, TypesKept DEF BellTypes
<1>5. \A i \in DOMAIN wire : wire[i] \in Notes
  BY <1>1 DEF BellTypes
<1>6. WireFits'
  BY <1>1, <1>2, <1>3, <1>5 DEF WireFits, SameSession
<1>7. ASSUME Known PROVE Known'
  BY <1>1, <1>2, <1>7, LoadsCrossed, AllMissed DEF Known, SameSession, SocketFits
<1> QED
  BY <1>2, <1>4, <1>6, <1>7, BellStep

LEMMA LoseMarkBell ==
    ASSUME BellInv, LoseMark
    PROVE  BellInv'
<1>1. BellTypes /\ WireFits
  BY DEF BellInv
<1>2. /\ mark' = NoMark /\ missed' = Both /\ loads' = Crossed(loads)
      /\ UNCHANGED <<nt, wire, socket, cl>> /\ SameSession
  BY DEF LoseMark, SameSession
<1>3. Made' = Made
  BY <1>2 DEF Made
<1>4. BellTypes'
  BY <1>1, <1>2, <1>3, TypesKept DEF BellTypes, NoMark
<1>5. WireFits'
  BY <1>1, <1>2 DEF WireFits, SameSession
<1>6. ASSUME Known PROVE Known'
  BY <1>1, <1>2, <1>6, LoadsCrossed, AllMissed DEF Known, SameSession, SocketFits
<1> QED
  BY <1>2, <1>4, <1>5, <1>6, BellStep

\* The socket goes with what is on it, and comes back.
LEMMA DropSocketBell ==
    ASSUME BellInv, DropSocket
    PROVE  BellInv'
<1>1. BellTypes /\ WireFits
  BY DEF BellInv
<1>2. /\ socket.up /\ socket' = [socket EXCEPT !.up = FALSE] /\ wire' = <<>>
      /\ UNCHANGED <<nt, mark, cl>> /\ SameSession
      /\ \/ wire = <<>> /\ UNCHANGED <<missed, loads>>
         \/ missed' = Both /\ loads' = Crossed(loads)
  BY DEF DropSocket, SameSession
<1>3. socket' \in [up : BOOLEAN, user : Users \cup {NoUser}, era : Nat, refused : BOOLEAN] /\ socket'.user = socket.user
  BY <1>1, <1>2 DEF BellTypes
<1>4. Made' = Made
  BY <1>2 DEF Made
<1>5. BellTypes'
  BY <1>1, <1>2, <1>3, <1>4, TypesKept DEF BellTypes
<1>6. WireFits'
  BY <1>1, <1>2, <1>3 DEF WireFits, SameSession, On
<1>7. ASSUME Known PROVE Known'
  <2>1. SocketFits'
    BY <1>2, <1>3, <1>7 DEF Known, SocketFits, SameSession
  <2>2. CASE wire = <<>> /\ UNCHANGED <<missed, loads>>
    <3>1. LoadsFit'
      BY <1>2, <1>3, <1>7, <2>2, LoadsStay DEF Known, SameSession
    <3>2. SameView
      <4>1. wire' = wire
        BY <1>2, <2>2
      <4> QED
        BY <1>2, <1>3, <4>1 DEF SameView, Seen, Own, Pending, Made
    <3> QED
      BY <1>1, <1>2, <1>7, <2>1, <2>2, <3>1, <3>2, ViewKept DEF Known, SameSession
  <2>3. CASE missed' = Both /\ loads' = Crossed(loads)
    BY <1>1, <1>2, <1>3, <1>7, <2>1, <2>3, LoadsCrossed, AllMissed DEF Known, SameSession
  <2> QED
    BY <1>2, <2>2, <2>3
<1> QED
  BY <1>2, <1>5, <1>6, <1>7, BellStep

LEMMA ConnectBell ==
    ASSUME BellInv, Connect
    PROVE  BellInv'
<1>1. BellTypes /\ WireFits
  BY DEF BellInv
<1>2. /\ socket' = [socket EXCEPT !.up = TRUE] \/ socket' = [socket EXCEPT !.refused = TRUE]
      /\ UNCHANGED <<nt, wire, loads, mark, cl, missed>> /\ SameSession
  BY DEF Connect, sesVars, SameSession
<1>3. socket' \in [up : BOOLEAN, user : Users \cup {NoUser}, era : Nat, refused : BOOLEAN] /\ socket'.user = socket.user
  BY <1>1, <1>2 DEF BellTypes
<1>4. Made' = Made
  BY <1>2 DEF Made
<1>5. BellTypes'
  BY <1>1, <1>2, <1>3, <1>4, TypesKept DEF BellTypes
<1>6. WireFits'
  BY <1>1, <1>2, <1>3 DEF WireFits, SameSession, On
<1>7. ASSUME Known PROVE Known'
  <2>1. SocketFits'
    BY <1>2, <1>3, <1>7 DEF Known, SocketFits, SameSession
  <2>2. LoadsFit'
    BY <1>2, <1>3, <1>7, LoadsStay DEF Known, SameSession
  <2>3. SameView
    BY <1>2, <1>3 DEF SameView, Seen, Own, Pending, Made
  <2> QED
    BY <1>1, <1>2, <1>7, <2>1, <2>2, <2>3, ViewKept DEF Known, SameSession
<1> QED
  BY <1>2, <1>5, <1>6, <1>7, BellStep

\* The entry of a new notification goes before those that are there.
LEMMA EntryAdded ==
    ASSUME NEW list \in Seq(Entries), NEW e \in Entries, NEW more, more = <<e>> \o list
    PROVE  /\ more \in Seq(Entries) /\ Len(more) = Len(list) + 1 /\ more[1] = e /\ 1 \in DOMAIN more
           /\ \A j \in DOMAIN list : j + 1 \in DOMAIN more /\ more[j + 1] = list[j]
           /\ \A k \in DOMAIN more : more[k] = e \/ \E j \in DOMAIN list : more[k] = list[j]
<1>1. more \in Seq(Entries) /\ Len(more) = Len(list) + 1 /\ more[1] = e
  OBVIOUS
<1>2. 1 \in DOMAIN more
  BY <1>1
<1>3. \A j \in DOMAIN list : j + 1 \in DOMAIN more /\ more[j + 1] = list[j]
  OBVIOUS
<1>4. \A k \in DOMAIN more : k = 1 \/ (k - 1 \in DOMAIN list /\ more[k] = list[k - 1])
  OBVIOUS
<1> QED
  BY <1>1, <1>2, <1>3, <1>4

LEMMA OneMore ==
    ASSUME NEW S, IsFiniteSet(S), Cardinality(S) \in Nat, NEW list \in Seq(Entries), Shows(list, S),
           NEW e \in Entries, e.id \notin S, NEW more, more = <<e>> \o list
    PROVE  Shows(more, S \cup {e.id})
<1>1. /\ Len(more) = Len(list) + 1 /\ more[1] = e /\ 1 \in DOMAIN more
      /\ \A j \in DOMAIN list : j + 1 \in DOMAIN more /\ more[j + 1] = list[j]
      /\ \A k \in DOMAIN more : more[k] = e \/ \E j \in DOMAIN list : more[k] = list[j]
  BY EntryAdded
<1>2. Cardinality(S \cup {e.id}) = Cardinality(S) + 1
  BY FS_AddElement
<1>3. \A k \in DOMAIN more : more[k].id \in S \cup {e.id}
  BY <1>1 DEF Shows
<1>4. \A n \in S \cup {e.id} : \E k \in DOMAIN more : more[k].id = n
  <2>1. ASSUME NEW n \in S PROVE \E k \in DOMAIN more : more[k].id = n
    <3>1. PICK j \in DOMAIN list : list[j].id = n
      BY DEF Shows
    <3> QED
      BY <1>1, <3>1
  <2> QED
    BY <1>1, <2>1
<1> QED
  BY <1>1, <1>2, <1>3, <1>4 DEF Shows

\* What the head of the socket's queue is to the client.
LEMMA HeadIsPending ==
    ASSUME BellTypes, WireFits, wire # <<>>, wire' = Tail(wire), UNCHANGED <<nt, socket>>
    PROVE  /\ Head(wire) \in Notes /\ wire' \in Seq(Notes)
           /\ Head(wire) \in Made /\ Head(wire) \in Pending(socket.user) /\ Head(wire) \notin Seen(socket.user)
           /\ \A i \in DOMAIN wire' : i + 1 \in DOMAIN wire /\ wire'[i] = wire[i + 1]
           /\ \A i, j \in DOMAIN wire' : wire'[i] = wire'[j] => i = j
           /\ Own(socket.user)' = Own(socket.user)
           /\ Pending(socket.user)' = Pending(socket.user) \ {Head(wire)}
           /\ Seen(socket.user)' = Seen(socket.user) \cup {Head(wire)}
<1> DEFINE h == Head(wire)
           u == socket.user
<1>1. wire \in Seq(Notes) /\ h \in Notes /\ 1 \in DOMAIN wire /\ wire[1] = h
  BY DEF BellTypes
<1>2. /\ wire' \in Seq(Notes)
      /\ \A i \in DOMAIN wire' : i \in Nat /\ i + 1 \in DOMAIN wire /\ wire'[i] = wire[i + 1] /\ i + 1 # 1
  BY <1>1
<1>3. \A i \in DOMAIN wire : i # 1 => i - 1 \in DOMAIN wire' /\ wire'[i - 1] = wire[i]
  BY <1>1
<1>4. u # NoUser /\ nt[h].owner = u /\ nt[h].pushed
  BY <1>1 DEF WireFits
<1>5. h \in Made /\ h \in Own(u) /\ h \in Pending(u) /\ h \notin Seen(u)
  BY <1>1, <1>4 DEF Made, Own, Pending, Seen
<1>6. \A i, j \in DOMAIN wire' : wire'[i] = wire'[j] => i = j
  <2> SUFFICES ASSUME NEW i \in DOMAIN wire', NEW j \in DOMAIN wire', wire'[i] = wire'[j] PROVE i = j
    OBVIOUS
  <2>1. i + 1 = j + 1
    BY <1>2 DEF WireFits
  <2> QED
    BY <1>2, <2>1
<1>7. Own(u)' = Own(u) /\ socket'.user = u
  BY DEF Own
<1>8. \A x \in Notes : (\E i \in DOMAIN wire' : wire'[i] = x) <=> ((\E i \in DOMAIN wire : wire[i] = x) /\ x # h)
  <2>1. \A i \in DOMAIN wire : wire[i] = h => i = 1
    BY <1>1 DEF WireFits
  <2>2. ASSUME NEW i \in DOMAIN wire' PROVE (\E j \in DOMAIN wire : wire[j] = wire'[i]) /\ wire'[i] # h
    BY <1>2, <2>1
  <2>3. ASSUME NEW i \in DOMAIN wire, wire[i] # h PROVE \E j \in DOMAIN wire' : wire'[j] = wire[i]
    BY <1>1, <1>3, <2>3
  <2> QED
    BY <2>2, <2>3
<1>9. Pending(u)' = Pending(u) \ {h}
  <2>1. \A x \in Own(u) : (~nt[x].pushed \/ \E i \in DOMAIN wire' : wire'[i] = x) <=>
                          ((~nt[x].pushed \/ \E i \in DOMAIN wire : wire[i] = x) /\ x # h)
    BY <1>4, <1>8 DEF Own
  <2> QED
    BY <1>7, <2>1 DEF Pending
<1>10. Seen(u)' = Seen(u) \cup {h}
  BY <1>5, <1>7, <1>9 DEF Seen
<1> QED
  BY <1>1, <1>2, <1>5, <1>6, <1>7, <1>9, <1>10

LEMMA ReceiveBell ==
    ASSUME BellInv, Receive
    PROVE  BellInv'
<1> DEFINE h == Head(wire)
           u == socket.user
           new == [id |-> h, read |-> FALSE]
<1>1. BellTypes /\ WireFits
  BY DEF BellInv
<1>2. /\ wire # <<>> /\ wire' = Tail(wire) /\ cl' = Counted(h) /\ loads' = Crossed(loads)
      /\ missed' = IF mark.pc = "ok" THEN Both ELSE missed
      /\ UNCHANGED <<nt, socket, mark>> /\ SameSession
  BY DEF Receive, sesVars, SameSession
<1>3. /\ h \in Notes /\ wire' \in Seq(Notes)
      /\ h \in Made /\ h \in Pending(u) /\ h \notin Seen(u)
      /\ \A i \in DOMAIN wire' : i + 1 \in DOMAIN wire /\ wire'[i] = wire[i + 1]
      /\ \A i, j \in DOMAIN wire' : wire'[i] = wire'[j] => i = j
      /\ Own(u)' = Own(u) /\ Pending(u)' = Pending(u) \ {h} /\ Seen(u)' = Seen(u) \cup {h}
  BY <1>1, <1>2, HeadIsPending
<1>4. /\ cl'.count = cl.count + 1 /\ cl'.list = <<new>> \o cl.list
      /\ cl.count \in Nat /\ cl.list \in Seq(Entries) /\ new \in Entries
      /\ \A k \in DOMAIN cl.list : cl.list[k].id \in Made
  BY <1>1, <1>2, <1>3 DEF Counted, BellTypes, Entries
<1>5. new.id = h /\ new.read = FALSE
  OBVIOUS
<1>6. /\ cl'.list \in Seq(Entries)
       /\ \A k \in DOMAIN cl'.list : cl'.list[k] = new \/ \E j \in DOMAIN cl.list : cl'.list[k] = cl.list[j]
  <2> HIDE DEF new
  <2> QED
    BY <1>4, EntryAdded
<1>7. Made' = Made
  BY <1>2 DEF Made
<1>8. BellTypes'
  <2>1. cl'.list \in Seq(Entries) /\ cl.count + 1 \in Nat
    BY <1>4, <1>6
  <2>2. cl' \in [count : Nat, list : Seq(Entries)]
    BY <1>2, <1>4, <2>1 DEF Counted
  <2>4. \A k \in DOMAIN cl'.list : cl'.list[k].id \in Made'
    BY <1>3, <1>4, <1>7, <1>5, <1>6
  <2>5. missed' \subseteq Both
    BY <1>1, <1>2 DEF BellTypes
  <2> QED
    BY <1>1, <1>2, <1>3, <1>7, <2>2, <2>4, <2>5, TypesKept DEF BellTypes
<1>9. WireFits'
  BY <1>1, <1>2, <1>3 DEF WireFits, SameSession, On
<1>10. ASSUME Known PROVE Known'
  <2>1. LoadsFit' /\ SocketFits' /\ u # NoUser
    BY <1>1, <1>2, <1>10, LoadsCrossed DEF Known, SameSession, SocketFits
  <2>2. CASE mark.pc = "ok"
    BY <1>2, <2>1, <2>2, AllMissed
  <2>3. CASE mark.pc # "ok"
    <3>1. missed' = missed /\ mark' = mark /\ nt' = nt /\ socket' = socket /\ ctx' = ctx
      BY <1>2, <2>3 DEF SameSession
    <3>2. missed # Both => ~nt[h].read
      BY <1>3, <1>10 DEF Known, MarkFits
    <3>3. MarkFits'
      BY <1>3, <1>10, <2>3, <3>1 DEF Known, MarkFits
    <3>4. CountFits'
      <4> SUFFICES ASSUME "count" \notin missed PROVE CountFits'
        BY <3>1 DEF CountFits
      <4>1. ~nt[h].read
        BY <3>2 DEF Both
      <4>2. UnreadSeen(u)' = UnreadSeen(u) \cup {h} /\ h \notin UnreadSeen(u)
        BY <1>3, <3>1, <4>1 DEF UnreadSeen
      <4>3. Cardinality(UnreadSeen(u)') = Cardinality(UnreadSeen(u)) + 1
        BY <1>1, <2>1, <4>2, PartsAreFinite, FS_AddElement
      <4>4. cl'.count = Cardinality(UnreadSeen(socket.user)')
        BY <1>4, <1>10, <2>3, <4>3 DEF Known, CountFits
      <4>5. ASSUME mark.pc = "sent", ~All(mark.what)
            PROVE  \E n \in Made' : /\ mark.what = {n} /\ ~nt[n].read
                                    /\ n \in Own(socket.user)' => n \in Seen(socket.user)'
        BY <1>3, <1>7, <1>10, <4>5 DEF Known, CountFits
      <4> QED
        BY <2>3, <3>1, <4>4, <4>5 DEF CountFits, All
    <3>5. ListFits'
      <4> SUFFICES ASSUME "list" \notin missed PROVE ListFits'
        BY <3>1 DEF ListFits
      <4>1. ~nt[h].read
        BY <3>2 DEF Both
      <4>2. PICK U \in SUBSET Seen(u) : LeavesOut(U, Seen(u), Own(u)) /\ Shows(cl.list, Seen(u) \ U)
        BY <1>10 DEF Known, ListFits, ShowsPage
      <4> DEFINE V == Seen(u) \ U
      <4>3. ShowsPage(cl'.list, Seen(u) \cup {h}, Own(u))
        <5>1. new.id = h /\ new.id \notin V
          BY <1>3
        <5>2. IsFiniteSet(Seen(u)) /\ IsFiniteSet(V) /\ Cardinality(V) \in Nat
          BY <1>1, <2>1, PartsAreFinite, FS_Subset, FS_CardinalityType
        <5>3. Shows(cl.list, V)
          BY <4>2
        <5> HIDE DEF V, new
        <5>4. Shows(cl'.list, V \cup {new.id})
          BY <1>4, <5>1, <5>2, <5>3, OneMore
        <5>5. V \cup {h} = (Seen(u) \cup {h}) \ U /\ U \in SUBSET (Seen(u) \cup {h})
          BY <1>3, <4>2 DEF V
        <5>6. Cardinality(V \cup {h}) = Cardinality(V) + 1
          BY <5>1, <5>2, FS_AddElement
        <5>7. U # {} => PageSize <= Cardinality(V \cup {h})
          BY <4>2, <5>2, <5>6, PageSizeAssumption DEF LeavesOut, V
        <5>8. LeavesOut(U, Seen(u) \cup {h}, Own(u))
          BY <4>2, <5>5, <5>7 DEF LeavesOut
        <5> QED
          BY <5>1, <5>4, <5>5, <5>8 DEF ShowsPage
      <4>4. \A j \in DOMAIN cl.list : cl.list[j].read = nt[cl.list[j].id].read
        BY <1>10, <2>3 DEF Known, ListFits
      <4>5. new.id = h /\ new.read = FALSE /\ nt[h].read \in BOOLEAN
        BY <1>1, <1>3 DEF BellTypes
      <4>6. \A k \in DOMAIN cl'.list : cl'.list[k].read = nt[cl'.list[k].id].read
        BY <1>6, <4>1, <4>4, <4>5
      <4>7. ctx'.profile = socket'.user /\ ShowsPage(cl'.list, Seen(socket.user)', Own(socket.user)')
        BY <1>3, <1>10, <3>1, <4>3 DEF Known, ListFits
      <4> QED
        BY <3>1, <4>6, <4>7 DEF ListFits
    <3> QED
      BY <2>1, <3>3, <3>4, <3>5 DEF Known
  <2> QED
    BY <2>2, <2>3
<1> QED
  BY <1>2, <1>8, <1>9, <1>10, BellStep

\* What the table is to the client stays while nobody touches it.
LEMMA TableStays ==
    ASSUME UNCHANGED <<nt, wire>>, socket'.user = socket.user
    PROVE  /\ Pending(socket.user)' = Pending(socket.user) /\ Own(socket.user)' = Own(socket.user)
           /\ Unread(socket.user)' = Unread(socket.user) /\ Seen(socket.user)' = Seen(socket.user)
           /\ UnreadSeen(socket.user)' = UnreadSeen(socket.user) /\ Made' = Made
BY DEF Pending, Own, Unread, Seen, UnreadSeen, Made

\* The notes that a page of the newest leaves out.
LEMMA GreatestNote ==
    ASSUME NEW S \in SUBSET Nat, IsFiniteSet(S), S # {}
    PROVE  \E x \in S : \A y \in S : y <= x
<1> DEFINE above(n) == {k \in S : k > n}
           C == {Cardinality(above(n)) : n \in S}
<1>1. \A n \in S : above(n) \in SUBSET S /\ IsFiniteSet(above(n)) /\ Cardinality(above(n)) \in Nat
  BY FS_Subset, FS_CardinalityType
<1>2. C \in SUBSET Nat /\ C # {}
  BY <1>1
<1>3. PICK c \in C : \A d \in C : c <= d
  BY <1>2, LeastNote
<1>4. PICK x \in S : Cardinality(above(x)) = c
  BY <1>3
<1>5. ASSUME NEW y \in S PROVE y <= x
  <2> SUFFICES ASSUME y > x PROVE FALSE
    OBVIOUS
  <2>1. above(y) \in SUBSET above(x) /\ y \in above(x) /\ y \notin above(y)
    <3>1. x \in Nat /\ y \in Nat /\ \A z \in S : z \in Nat
      OBVIOUS
    <3>2. \A z \in S : z > y => z > x
      BY <3>1
    <3>3. y > x /\ ~(y > y)
      BY <3>1
    <3> QED
      BY <3>2, <3>3
  <2>2. Cardinality(above(y)) <= Cardinality(above(x)) /\ Cardinality(above(y)) # Cardinality(above(x))
    <3> HIDE DEF above
    <3> QED
      BY <1>1, <2>1, FS_Subset
  <2>3. c <= Cardinality(above(y))
    BY <1>3
  <2> HIDE DEF above
  <2> QED
    BY <1>1, <1>4, <2>2, <2>3
<1> QED
  BY <1>5

LEMMA NewestCovers ==
    ASSUME NEW S \in SUBSET Nat, IsFiniteSet(S)
    PROVE  LeavesOut(S \ Newest(S), S, S) /\ S \ (S \ Newest(S)) = Newest(S)
<1> DEFINE above(n) == {k \in S : k > n}
           U == S \ Newest(S)
<1>1. \A n \in S : above(n) \in SUBSET S /\ IsFiniteSet(above(n)) /\ Cardinality(above(n)) \in Nat
  BY FS_Subset, FS_CardinalityType
<1>2. /\ Newest(S) \in SUBSET S /\ IsFiniteSet(Newest(S)) /\ Cardinality(Newest(S)) \in Nat
      /\ U \in SUBSET S /\ IsFiniteSet(U) /\ S \ U = Newest(S)
  <2>1. Newest(S) \in SUBSET S /\ U \in SUBSET S /\ S \ U = Newest(S)
    BY DEF Newest
  <2> HIDE DEF U
  <2> QED
    BY <2>1, FS_Subset, FS_CardinalityType
<1>3. \A n \in U : PageSize <= Cardinality(above(n))
  <2>1. \A n \in U : ~(Cardinality(above(n)) < PageSize)
    BY DEF Newest
  <2> HIDE DEF above
  <2> QED
    BY <1>1, <1>2, <2>1, PageSizeAssumption
<1>4. \A k \in Newest(S) : Cardinality(above(k)) < PageSize
  BY DEF Newest
<1>5. ASSUME NEW n \in U, NEW k \in S \ U PROVE n < k
  <2> SUFFICES ASSUME ~(n < k) PROVE FALSE
    OBVIOUS
  <2>1. n \in S /\ k \in S /\ k \in Newest(S) /\ n # k /\ n \in Nat /\ k \in Nat
    BY <1>2
  <2>2. above(n) \in SUBSET above(k)
    <3>1. \A z \in S : z \in Nat
      OBVIOUS
    <3>2. \A z \in S : z > n => z > k
      BY <2>1, <3>1
    <3> QED
      BY <3>2
  <2> HIDE DEF above
  <2>3. Cardinality(above(n)) <= Cardinality(above(k))
    BY <1>1, <2>1, <2>2, FS_Subset
  <2> QED
    BY <1>1, <1>3, <1>4, <2>1, <2>3, PageSizeAssumption
<1>6. ASSUME U # {} PROVE PageSize <= Cardinality(S \ U)
  <2>1. U \in SUBSET Nat
    BY <1>2
  <2>2. PICK n \in U : \A y \in U : y <= n
    BY <1>2, <1>6, <2>1, GreatestNote
  <2>3. n \in Nat /\ n \in S
    BY <2>1, <1>2
  <2>4. above(n) \in SUBSET Newest(S)
    <3> SUFFICES ASSUME NEW k \in above(n) PROVE k \in Newest(S)
      OBVIOUS
    <3>1. k \in S /\ k \in Nat /\ k > n
      OBVIOUS
    <3>2. k \notin U
      BY <2>2, <2>3, <3>1
    <3> QED
      BY <1>2, <3>1, <3>2
  <2> HIDE DEF above
  <2>5. Cardinality(above(n)) <= Cardinality(Newest(S))
    BY <1>2, <2>4, FS_Subset
  <2> QED
    BY <1>1, <1>2, <1>3, <2>3, <2>5, PageSizeAssumption
<1> QED
  BY <1>2, <1>5, <1>6 DEF LeavesOut

\* The backend answers a fetch with the rows of the token's owner, or not at all.
Answer(l, r) ==
    /\ r \in Load /\ r.token = l.token /\ r.what = l.what
    /\ r.pc = "ok" =>
         /\ l.token \in Tokens /\ l.token.scope = "full"
         /\ r.items = Listed(IF l.what = "count" THEN Unread(l.token.user) ELSE Newest(Own(l.token.user)))
         /\ ~r.crossed => mark.pc = "idle" /\ Pending(l.token.user) = {}
    /\ ~r.crossed => ~l.crossed
    /\ \A k \in DOMAIN r.items : r.items[k].id \in Made

LEMMA AnswerIsOfTheOwner ==
    ASSUME BellTypes, NEW i \in DOMAIN loads, ServeLoad(i)
    PROVE  Answer(loads[i], loads'[i])
<1> DEFINE l == loads[i]
           owner == l.token.user
           S == IF l.what = "count" THEN Unread(owner) ELSE Newest(Own(owner))
<1>1. l \in Load /\ \A k \in DOMAIN l.items : l.items[k].id \in Made
  BY DEF BellTypes
<1>2. CASE ~Admitted(l.token)
  <2>1. loads'[i] = [l EXCEPT !.pc = "no"]
    BY <1>2 DEF ServeLoad
  <2>2. /\ loads'[i] \in Load /\ loads'[i].pc = "no" /\ loads'[i].items = l.items
        /\ loads'[i].token = l.token /\ loads'[i].what = l.what /\ loads'[i].crossed = l.crossed
    BY <1>1, <2>1 DEF Load
  <2> QED
    BY <1>1, <2>2 DEF Answer
<1>3. CASE Admitted(l.token)
  <2>1. loads'[i] = [l EXCEPT !.pc = "ok", !.items = Listed(S),
                              !.crossed = @ \/ Pending(owner) # {} \/ mark.pc # "idle"]
    BY <1>3 DEF ServeLoad
  <2>2. l.token \in Tokens /\ l.token.scope = "full" /\ owner \in Users /\ owner # NoUser
    BY <1>1, <1>3, UsersAssumption DEF Admitted, Validated, Load, Tokens
  <2>3. S \in SUBSET Made
    BY <2>2, PartsAreFinite DEF BellTypes, Newest
  <2>4. Listed(S) \in Seq(Entries) /\ \A k \in DOMAIN Listed(S) : Listed(S)[k].id \in Made
    BY <2>3, ListedShows DEF Shows
  <2> HIDE DEF S, owner
  <2>5. /\ loads'[i].token = l.token /\ loads'[i].what = l.what /\ loads'[i].pc = "ok"
        /\ loads'[i].items = Listed(S)
        /\ loads'[i].crossed = (l.crossed \/ Pending(owner) # {} \/ mark.pc # "idle")
    BY <1>1, <2>1 DEF Load
  <2>6. loads'[i] \in Load
    BY <1>1, <2>1, <2>4 DEF Load
  <2> QED
    BY <2>2, <2>4, <2>5, <2>6 DEF Answer, S, owner
<1> QED
  BY <1>2, <1>3

LEMMA ServeLoadBell ==
    ASSUME BellInv, NEW i \in DOMAIN loads, ServeLoad(i)
    PROVE  BellInv'
<1> DEFINE l == loads[i]
           r == loads'[i]
           u == socket.user
<1>1. BellTypes /\ WireFits /\ loads \in Seq(Load) /\ l \in Load
  BY DEF BellInv, BellTypes
<1>2. UNCHANGED <<nt, wire, socket, mark, cl, missed>> /\ SameSession /\ Made' = Made
  BY DEF ServeLoad, sesVars, SameSession, Made
<1>3. /\ DOMAIN loads' = DOMAIN loads
      /\ \A j \in DOMAIN loads : j # i => loads'[j] = loads[j]
  BY DEF ServeLoad
<1>4. Answer(l, r)
  BY <1>1, AnswerIsOfTheOwner
<1>5. loads' \in Seq(Load)
  <2>1. \A j \in DOMAIN loads : loads[j] \in Load
    BY <1>1
  <2>2. \A j \in DOMAIN loads : loads'[j] \in Load
    BY <1>3, <1>4, <2>1 DEF Answer
  <2>3. \E x : loads' = [loads EXCEPT ![i] = x]
    BY DEF ServeLoad
  <2>4. DOMAIN loads = 1..Len(loads) /\ Len(loads) \in Nat
    BY <1>1
  <2>5. loads' = [j \in 1..Len(loads) |-> loads'[j]]
    BY <2>3, <2>4
  <2>6. loads' \in [1..Len(loads) -> Load]
    BY <2>2, <2>4, <2>5
  <2> QED
    BY <2>4, <2>6
<1>6. BellTypes'
  <2>1. \A j \in DOMAIN loads' : \A k \in DOMAIN loads'[j].items : loads'[j].items[k].id \in Made'
    BY <1>1, <1>2, <1>3, <1>4 DEF BellTypes, Answer
  <2> QED
    BY <1>1, <1>2, <1>5, <2>1 DEF BellTypes
<1>7. WireFits'
  BY <1>1, <1>2 DEF WireFits, SameSession
<1>8. ASSUME Known PROVE Known'
  <2>1. SocketFits' /\ u # NoUser
    BY <1>2, <1>8 DEF Known, SocketFits, SameSession
  <2>2. SameView
    BY <1>2, TableStays DEF SameView
  <2>3. MarkFits' /\ CountFits' /\ ListFits'
    BY <1>1, <1>2, <1>8, <2>2, ViewKept DEF SameSession
  <2>4. /\ Pending(u)' = Pending(u) /\ Own(u)' = Own(u) /\ Unread(u)' = Unread(u)
        /\ Pending(socket.user)' = Pending(u) /\ Own(socket.user)' = Own(u) /\ Unread(socket.user)' = Unread(u)
    BY <1>2, TableStays
  <2>5. ASSUME ~r.crossed PROVE LoadFits(loads[i])'
    <3>1. /\ ~l.crossed /\ r.token = l.token /\ r.what = l.what /\ l.token.user = u
          /\ l.token.scope = "full" => ctx.profile = u
      BY <1>4, <1>8, <2>5 DEF Answer, Known, LoadsFit, LoadFits
    <3>2. CASE r.pc = "ok"
      <4>1. /\ l.token.scope = "full" /\ mark.pc = "idle" /\ Pending(u) = {}
            /\ r.items = Listed(IF l.what = "count" THEN Unread(u) ELSE Newest(Own(u)))
        BY <1>4, <2>5, <3>1, <3>2 DEF Answer
      <4>2. Unread(u) \in SUBSET Made /\ Own(u) \in SUBSET Made
        BY <1>1, <2>1, PartsAreFinite DEF BellTypes
      <4>3. ASSUME l.what = "count" PROVE Len(r.items) = Cardinality(Unread(u))
        BY <1>1, <4>1, <4>2, <4>3, ListedShows DEF Shows
      <4>4. ASSUME l.what = "list"
            PROVE  /\ ShowsPage(r.items, Own(u), Own(u))
                   /\ \A k \in DOMAIN r.items : r.items[k].read = nt[r.items[k].id].read
        <5>1. r.items = Listed(Newest(Own(u)))
          BY <4>1, <4>4
        <5>2. Own(u) \in SUBSET Nat /\ IsFiniteSet(Own(u))
          BY <1>1, <4>2, NotesAssumption, FS_Subset DEF BellTypes, Made
        <5>3. /\ LeavesOut(Own(u) \ Newest(Own(u)), Own(u), Own(u))
              /\ Own(u) \ (Own(u) \ Newest(Own(u))) = Newest(Own(u))
          BY <5>2, NewestCovers
        <5>4. Newest(Own(u)) \in SUBSET Made
          BY <4>2, <5>3
        <5>5. /\ Shows(r.items, Newest(Own(u)))
              /\ \A k \in DOMAIN r.items : r.items[k].read = nt[r.items[k].id].read
          BY <1>1, <5>1, <5>4, ListedShows
        <5>6. Own(u) \ Newest(Own(u)) \in SUBSET Own(u)
          OBVIOUS
        <5> QED
          BY <5>3, <5>5, <5>6 DEF ShowsPage
      <4> QED
        BY <1>2, <2>4, <3>1, <4>1, <4>3, <4>4 DEF LoadFits, SameSession
    <3>3. CASE r.pc # "ok"
      BY <1>2, <3>1, <3>3 DEF LoadFits, SameSession
    <3> QED
      BY <3>2, <3>3
  <2>6. ASSUME NEW j \in DOMAIN loads, j # i, ~loads'[j].crossed PROVE LoadFits(loads[j])'
    <3>1. LoadFits(loads[j]) /\ loads'[j] = loads[j]
      BY <1>3, <1>8, <2>6 DEF Known, LoadsFit
    <3> QED
      BY <1>2, <2>4, <3>1 DEF LoadFits, SameSession
  <2>7. LoadsFit'
    BY <1>3, <2>5, <2>6 DEF LoadsFit
  <2> QED
    BY <2>1, <2>3, <2>7 DEF Known
<1> QED
  BY <1>2, <1>6, <1>7, <1>8, BellStep

\* Without one of them the other fetches are as they were.
LEMMA WithoutOne ==
    ASSUME NEW S, NEW f \in Seq(S), NEW i \in DOMAIN f
    PROVE  /\ Without(f, i) \in Seq(S)
           /\ \A k \in DOMAIN Without(f, i) : \E j \in DOMAIN f : Without(f, i)[k] = f[j]
<1> DEFINE a == SubSeq(f, 1, i - 1)
           b == SubSeq(f, i + 1, Len(f))
<1>1. i \in 1..Len(f) /\ Len(f) \in Nat
  OBVIOUS
<1>2. a \in Seq(S) /\ Len(a) = i - 1 /\ \A k \in 1..(i - 1) : a[k] = f[k]
  BY <1>1
<1>3. b \in Seq(S) /\ Len(b) = Len(f) - i /\ \A k \in 1..(Len(f) - i) : b[k] = f[i + k]
  BY <1>1
<1>4. \A k \in DOMAIN a : k \in DOMAIN f /\ a[k] = f[k]
  BY <1>1, <1>2
<1>5. \A k \in DOMAIN b : i + k \in DOMAIN f /\ b[k] = f[i + k]
  BY <1>1, <1>3
<1> HIDE DEF a, b
<1>6. \A k \in DOMAIN (a \o b) : \/ k \in DOMAIN a /\ (a \o b)[k] = a[k]
                                 \/ k - Len(a) \in DOMAIN b /\ (a \o b)[k] = b[k - Len(a)]
  BY <1>2, <1>3
<1>7. a \o b \in Seq(S)
  BY <1>2, <1>3
<1>8. \A k \in DOMAIN (a \o b) : \E j \in DOMAIN f : (a \o b)[k] = f[j]
  BY <1>4, <1>5, <1>6
<1> QED
  BY <1>7, <1>8 DEF Without, a, b

LEMMA AnswerLoadBell ==
    ASSUME BellInv, NEW i \in DOMAIN loads, AnswerLoad(i)
    PROVE  BellInv'
<1> DEFINE l == loads[i]
           u == socket.user
<1>1. /\ BellTypes /\ WireFits /\ loads \in Seq(Load) /\ l \in Load
      /\ cl.count \in Nat /\ cl.list \in Seq(Entries)
      /\ \A k \in DOMAIN l.items : l.items[k].id \in Made
  BY DEF BellInv, BellTypes
<1>2. UNCHANGED <<nt, wire, socket, mark>> /\ SameSession /\ Made' = Made
  BY DEF AnswerLoad, sesVars, SameSession, Made
<1>3. loads' \in Seq(Load) /\ \A k \in DOMAIN loads' : \E j \in DOMAIN loads : loads'[k] = loads[j]
  BY <1>1, WithoutOne DEF AnswerLoad
<1>4. l.pc \in {"ok", "no"} /\ l.what \in Both /\ l.items \in Seq(Entries) /\ l.crossed \in BOOLEAN
  BY <1>1 DEF AnswerLoad, Load
<1>5. missed' = IF l.pc = "ok" /\ ~l.crossed THEN missed \ {l.what} ELSE missed \cup {l.what}
  BY DEF AnswerLoad
<1>6. cl' = CASE l.pc = "ok" /\ l.what = "count" -> [cl EXCEPT !.count = Len(l.items)]
              [] l.pc = "ok" /\ l.what = "list"  -> [cl EXCEPT !.list = l.items]
              [] OTHER                           -> cl
  BY DEF AnswerLoad
<1>7. /\ cl' \in [count : Nat, list : Seq(Entries)]
      /\ l.pc = "no" => cl' = cl
      /\ l.what # "count" => cl'.count = cl.count
      /\ l.what # "list" => cl'.list = cl.list
      /\ l.pc = "ok" /\ l.what = "count" => cl'.count = Len(l.items)
      /\ l.pc = "ok" /\ l.what = "list" => cl'.list = l.items
  <2>1. cl \in [count : Nat, list : Seq(Entries)] /\ Len(l.items) \in Nat
    BY <1>1, <1>4 DEF BellTypes
  <2>2. CASE l.pc = "no"
    <3>1. cl' = cl
      BY <1>6, <2>2
    <3> QED
      BY <2>1, <2>2, <3>1
  <2>3. CASE l.pc = "ok" /\ l.what = "count"
    <3>1. cl' = [cl EXCEPT !.count = Len(l.items)]
      BY <1>6, <2>3
    <3> QED
      BY <2>1, <2>3, <3>1
  <2>4. CASE l.pc = "ok" /\ l.what = "list"
    <3>1. cl' = [cl EXCEPT !.list = l.items]
      BY <1>6, <2>4
    <3> QED
      BY <1>4, <2>1, <2>4, <3>1
  <2> QED
    BY <1>4, <2>2, <2>3, <2>4 DEF Both
<1>8. BellTypes'
  <2>1. \A k \in DOMAIN cl'.list : cl'.list[k].id \in Made'
    BY <1>1, <1>2, <1>4, <1>7 DEF BellTypes, Both
  <2>2. \A j \in DOMAIN loads' : \A k \in DOMAIN loads'[j].items : loads'[j].items[k].id \in Made'
    BY <1>1, <1>2, <1>3 DEF BellTypes
  <2>3. missed' \subseteq Both
    BY <1>1, <1>4, <1>5 DEF BellTypes
  <2> QED
    BY <1>1, <1>2, <1>3, <1>7, <2>1, <2>2, <2>3 DEF BellTypes
<1>9. WireFits'
  BY <1>1, <1>2 DEF WireFits, SameSession
<1>10. ASSUME Known PROVE Known'
  <2>1. SocketFits' /\ u # NoUser /\ socket'.user = u /\ ctx'.profile = ctx.profile
    BY <1>2, <1>10 DEF Known, SocketFits, SameSession
  <2>2. /\ Pending(socket.user)' = Pending(u) /\ Own(socket.user)' = Own(u) /\ Unread(socket.user)' = Unread(u)
        /\ Seen(socket.user)' = Seen(u) /\ UnreadSeen(socket.user)' = UnreadSeen(u)
    BY <1>2, TableStays
  <2>3. LoadsFit'
    <3> SUFFICES ASSUME NEW k \in DOMAIN loads', ~loads'[k].crossed PROVE LoadFits(loads[k])'
      BY DEF LoadsFit
    <3>1. PICK j \in DOMAIN loads : loads'[k] = loads[j]
      BY <1>3
    <3>2. LoadFits(loads[j])
      BY <1>10, <3>1 DEF Known, LoadsFit
    <3> QED
      BY <1>2, <2>2, <3>1, <3>2 DEF LoadFits, SameSession
  <2>4. CASE ~(l.pc = "ok" /\ ~l.crossed)
    <3>1. missed' = missed \cup {l.what}
      BY <1>5, <2>4
    <3>2. MarkFits'
      <4>1. missed' # Both => missed # Both
        BY <1>1, <3>1, <1>4 DEF BellTypes
      <4> QED
        BY <1>2, <1>10, <2>2, <4>1 DEF Known, MarkFits
    <3>3. CountFits'
      <4> SUFFICES ASSUME "count" \notin missed' PROVE CountFits'
        BY DEF CountFits
      <4>1. "count" \notin missed /\ cl'.count = cl.count
        BY <1>7, <3>1
      <4> QED
        BY <1>2, <1>10, <2>2, <4>1 DEF Known, CountFits, All
    <3>4. ListFits'
      <4> SUFFICES ASSUME "list" \notin missed' PROVE ListFits'
        BY DEF ListFits
      <4>1. "list" \notin missed /\ cl'.list = cl.list
        BY <1>7, <3>1
      <4> QED
        BY <1>2, <1>10, <2>1, <2>2, <4>1 DEF Known, ListFits
    <3> QED
      BY <2>1, <2>3, <3>2, <3>3, <3>4 DEF Known
  <2>5. CASE l.pc = "ok" /\ ~l.crossed
    <3>1. missed' = missed \ {l.what}
      BY <1>5, <2>5
    <3>2. /\ mark.pc = "idle" /\ Pending(u) = {} /\ ctx.profile = u
          /\ l.what = "count" => Len(l.items) = Cardinality(Unread(u))
          /\ l.what = "list" =>
               /\ ShowsPage(l.items, Own(u), Own(u))
               /\ \A k \in DOMAIN l.items : l.items[k].read = nt[l.items[k].id].read
      BY <1>10, <2>5 DEF Known, LoadsFit, LoadFits
    <3>3. Seen(u) = Own(u) /\ UnreadSeen(u) = Unread(u)
      BY <3>2 DEF Seen, UnreadSeen, Unread
    <3>4. MarkFits'
      BY <1>2, <2>2, <3>2 DEF MarkFits
    <3>5. CountFits'
      <4> SUFFICES ASSUME "count" \notin missed' PROVE CountFits'
        BY DEF CountFits
      <4>1. cl'.count = Cardinality(UnreadSeen(u))
        <5>1. CASE l.what = "count"
          BY <1>7, <2>5, <3>2, <3>3, <5>1
        <5>2. CASE l.what # "count"
          BY <1>7, <1>10, <3>1, <3>2, <5>2 DEF Known, CountFits
        <5> QED
          BY <5>1, <5>2
      <4> QED
        BY <1>2, <2>2, <3>2, <4>1 DEF CountFits
    <3>6. ListFits'
      <4> SUFFICES ASSUME "list" \notin missed' PROVE ListFits'
        BY DEF ListFits
      <4>1. /\ ShowsPage(cl'.list, Seen(u), Own(u))
            /\ \A k \in DOMAIN cl'.list : cl'.list[k].read = nt[cl'.list[k].id].read
        <5>1. CASE l.what = "list"
          BY <1>7, <2>5, <3>2, <3>3, <5>1
        <5>2. CASE l.what # "list"
          BY <1>7, <1>10, <3>1, <3>2, <5>2 DEF Known, ListFits
        <5> QED
          BY <5>1, <5>2
      <4> QED
        BY <1>2, <2>1, <2>2, <3>2, <4>1 DEF ListFits
    <3> QED
      BY <2>1, <2>3, <3>4, <3>5, <3>6 DEF Known
  <2> QED
    BY <2>4, <2>5
<1> QED
  BY <1>2, <1>8, <1>9, <1>10, BellStep

\* A click on an entry, and on all of them.
LEMMA MarkAsReadBell ==
    ASSUME IInv, BellInv, NEW k \in DOMAIN cl.list, MarkAsRead(k)
    PROVE  BellInv'
<1> DEFINE n == cl.list[k].id
           u == socket.user
<1>1. BellTypes /\ WireFits /\ n \in Made /\ n \in Notes
  BY DEF BellInv, BellTypes, Made
<1>2. /\ mark.pc = "idle" /\ mark' = [pc |-> "sent", token |-> store, what |-> {n}]
      /\ missed' = (IF nt[n].read \/ n \in Pending(nt[n].owner) THEN missed \cup {"count"} ELSE missed)
      /\ loads' = Crossed(loads) /\ UNCHANGED <<nt, wire, socket, cl>> /\ SameSession
  BY DEF MarkAsRead, SameSession
<1>3. store \in Tokens \cup {NoToken} /\ Made' = Made
  BY <1>2 DEF IInv, SesTypeOK, Made
<1>4. BellTypes'
  <2>1. missed' \subseteq Both
    BY <1>1, <1>2 DEF BellTypes, Both
  <2> QED
    BY <1>1, <1>2, <1>3, <2>1, TypesKept DEF BellTypes
<1>5. WireFits'
  BY <1>1, <1>2 DEF WireFits, SameSession
<1>6. ASSUME Known PROVE Known'
  <2>1. /\ SocketFits' /\ LoadsFit' /\ u # NoUser /\ store.user = u
    BY <1>1, <1>2, <1>6, LoadsCrossed DEF Known, SocketFits, SameSession
  <2>2. /\ Pending(socket.user)' = Pending(u) /\ Own(socket.user)' = Own(u)
        /\ Seen(socket.user)' = Seen(u) /\ UnreadSeen(socket.user)' = UnreadSeen(u)
    BY <1>2, TableStays
  <2>3. mark'.pc = "sent" /\ mark'.token = store /\ mark'.what = {n}
    BY <1>2
  <2>4. MarkFits'
    <3>1. missed' # Both => missed # Both
      BY <1>1, <1>2 DEF BellTypes, Both
    <3> QED
      BY <1>2, <1>6, <2>1, <2>2, <2>3, <3>1 DEF Known, MarkFits
  <2>5. CountFits'
    <3> SUFFICES ASSUME "count" \notin missed' PROVE CountFits'
      BY DEF CountFits
    <3>1. "count" \notin missed /\ ~nt[n].read /\ n \notin Pending(nt[n].owner)
      BY <1>2
    <3>2. n \in Own(u) => n \in Seen(u)
      BY <3>1 DEF Own, Seen
    <3>3. cl.count = Cardinality(UnreadSeen(u))
      BY <1>2, <1>6, <3>1 DEF Known, CountFits
    <3> QED
      BY <1>1, <1>2, <1>3, <2>2, <2>3, <3>1, <3>2, <3>3 DEF CountFits
  <2>6. ListFits'
    <3> SUFFICES ASSUME "list" \notin missed' PROVE ListFits'
      BY DEF ListFits
    <3>1. "list" \notin missed
      BY <1>2
    <3> QED
      BY <1>2, <1>6, <2>2, <3>1 DEF Known, ListFits, SameSession
  <2> QED
    BY <2>1, <2>4, <2>5, <2>6 DEF Known
<1> QED
  BY <1>2, <1>4, <1>5, <1>6, BellStep

LEMMA MarkAllBell ==
    ASSUME IInv, BellInv, MarkAllAsRead
    PROVE  BellInv'
<1> DEFINE u == socket.user
<1>1. BellTypes /\ WireFits
  BY DEF BellInv
<1>2. /\ mark.pc = "idle" /\ mark' = [pc |-> "sent", token |-> store, what |-> Notes]
      /\ loads' = Crossed(loads) /\ UNCHANGED <<nt, wire, socket, cl, missed>> /\ SameSession
  BY DEF MarkAllAsRead, SameSession
<1>3. store \in Tokens \cup {NoToken} /\ Made' = Made
  BY <1>2 DEF IInv, SesTypeOK, Made
<1>4. BellTypes'
  BY <1>1, <1>2, <1>3, TypesKept DEF BellTypes
<1>5. WireFits'
  BY <1>1, <1>2 DEF WireFits, SameSession
<1>6. ASSUME Known PROVE Known'
  <2>1. /\ SocketFits' /\ LoadsFit' /\ u # NoUser /\ store.user = u
    BY <1>1, <1>2, <1>6, LoadsCrossed DEF Known, SocketFits, SameSession
  <2>2. /\ Pending(socket.user)' = Pending(u) /\ Own(socket.user)' = Own(u)
        /\ Seen(socket.user)' = Seen(u) /\ UnreadSeen(socket.user)' = UnreadSeen(u)
    BY <1>2, TableStays
  <2>3. mark'.pc = "sent" /\ mark'.token = store /\ All(mark.what)'
    BY <1>2 DEF All
  <2>4. MarkFits'
    BY <1>2, <1>6, <2>1, <2>2, <2>3 DEF Known, MarkFits
  <2>5. CountFits'
    BY <1>2, <1>6, <2>2, <2>3 DEF Known, CountFits
  <2>6. ListFits'
    BY <1>2, <1>6, <2>2 DEF Known, ListFits, SameSession
  <2> QED
    BY <2>1, <2>4, <2>5, <2>6 DEF Known
<1> QED
  BY <1>2, <1>4, <1>5, <1>6, BellStep

\* The backend marks, or refuses to.
LEMMA RefuseMarkBell ==
    ASSUME BellInv, mark.pc = "sent", mark' = [mark EXCEPT !.pc = "no"], loads' = Crossed(loads),
           UNCHANGED <<nt, wire, socket, cl, missed>>, SameSession
    PROVE  BellInv'
<1> DEFINE u == socket.user
<1>1. BellTypes /\ WireFits
  BY DEF BellInv
<1>2. /\ mark' \in [pc : {"idle", "sent", "ok", "no"}, token : Tokens \cup {NoToken}, what : SUBSET Notes]
      /\ mark'.pc = "no" /\ mark'.token = mark.token
  BY <1>1 DEF BellTypes
<1>3. Made' = Made
  BY DEF Made
<1>4. BellTypes'
  BY <1>1, <1>2, <1>3, TypesKept DEF BellTypes
<1>5. WireFits'
  BY <1>1 DEF WireFits, SameSession
<1>6. ASSUME Known PROVE Known'
  <2>1. SocketFits' /\ LoadsFit' /\ u # NoUser
    BY <1>1, <1>6, LoadsCrossed DEF Known, SocketFits, SameSession
  <2>2. /\ Pending(socket.user)' = Pending(u) /\ Own(socket.user)' = Own(u)
        /\ Seen(socket.user)' = Seen(u) /\ UnreadSeen(socket.user)' = UnreadSeen(u)
    BY TableStays
  <2>3. MarkFits'
    BY <1>2, <1>6, <2>2 DEF Known, MarkFits
  <2>4. CountFits'
    BY <1>2, <1>6, <2>2 DEF Known, CountFits
  <2>5. ListFits'
    BY <1>6, <2>2 DEF Known, ListFits, SameSession
  <2> QED
    BY <2>1, <2>3, <2>4, <2>5 DEF Known
<1> QED
  BY <1>4, <1>5, <1>6, BellStep

LEMMA AcceptMarkBell ==
    ASSUME BellInv, mark.pc = "sent", mark' = [mark EXCEPT !.pc = "ok"], loads' = Crossed(loads),
           NEW mine, mine = mark.what \cap Own(mark.token.user), All(mark.what) \/ mine # {},
           nt' = [n \in Notes |-> IF n \in mine THEN [nt[n] EXCEPT !.read = TRUE] ELSE nt[n]],
           missed' = IF Pending(mark.token.user) # {} THEN Both ELSE missed,
           UNCHANGED <<wire, socket, cl>>, SameSession
    PROVE  BellInv'
<1> DEFINE u == socket.user
<1>1. BellTypes /\ WireFits
  BY DEF BellInv
<1>2. /\ mark' \in [pc : {"idle", "sent", "ok", "no"}, token : Tokens \cup {NoToken}, what : SUBSET Notes]
      /\ mark'.pc = "ok" /\ mark'.token = mark.token /\ mark'.what = mark.what
  BY <1>1 DEF BellTypes
<1>3. nt \in [Notes -> [owner : Users \cup {NoUser}, read : BOOLEAN, pushed : BOOLEAN]]
  BY <1>1 DEF BellTypes
<1>4. /\ nt' \in [Notes -> [owner : Users \cup {NoUser}, read : BOOLEAN, pushed : BOOLEAN]]
      /\ \A n \in Notes : /\ nt'[n].owner = nt[n].owner /\ nt'[n].pushed = nt[n].pushed
                          /\ nt'[n].read = (nt[n].read \/ n \in mine)
  BY <1>3
<1>5. Made' = Made
  BY <1>4 DEF Made
<1>6. BellTypes'
  <2>1. missed' \subseteq Both
    BY <1>1 DEF BellTypes
  <2> QED
    BY <1>1, <1>2, <1>4, <1>5, <2>1, TypesKept DEF BellTypes
<1>7. WireFits'
  <2>1. \A i \in DOMAIN wire : wire[i] \in Notes
    BY <1>1 DEF BellTypes
  <2> QED
    BY <1>1, <1>4, <2>1 DEF WireFits, SameSession
<1>8. ASSUME Known PROVE Known'
  <2>1. SocketFits' /\ LoadsFit' /\ u # NoUser
    BY <1>1, <1>8, LoadsCrossed DEF Known, SocketFits, SameSession
  <2>2. CASE missed' = Both
    BY <2>1, <2>2, AllMissed
  <2>3. CASE missed' # Both
    <3>1. missed' = missed /\ mark.token.user = u /\ Pending(u) = {} /\ mine = mark.what \cap Own(u)
      BY <1>8, <2>3 DEF Known, MarkFits
    <3>2. Own(socket.user)' = Own(u)
      BY <1>4 DEF Own
    <3>3. Pending(socket.user)' = {}
      <4>1. \A n \in Own(u) : nt'[n].pushed = nt[n].pushed
        BY <1>4 DEF Own
      <4> QED
        BY <3>1, <3>2, <4>1 DEF Pending
    <3>4. Seen(u) = Own(u) /\ Seen(socket.user)' = Own(u) /\ Own(u) \subseteq Notes
      BY <3>1, <3>2, <3>3 DEF Seen, Own
    <3>5. MarkFits'
      BY <1>2, <1>4, <3>1, <3>3, <3>4 DEF MarkFits
    <3>6. CountFits'
      <4> SUFFICES ASSUME "count" \notin missed, ~All(mark.what) PROVE CountFits'
        BY <1>2, <3>1 DEF CountFits, All
      <4>1. PICK n \in Made : /\ mark.what = {n} /\ ~nt[n].read
                              /\ n \in Own(u) => n \in Seen(u)
        BY <1>8 DEF Known, CountFits
      <4>2. n \in Own(u) /\ mine = {n} /\ n \in UnreadSeen(u)
        BY <3>1, <3>4, <4>1 DEF UnreadSeen
      <4>3. UnreadSeen(socket.user)' = UnreadSeen(u) \ {n}
        BY <1>4, <3>4, <4>2 DEF UnreadSeen
      <4>4. /\ IsFiniteSet(UnreadSeen(u)) /\ Cardinality(UnreadSeen(u)) \in Nat
        BY <1>1, <2>1, PartsAreFinite
      <4>5. Cardinality(UnreadSeen(socket.user)') = Cardinality(UnreadSeen(u)) - 1
        BY <4>2, <4>3, <4>4, FS_RemoveElement
      <4>6. cl.count = Cardinality(UnreadSeen(u))
        BY <1>8 DEF Known, CountFits
      <4>7. cl'.count = Cardinality(UnreadSeen(socket.user)') + 1
        BY <4>4, <4>5, <4>6
      <4> QED
        BY <1>2, <4>7 DEF CountFits
    <3>7. ListFits'
      <4> SUFFICES ASSUME "list" \notin missed PROVE ListFits'
        BY <3>1 DEF ListFits
      <4>1. /\ ShowsPage(cl.list, Own(u), Own(u)) /\ ctx.profile = u
            /\ \A k \in DOMAIN cl.list : cl.list[k].read = nt[cl.list[k].id].read
        BY <1>8, <3>4 DEF Known, ListFits
      <4>5. \A k \in DOMAIN cl.list : cl.list[k].id \in Own(u)
        BY <4>1, PageRelisted
      <4>2. ASSUME NEW k \in DOMAIN cl.list
            PROVE  \/ cl.list[k].read = nt'[cl.list[k].id].read
                   \/ cl.list[k].id \in mark.what /\ nt'[cl.list[k].id].read
        <5>1. cl.list[k].id \in Notes
          BY <3>4, <4>5
        <5>2. CASE cl.list[k].id \in mine
          BY <1>4, <3>1, <5>1, <5>2
        <5>3. CASE cl.list[k].id \notin mine
          <6>1. nt'[cl.list[k].id] = nt[cl.list[k].id]
            BY <5>1, <5>3
          <6> QED
            BY <4>1, <6>1
        <5> QED
          BY <5>2, <5>3
      <4>3. cl' = cl /\ socket'.user = u /\ ctx'.profile = u
        BY <4>1 DEF SameSession
      <4>4. ShowsPage(cl'.list, Seen(socket.user)', Own(socket.user)')
        BY <3>2, <3>4, <4>1, <4>3
      <4> QED
        BY <1>2, <4>2, <4>3, <4>4 DEF ListFits
    <3> QED
      BY <2>1, <3>5, <3>6, <3>7 DEF Known
  <2> QED
    BY <2>2, <2>3
<1> QED
  BY <1>6, <1>7, <1>8, BellStep

LEMMA ServeMarkBell ==
    ASSUME BellInv, ServeMark
    PROVE  BellInv'
<1> DEFINE mine == mark.what \cap Own(mark.token.user)
<1>1. /\ mark.pc = "sent" /\ loads' = Crossed(loads) /\ UNCHANGED <<wire, socket, cl>> /\ SameSession
  BY DEF ServeMark, sesVars, SameSession
<1>2. CASE Admitted(mark.token) /\ (All(mark.what) \/ mine # {})
  <2>1. /\ nt' = [n \in Notes |-> IF n \in mine THEN [nt[n] EXCEPT !.read = TRUE] ELSE nt[n]]
        /\ mark' = [mark EXCEPT !.pc = "ok"]
        /\ missed' = IF Pending(mark.token.user) # {} THEN Both ELSE missed
    BY <1>2 DEF ServeMark
  <2> QED
    BY <1>1, <1>2, <2>1, AcceptMarkBell
<1>3. CASE ~(Admitted(mark.token) /\ (All(mark.what) \/ mine # {}))
  <2>1. mark' = [mark EXCEPT !.pc = "no"] /\ UNCHANGED <<nt, missed>>
    BY <1>3 DEF ServeMark
  <2> QED
    BY <1>1, <2>1, RefuseMarkBell
<1> QED
  BY <1>2, <1>3

\* The list with the marked entries as read, and the count after that.
LEMMA MarkedList ==
    ASSUME BellTypes, NEW list, list = [k \in DOMAIN cl.list |-> Marked(cl.list[k])]
    PROVE  /\ list \in Seq(Entries) /\ Len(list) = Len(cl.list) /\ DOMAIN list = DOMAIN cl.list
           /\ \A k \in DOMAIN list : /\ list[k].id = cl.list[k].id
                                     /\ list[k].read = (cl.list[k].read \/ cl.list[k].id \in mark.what)
<1>1. cl.list \in Seq(Entries) /\ \A k \in DOMAIN cl.list : cl.list[k] \in Entries
  BY DEF BellTypes
<1>2. \A k \in DOMAIN cl.list : /\ list[k] \in Entries /\ list[k].id = cl.list[k].id
                                /\ list[k].read = (cl.list[k].read \/ cl.list[k].id \in mark.what)
  BY <1>1 DEF Marked, Entries
<1>3. DOMAIN cl.list = 1..Len(cl.list) /\ Len(cl.list) \in Nat
  BY <1>1
<1>4. list \in [1..Len(cl.list) -> Entries]
  BY <1>2, <1>3
<1>5. list \in Seq(Entries) /\ Len(list) = Len(cl.list)
  BY <1>3, <1>4
<1> QED
  BY <1>2, <1>5

LEMMA AnswerMarkBell ==
    ASSUME BellInv, AnswerMark
    PROVE  BellInv'
<1> DEFINE u == socket.user
           list == [k \in DOMAIN cl.list |-> Marked(cl.list[k])]
<1>1. BellTypes /\ WireFits /\ cl.count \in Nat
  BY DEF BellInv, BellTypes
<1>2. /\ mark.pc \in {"ok", "no"} /\ mark' = NoMark /\ loads' = Crossed(loads)
      /\ UNCHANGED <<nt, wire, socket, missed>> /\ SameSession /\ Made' = Made
  BY DEF AnswerMark, sesVars, SameSession, Made
<1>3. /\ mark.pc = "no" => cl' = cl
      /\ mark.pc = "ok" => cl' = [list |-> list, count |-> IF All(mark.what) THEN 0 ELSE LessOne]
  BY DEF AnswerMark
<1>4. /\ list \in Seq(Entries) /\ Len(list) = Len(cl.list) /\ DOMAIN list = DOMAIN cl.list
      /\ \A k \in DOMAIN list : /\ list[k].id = cl.list[k].id
                                /\ list[k].read = (cl.list[k].read \/ cl.list[k].id \in mark.what)
  BY <1>1, MarkedList
<1> HIDE DEF list
<1>5. /\ mark' \in [pc : {"idle", "sent", "ok", "no"}, token : Tokens \cup {NoToken}, what : SUBSET Notes]
      /\ mark'.pc = "idle"
  BY <1>2 DEF NoMark
<1>6. BellTypes'
  <2>1. LessOne \in Nat
    BY <1>1 DEF LessOne
  <2>2. cl' \in [count : Nat, list : Seq(Entries)] /\ \A k \in DOMAIN cl'.list : cl'.list[k].id \in Made'
    <3>1. CASE mark.pc = "no"
      BY <1>1, <1>2, <1>3, <3>1 DEF BellTypes
    <3>2. CASE mark.pc = "ok"
      <4>1. cl' \in [count : Nat, list : Seq(Entries)] /\ cl'.list = list
        BY <1>3, <1>4, <2>1, <3>2
      <4>2. \A k \in DOMAIN list : list[k].id \in Made
        BY <1>1, <1>4 DEF BellTypes
      <4> QED
        BY <1>2, <4>1, <4>2
    <3> QED
      BY <1>2, <3>1, <3>2
  <2> QED
    BY <1>1, <1>2, <1>5, <2>2, TypesKept DEF BellTypes
<1>7. WireFits'
  BY <1>1, <1>2 DEF WireFits, SameSession
<1>8. ASSUME Known PROVE Known'
  <2>1. SocketFits' /\ LoadsFit' /\ u # NoUser /\ socket'.user = u /\ ctx'.profile = ctx.profile
    BY <1>1, <1>2, <1>8, LoadsCrossed DEF Known, SocketFits, SameSession
  <2>2. /\ Pending(socket.user)' = Pending(u) /\ Own(socket.user)' = Own(u)
        /\ Seen(socket.user)' = Seen(u) /\ UnreadSeen(socket.user)' = UnreadSeen(u)
    BY <1>2, TableStays
  <2>3. MarkFits'
    BY <1>2, <1>5, <1>8, <2>2 DEF Known, MarkFits
  <2>4. mark.pc = "ok" /\ missed # Both => \A n \in mark.what \cap Seen(u) : nt[n].read
    BY <1>8 DEF Known, MarkFits
  <2>5. CountFits'
    <3> SUFFICES ASSUME "count" \notin missed PROVE CountFits'
      BY <1>2 DEF CountFits
    <3>1. cl'.count = Cardinality(UnreadSeen(u))
      <4>1. CASE mark.pc = "no"
        BY <1>3, <1>8, <4>1 DEF Known, CountFits
      <4>2. CASE mark.pc = "ok" /\ All(mark.what)
        <5>1. UnreadSeen(u) = {}
          BY <2>4, <4>2 DEF UnreadSeen, Seen, Own, All, Both
        <5> QED
          BY <1>3, <4>2, <5>1, FS_EmptySet
      <4>3. CASE mark.pc = "ok" /\ ~All(mark.what)
        <5>1. cl.count = Cardinality(UnreadSeen(u)) + 1 /\ Cardinality(UnreadSeen(u)) \in Nat
          BY <1>1, <1>8, <2>1, <4>3, PartsAreFinite DEF Known, CountFits
        <5>2. cl'.count = LessOne
          BY <1>3, <4>3
        <5> QED
          BY <5>1, <5>2 DEF LessOne
      <4> QED
        BY <1>2, <4>1, <4>2, <4>3
    <3> QED
      BY <1>5, <2>2, <3>1 DEF CountFits
  <2>6. ListFits'
    <3> SUFFICES ASSUME "list" \notin missed PROVE ListFits'
      BY <1>2 DEF ListFits
    <3>1. ShowsPage(cl.list, Seen(u), Own(u)) /\ ctx.profile = u
      BY <1>8 DEF Known, ListFits
    <3>2. ShowsPage(cl'.list, Seen(u), Own(u)) /\ \A k \in DOMAIN cl'.list : cl'.list[k].read = nt[cl'.list[k].id].read
      <4>1. CASE mark.pc = "no"
        BY <1>3, <1>8, <3>1, <4>1 DEF Known, ListFits
      <4>2. CASE mark.pc = "ok"
        <5>1. ShowsPage(list, Seen(u), Own(u)) /\ \A k \in DOMAIN cl.list : cl.list[k].id \in Seen(u)
          BY <1>4, <3>1, PageRelisted
        <5>2. ASSUME NEW k \in DOMAIN cl.list PROVE list[k].read = nt[list[k].id].read
          <6>1. /\ cl.list[k].id \in Seen(u) /\ list[k].id = cl.list[k].id
                /\ list[k].read = (cl.list[k].read \/ cl.list[k].id \in mark.what)
            BY <1>4, <5>1
          <6>2. cl.list[k].id \in mark.what => nt[cl.list[k].id].read
            BY <2>4, <4>2, <6>1 DEF Both
          <6>3. /\ cl.list[k].read \in BOOLEAN /\ nt[cl.list[k].id].read \in BOOLEAN
                /\ \/ cl.list[k].read = nt[cl.list[k].id].read
                   \/ cl.list[k].id \in mark.what
            <7>1. cl.list[k] \in Entries /\ cl.list[k].id \in Notes
              BY <1>1 DEF BellTypes, Made
            <7> QED
              BY <1>1, <1>8, <7>1 DEF BellTypes, Entries, Known, ListFits
          <6> QED
            BY <6>1, <6>2, <6>3
        <5> QED
          BY <1>3, <1>4, <4>2, <5>1, <5>2
      <4> QED
        BY <1>2, <4>1, <4>2
    <3>3. ShowsPage(cl'.list, Seen(socket.user)', Own(socket.user)')
      BY <2>2, <3>2
    <3> QED
      BY <1>2, <2>1, <3>1, <3>2, <3>3 DEF ListFits
  <2> QED
    BY <2>1, <2>3, <2>5, <2>6 DEF Known
<1> QED
  BY <1>2, <1>6, <1>7, <1>8, BellStep

-----------------------------------------------------------------------------
(* The session's steps: signing in starts the bell, signing out stops it. *)

\* What a step of the session leaves of the types.
LEMMA EffectTypes ==
    ASSUME BellTypes, UNCHANGED <<nt, cl, mark>>, wire' \in Seq(Notes),
           socket' \in [up : BOOLEAN, user : Users \cup {NoUser}, era : Nat, refused : BOOLEAN],
           loads' \in Seq(Load), missed' \subseteq Both,
           \A i \in DOMAIN loads' : \A k \in DOMAIN loads'[i].items : loads'[i].items[k].id \in Made
    PROVE  BellTypes'
<1>1. Made' = Made
  BY DEF Made
<1> QED
  BY <1>1 DEF BellTypes

\* Two more at the end of a sequence.
AndTwo(f, x, y) == f \o <<x, y>>

LEMMA TwoMore ==
    ASSUME NEW S, NEW f \in Seq(S), NEW x \in S, NEW y \in S, NEW g, g = AndTwo(f, x, y)
    PROVE  /\ g \in Seq(S)
           /\ \A i \in DOMAIN g : (\E j \in DOMAIN f : g[i] = f[j]) \/ g[i] = x \/ g[i] = y
<1> USE DEF AndTwo
<1>1. g \in Seq(S) /\ Len(g) = Len(f) + 2
  OBVIOUS
<1>2. ASSUME NEW i \in DOMAIN g, i \notin DOMAIN f PROVE g[i] = x \/ g[i] = y
  <2>1. i = Len(f) + 1 \/ i = Len(f) + 2
    BY <1>1, <1>2
  <2>2. g[Len(f) + 1] = x /\ g[Len(f) + 2] = y
    BY <1>1
  <2> QED
    BY <2>1, <2>2
<1>3. \A i \in DOMAIN f : g[i] = f[i]
  BY <1>1
<1> QED
  BY <1>1, <1>2, <1>3

\* The fetches of earlier sign-ins are out of date.
LEMMA OldFetches ==
    ASSUME BellTypes, NEW old, old = Outdated(loads)
    PROVE  /\ old \in Seq(Load)
           /\ \A i \in DOMAIN old : old[i].crossed /\ \A k \in DOMAIN old[i].items : old[i].items[k].id \in Made
<1>1. loads \in Seq(Load) /\ DOMAIN loads = 1..Len(loads) /\ Len(loads) \in Nat
  BY DEF BellTypes
<1>2. \A i \in DOMAIN loads : /\ loads[i] \in Load
                              /\ \A k \in DOMAIN loads[i].items : loads[i].items[k].id \in Made
  BY <1>1 DEF BellTypes
<1>3. DOMAIN old = DOMAIN loads /\ \A i \in DOMAIN loads : old[i] = [loads[i] EXCEPT !.crossed = TRUE]
  BY DEF Outdated
<1>4. \A i \in DOMAIN loads : old[i] \in Load /\ old[i].crossed /\ old[i].items = loads[i].items
  BY <1>2, <1>3 DEF Load
<1>5. old \in Seq(Load)
  <2>1. old = [i \in 1..Len(loads) |-> old[i]]
    BY <1>1, <1>3 DEF Outdated
  <2>2. old \in [1..Len(loads) -> Load]
    BY <1>1, <1>4, <2>1
  <2> QED
    BY <1>1, <2>2
<1> QED
  BY <1>2, <1>3, <1>4, <1>5

\* The two new ones are not.
Fresh(l, t) == l \in Load /\ l.token = t /\ l.pc = "sent" /\ l.items = <<>>

LEMMA Fetches ==
    ASSUME BellTypes, NEW t, NEW count, Fresh(count, t), NEW list, Fresh(list, t),
           NEW g, g = AndTwo(Outdated(loads), count, list)
    PROVE  /\ g \in Seq(Load)
           /\ \A i \in DOMAIN g :
                /\ ~g[i].crossed => g[i].token = t /\ g[i].pc = "sent"
                /\ \A k \in DOMAIN g[i].items : g[i].items[k].id \in Made
<1>1. PICK old : old = Outdated(loads)
  OBVIOUS
<1>2. /\ old \in Seq(Load)
      /\ \A i \in DOMAIN old : old[i].crossed /\ \A k \in DOMAIN old[i].items : old[i].items[k].id \in Made
  BY <1>1, OldFetches
<1>3. /\ g \in Seq(Load)
      /\ \A i \in DOMAIN g : (\E j \in DOMAIN old : g[i] = old[j]) \/ g[i] = count \/ g[i] = list
  <2>1. count \in Load /\ list \in Load /\ g = AndTwo(old, count, list)
    BY <1>1 DEF Fresh
  <2> QED
    BY <1>2, <2>1, TwoMore
<1>4. ASSUME NEW i \in DOMAIN g
      PROVE  /\ ~g[i].crossed => g[i].token = t /\ g[i].pc = "sent"
             /\ \A k \in DOMAIN g[i].items : g[i].items[k].id \in Made
  <2>1. ASSUME NEW j \in DOMAIN old, g[i] = old[j]
        PROVE  g[i].crossed /\ \A k \in DOMAIN g[i].items : g[i].items[k].id \in Made
    BY <1>2, <2>1
  <2>2. ASSUME g[i] = count \/ g[i] = list
        PROVE  g[i].token = t /\ g[i].pc = "sent" /\ g[i].items = <<>>
    BY <2>2 DEF Fresh
  <2>3. CASE \E j \in DOMAIN old : g[i] = old[j]
    BY <2>1, <2>3
  <2>4. CASE g[i] = count \/ g[i] = list
    BY <2>2, <2>4
  <2> QED
    BY <1>3, <2>3, <2>4
<1> QED
  BY <1>3, <1>4

LEMMA SignInBell ==
    ASSUME IInv, IInv', BellInv, ChangeFits', SesAnswer \/ SesUser, UNCHANGED nt, Subscribe,
           ~On(ctx), On(ctx')
    PROVE  BellInv'
<1>1. BellTypes /\ WireFits /\ store' \in Tokens \cup {NoToken}
  BY DEF BellInv, IInv, SesTypeOK
<1>2. /\ socket' = [up |-> FALSE, user |-> store'.user, era |-> store'.era, refused |-> FALSE]
      /\ missed' = Both /\ wire' = <<>> /\ UNCHANGED <<nt, mark, cl>>
  BY <1>1 DEF Subscribe, WireFits, Off
<1>3. /\ loads' \in Seq(Load)
      /\ \A i \in DOMAIN loads' :
           /\ ~loads'[i].crossed => loads'[i].token = store' /\ loads'[i].pc = "sent"
           /\ \A k \in DOMAIN loads'[i].items : loads'[i].items[k].id \in Made
  <2>1. Fresh(Start("count"), store') /\ Fresh(Start("list"), store')
    BY <1>1 DEF Fresh, Start, Load, Both
  <2>2. loads' = AndTwo(Outdated(loads), Start("count"), Start("list"))
    BY DEF Subscribe, AndTwo
  <2> QED
    BY <1>1, <2>1, <2>2, Fetches
<1>4. socket' \in [up : BOOLEAN, user : Users \cup {NoUser}, era : Nat, refused : BOOLEAN]
  BY <1>1, <1>2, NobodyHasNoToken
<1>5. BellTypes'
  BY <1>1, <1>2, <1>3, <1>4, EffectTypes DEF BellTypes
<1>6. WireFits'
  BY <1>2 DEF WireFits, On
<1>7. ASSUME Regular' PROVE Known'
  <2>1. store'.user \in Users /\ (store'.scope = "full" => ctx'.profile = store'.user)
    BY <1>7, SignsIn
  <2>2. SocketFits'
    BY <1>2, <2>1, UsersAssumption DEF SocketFits
  <2>3. LoadsFit'
    BY <1>2, <1>3, <2>1 DEF LoadsFit, LoadFits
  <2> QED
    BY <1>2, <2>2, <2>3, AllMissed
<1> QED
  BY <1>5, <1>6, <1>7 DEF BellInv

LEMMA SignOutBell ==
    ASSUME BellInv, ChangeFits', UNCHANGED nt, Unsubscribe, ~On(ctx')
    PROVE  BellInv'
<1>1. BellTypes /\ WireFits
  BY DEF BellInv
<1>2. socket' = Off /\ wire' = <<>> /\ UNCHANGED <<loads, mark, cl, missed>>
  BY DEF Unsubscribe
<1>3. BellTypes'
  BY <1>1, <1>2, EffectTypes DEF BellTypes, Off
<1>4. WireFits'
  BY <1>2 DEF WireFits, Off
<1> QED
  BY <1>3, <1>4 DEF BellInv, On

LEMMA SameBell ==
    ASSUME IInv, BellInv, ChangeFits', SesAnswer \/ SesUser,
           UNCHANGED <<nt, wire, socket, loads, mark, cl, missed>>, On(ctx) <=> On(ctx')
    PROVE  BellInv'
<1>1. BellTypes /\ WireFits
  BY DEF BellInv
<1>2. BellTypes'
  BY <1>1, EffectTypes DEF BellTypes
<1>3. WireFits'
  BY <1>1 DEF WireFits, On
<1>4. ASSUME Regular', On(ctx)' PROVE Known'
  <2>1. Known /\ ChangeFits /\ On(ctx) /\ On(ctx')
    BY <1>4, OddGrows DEF BellInv, On
  <2>2. store'.user = store.user /\ ctx'.profile \in {ctx.profile, store.user}
    BY <1>4, <2>1, StaysSigned
  <2>3. socket.user = store.user /\ SocketFits'
    BY <2>1, <2>2 DEF Known, SocketFits
  <2>4. ctx.profile = socket.user => ctx'.profile = socket.user
    BY <2>2, <2>3
  <2>5. /\ Pending(socket.user)' = Pending(socket.user) /\ Own(socket.user)' = Own(socket.user)
        /\ Unread(socket.user)' = Unread(socket.user) /\ Seen(socket.user)' = Seen(socket.user)
        /\ UnreadSeen(socket.user)' = UnreadSeen(socket.user) /\ Made' = Made
    BY TableStays
  <2>6. LoadsFit'
    <3>1. \A i \in DOMAIN loads : LoadFits(loads[i]) => LoadFits(loads[i])'
      BY <2>4, <2>5 DEF LoadFits
    <3> QED
      BY <2>1, <3>1 DEF Known, LoadsFit, LoadFits
  <2>7. MarkFits'
    BY <2>1, <2>5 DEF Known, MarkFits
  <2>8. CountFits'
    BY <2>1, <2>5 DEF Known, CountFits, All
  <2>9. ListFits'
    BY <2>1, <2>4, <2>5 DEF Known, ListFits
  <2> QED
    BY <2>3, <2>6, <2>7, <2>8, <2>9 DEF Known
<1> QED
  BY <1>2, <1>3, <1>4 DEF BellInv

LEMMA SessionBell ==
    ASSUME IInv, IInv', BellInv, SesAnswer \/ SesUser, Effect
    PROVE  BellInv'
<1>1. ChangeFits'
  BY ChangeFitsKeeps DEF BellInv
<1>2. CASE ~On(ctx) /\ On(ctx')
  <2>1. Subscribe /\ UNCHANGED nt
    BY <1>2 DEF Effect
  <2> QED
    BY <1>1, <1>2, <2>1, SignInBell
<1>3. CASE On(ctx) /\ ~On(ctx')
  <2>1. Unsubscribe /\ UNCHANGED nt
    BY <1>3 DEF Effect
  <2> QED
    BY <1>1, <1>3, <2>1, SignOutBell
<1>4. CASE On(ctx) <=> On(ctx')
  <2>1. UNCHANGED <<nt, wire, socket, loads, mark, cl, missed>>
    BY <1>4 DEF Effect
  <2> QED
    BY <1>1, <1>4, <2>1, SameBell
<1> QED
  BY <1>2, <1>3, <1>4

\* The page is loaded anew: the client holds nothing.
LEMMA ReloadBell ==
    ASSUME IInv, BellInv, Reload, Forget
    PROVE  BellInv'
<1>1. BellTypes
  BY DEF BellInv
<1>2. ~On(ctx') /\ ~(change'.pc # "idle" /\ change'.heard)
  <2>1. ctx'.auth = FALSE
    BY DEF Reload, Loaded, SignedOut
  <2>2. ~(change'.pc # "idle" /\ change'.heard)
    BY DEF Reload, IInv, SesTypeOK
  <2> QED
    BY <2>1, <2>2 DEF On
<1>3. /\ cl' = [count |-> 0, list |-> <<>>] /\ loads' = <<>> /\ mark' = NoMark
      /\ socket' = Off /\ wire' = <<>> /\ missed' = {} /\ nt' = nt /\ Made' = Made
  BY DEF Forget, Made
<1>4. BellTypes'
  <2>1. cl' \in [count : Nat, list : Seq(Entries)] /\ cl'.list = <<>>
    BY <1>3
  <2> QED
    BY <1>1, <1>3, <2>1 DEF BellTypes, NoMark, Off
<1>5. WireFits'
  BY <1>3 DEF WireFits, Off
<1>6. ChangeFits'
  BY <1>2 DEF ChangeFits
<1> QED
  BY <1>2, <1>4, <1>5, <1>6 DEF BellInv, On

-----------------------------------------------------------------------------
(* The bell in every behaviour. *)

LEMMA BellInit ==
    ASSUME Init
    PROVE  BellInv
<1>1. /\ nt = [n \in Notes |-> IF n \in DOMAIN Old THEN [owner |-> Old[n], read |-> FALSE, pushed |-> TRUE]
                               ELSE Unmade]
      /\ wire = <<>> /\ socket = Off /\ loads = <<>> /\ mark = NoMark
      /\ cl = [count |-> 0, list |-> <<>>] /\ missed = {}
  BY DEF Init, NotInit
<1>2. ~On(ctx) /\ change.pc = "idle"
  BY DEF Init, SesInit, SignedOut, On, NoChange
<1>3. nt \in [Notes -> [owner : Users \cup {NoUser}, read : BOOLEAN, pushed : BOOLEAN]]
  BY <1>1, NotesAssumption DEF Unmade
<1>7. \A m \in Made, n \in Notes : n < m => n \in Made
  <2>1. DOMAIN Old = 1..Len(Old) /\ Len(Old) \in Nat /\ \A n \in DOMAIN Old : Old[n] \in Users
    BY NotesAssumption
  <2>2. \A n \in Notes : n \in Made <=> n \in DOMAIN Old
    BY <1>1, <2>1, UsersAssumption DEF Made, Unmade
  <2> SUFFICES ASSUME NEW m \in Made, NEW n \in Notes, n < m PROVE n \in DOMAIN Old
    BY <2>2
  <2>3. m \in Notes /\ m \in 1..Len(Old)
    BY <2>1, <2>2 DEF Made
  <2>4. n \in Nat /\ n # 0
    BY NotesAssumption
  <2> QED
    BY <2>1, <2>3, <2>4
<1>4. IsFiniteSet(Made)
  <2>1. DOMAIN Old = 1..Len(Old) /\ Len(Old) \in Nat
    BY NotesAssumption
  <2>2. IsFiniteSet(DOMAIN Old)
    BY <2>1, FS_Interval
  <2>3. Made \subseteq DOMAIN Old
    BY <1>1 DEF Made, Unmade
  <2> QED
    BY <2>2, <2>3, FS_Subset
<1>5. BellTypes
  <2>1. cl \in [count : Nat, list : Seq(Entries)] /\ cl.list = <<>>
    BY <1>1
  <2> QED
    BY <1>1, <1>3, <1>4, <1>7, <2>1 DEF BellTypes, NoMark, Off
<1>6. WireFits
  BY <1>1 DEF WireFits, Off
<1> QED
  BY <1>2, <1>5, <1>6 DEF BellInv, ChangeFits

LEMMA BellNext ==
    ASSUME IInv, BellInv, [Next]_vars
    PROVE  BellInv'
<1>1. IInv'
  BY NextKeeps
<1>2. CASE (SesAnswer \/ SesUser) /\ Effect
  BY <1>1, <1>2, SessionBell
<1>3. CASE Reload /\ Forget
  BY <1>3, ReloadBell
<1>4. CASE Delivery
  <2>1. CASE \E n \in Notes : Push(n)
    BY <2>1, PushBell
  <2>2. CASE Receive \/ Connect \/ ServeMark \/ AnswerMark
    BY <2>2, ReceiveBell, ConnectBell, ServeMarkBell, AnswerMarkBell
  <2>3. CASE \E i \in DOMAIN loads : Answering(i)
    BY <2>3, ServeLoadBell, AnswerLoadBell DEF Answering
  <2> QED
    BY <1>4, <2>1, <2>2, <2>3 DEF Delivery
<1>5. CASE \E n \in Notes, u \in Users : Make(n, u)
  BY <1>5, MakeBell
<1>6. CASE \E n \in Notes : LosePush(n)
  BY <1>6, LosePushBell
<1>7. CASE DropSocket \/ LoseMark \/ MarkAllAsRead
  BY <1>7, DropSocketBell, LoseMarkBell, MarkAllBell
<1>8. CASE \E k \in DOMAIN cl.list : MarkAsRead(k)
  BY <1>8, MarkAsReadBell
<1>9. CASE UNCHANGED vars
  <2>1. /\ UNCHANGED <<nt, wire, socket, loads, mark, cl, missed>> /\ SameSession
    BY <1>9 DEF vars, sesVars, notVars, SameSession
  <2>2. BellTypes' /\ WireFits'
    BY <2>1 DEF BellInv, BellTypes, WireFits, Made, SameSession
  <2>3. ASSUME Known PROVE Known'
    <3>1. SocketFits' /\ LoadsFit'
      BY <2>1, <2>3, LoadsStay DEF Known, SocketFits, SameSession
    <3>2. SameView
      BY <2>1, TableStays DEF SameView
    <3>3. MarkFits' /\ CountFits' /\ ListFits'
      BY <2>1, <2>3, <3>2, ViewKept DEF BellInv, SameSession
    <3> QED
      BY <3>1, <3>3 DEF Known
  <2> QED
    BY <2>1, <2>2, <2>3, BellStep
<1> QED
  BY <1>2, <1>3, <1>4, <1>5, <1>6, <1>7, <1>8, <1>9 DEF Next

\* A list that shows as many notes as it has entries has none of them twice.
LEMMA ShownOnce ==
    ASSUME NEW S, IsFiniteSet(S), NEW list \in Seq(Entries), Shows(list, S)
    PROVE  \A j, k \in DOMAIN list : list[j].id = list[k].id => j = k
<1> DEFINE n == Len(list)
           f == [k \in 1..n |-> list[k].id]
<1>1. n \in Nat /\ DOMAIN list = 1..n
  OBVIOUS
<1>2. f \in [1..n -> S] /\ \A x \in S : \E k \in 1..n : f[k] = x
  BY <1>1 DEF Shows
<1>3. IsFiniteSet(1..n) /\ Cardinality(1..n) = n
  BY <1>1, FS_Interval
<1>4. n = Cardinality(S)
  BY DEF Shows
<1>5. \A k \in 1..n : f[k] = list[k].id
  OBVIOUS
<1> HIDE DEF n, f
<1>6. f \in Surjection(1..n, S)
  BY <1>2 DEF Surjection
<1>7. f \in Injection(1..n, S)
  BY <1>3, <1>4, <1>6, FS_Surjection
<1>8. \A j, k \in 1..n : f[j] = f[k] => j = k
  BY <1>2, <1>7 DEF Injection, IsInjective
<1> QED
  BY <1>1, <1>5, <1>8

\* What the invariant says when nothing is on its way.
LEMMA QuietBell ==
    ASSUME BellInv
    PROVE  QuietBellIsExact
<1>1. BellTypes
  BY DEF BellInv
<1>2. NotTypeOK
  <2>1. \A i \in DOMAIN loads : loads[i] \in Load
    BY <1>1 DEF BellTypes
  <2>2. \A i \in DOMAIN loads :
          /\ loads[i].what \in Both /\ loads[i].token \in Tokens \cup {NoToken}
          /\ loads[i].pc \in {"sent", "ok", "no"} /\ loads[i].items \in Seq(Entries)
          /\ loads[i].crossed \in BOOLEAN
    BY <2>1 DEF Load
  <2> QED
    BY <1>1, <2>2 DEF BellTypes, NotTypeOK
<1>3. ASSUME Regular, On(ctx), Quiet
      PROVE  Known /\ mark.pc = "idle" /\ Seen(socket.user) = Own(socket.user)
             /\ UnreadSeen(socket.user) = Unread(socket.user)
  BY <1>3 DEF BellInv, Quiet, Seen, UnreadSeen, Unread
<1>4. QuietBadgeIsExact
  BY <1>3 DEF QuietBadgeIsExact, Known, CountFits
<1>5. QuietListIsExact
  <2> SUFFICES ASSUME Regular, On(ctx), Quiet, "list" \notin missed PROVE QuietListIsExact
    BY DEF QuietListIsExact
  <2> DEFINE S == Own(ctx.profile)
  <2>1. /\ ctx.profile = socket.user /\ ShowsPage(cl.list, S, S) /\ ctx.profile # NoUser
        /\ \A k \in DOMAIN cl.list : cl.list[k].read = nt[cl.list[k].id].read
    BY <1>3 DEF Known, ListFits, SocketFits
  <2>2. PICK U \in SUBSET S : LeavesOut(U, S, S) /\ Shows(cl.list, S \ U)
    BY <2>1 DEF ShowsPage
  <2>3. S \in SUBSET Made /\ IsFiniteSet(S \ U) /\ cl.list \in Seq(Entries)
    BY <1>1, <2>1, PartsAreFinite, FS_Subset DEF BellTypes
  <2>4. \A j, k \in DOMAIN cl.list : cl.list[j].id = cl.list[k].id => j = k
    BY <2>2, <2>3, ShownOnce
  <2>5. \A k \in DOMAIN cl.list : nt[cl.list[k].id].owner = ctx.profile
    BY <2>2 DEF Shows, Own
  <2>6. ASSUME NEW n \in S
        PROVE  \/ \E k \in DOMAIN cl.list : cl.list[k].id = n
               \/ Len(cl.list) >= PageSize /\ \A k \in DOMAIN cl.list : n < cl.list[k].id
    <3>1. CASE n \notin U
      BY <2>2, <3>1 DEF Shows
    <3>2. CASE n \in U
      <4>1. PageSize <= Len(cl.list)
        BY <2>2, <3>2 DEF LeavesOut, Shows
      <4>2. \A k \in DOMAIN cl.list : n < cl.list[k].id
        BY <2>2, <3>2 DEF LeavesOut, Shows
      <4> QED
        BY <2>3, <4>1, <4>2, PageSizeAssumption
    <3> QED
      BY <3>1, <3>2
  <2> QED
    BY <2>1, <2>4, <2>5, <2>6 DEF QuietListIsExact
<1> QED
  BY <1>2, <1>4, <1>5 DEF QuietBellIsExact

\* With nothing on its way the badge counts the unread notifications and the
\* list shows the newest notifications of the user who is signed in, each once
\* and as the table has it, with a page of them before the first that is left
\* out: whatever pushes, fetches, marks, sign-ins, expired tokens and failures
\* came before, for any number of users and notifications and any page.
THEOREM BellIsExact == Spec => []QuietBellIsExact
<1>1. Init => BellInv
  BY BellInit
<1>2. IInv /\ BellInv /\ [Next]_vars => BellInv'
  BY BellNext
<1>3. BellInv => QuietBellIsExact
  BY QuietBell
<1> QED
  BY <1>1, <1>2, <1>3, Invariance, PTL DEF Spec
=============================================================================
