------------------------------- MODULE Browser -------------------------------
(***************************************************************************)
(* The tabs of one browser (frontend/src/lib/api.ts, auth.store.ts, the    *)
(* login and signup pages) on top of the sessions of backend-core.         *)
(*                                                                         *)
(* All tabs share the refresh cookie; each keeps its own access token and  *)
(* the account it shows.  Every call goes through api(): a 401 makes the   *)
(* tab renew its access token with the cookie and try once more.  A tab    *)
(* has one call to /auth under way at a time, which the request slot of    *)
(* the same name serves: the calls of its pages share one refreshPromise,  *)
(* so one of them stands for all.  A logout runs beside it, one of a tab   *)
(* at a time.                                                              *)
(*                                                                         *)
(* A call to /auth/refresh takes the cookie along when it is sent, reads   *)
(* the table when it arrives, and sets the new cookie when its answer is   *)
(* received: other tabs act in between, and the answer may be lost.  A     *)
(* logout takes the cookie along when it is sent, revokes its token when   *)
(* it arrives, and the tab forgets its account when it is answered.        *)
(***************************************************************************)
EXTENDS Sessions

\* An answer is told from the states of a call.
ASSUME AnswersAssumption ==
  Token \cap {"quiet", "travelling", "serving", "refused", "failed"} = {}

VARIABLES
  cookie,   \* the browser's mugheer_refresh cookie
  call,     \* call[t]: the api() call of tab t that is under way
  renewing, \* the tabs whose call was answered 401 and awaits tryRefresh
  again,    \* the tabs that repeat their call after a renewal
  sent,     \* sent[t]: the cookie the outstanding /auth/refresh of t took along
  wire,     \* wire[t]: where the /auth call of tab t is, or its answer
  access,   \* access[t]: the account of the access token tab t holds
  shown,    \* shown[t]: `user` of the tab's auth store
  parting,  \* parting[t]: the cookie of tab t's POST /auth/logout that still travels
  leaving,  \* the tabs that await the answer to their logout
  troubled, \* history: the families two calls of this browser used at once, or that
            \* lost a rotation or a logout to a failure
  left      \* history: the families somebody logged out of

tabVars == <<cookie, call, renewing, again, sent, wire, access, shown,
             parting, leaving, troubled, left>>
allVars == <<vars, tabVars>>

Tab == Request

\* call[t]
Closed   == "closed"    \* the tab does not run the app
Rest     == "rest"      \* no call
Load     == "load"      \* loadSession: POST /auth/refresh
LoadMe   == "loadMe"    \* loadSession: GET /users/me
SignIn   == "signIn"    \* login, signup: POST
SignInMe == "signInMe"  \* login, signup: GET /users/me
PageCall == "pageCall"  \* any call of a page
Callback == "callback"  \* the OAuth provider sent the tab to the callback

\* wire[t], or the refresh token in the answer
Quiet      == "quiet"
Travelling == "travelling"
Serving    == "serving"
Refused    == "refused"   \* answered 401
Failed     == "failed"    \* answered 500, or not at all

Answers == {Refused, Failed} \cup Token

Loading(t)     == call[t] \in {Load, LoadMe}
SameSession(x, y) == x # NoToken /\ y # NoToken /\ family[x] = family[y]
FamilyIn(x)    == IF x = NoToken THEN {} ELSE {family[x]}

\* The logouts of this browser run beside its other calls.
logoutVars == <<parting, leaving>>

-----------------------------------------------------------------------------
(* Calls *)

\* fetch('/auth/refresh') with the cookie c.
Ask(t, c) ==
  /\ wire'  = [wire EXCEPT ![t] = Travelling]
  /\ sent'  = [sent EXCEPT ![t] = c]
  /\ troubled' = IF \/ \E q \in Tab \ {t} : SameSession(sent[q], c)
                    \/ \E q \in Tab : SameSession(parting[q], c)
                 THEN troubled \cup FamilyIn(c) ELSE troubled

\* The call of tab t is over: it asks nothing more.
Settle(t) ==
  /\ wire' = [wire EXCEPT ![t] = Quiet]
  /\ sent' = [sent EXCEPT ![t] = NoToken]
  /\ UNCHANGED troubled

\* The call returns or throws.
Return(t, next) ==
  /\ call'     = [call EXCEPT ![t] = next]
  /\ renewing' = renewing \ {t}
  /\ again'    = again \ {t}

\* api(): res.status === 401, so await tryRefresh().
TryRefresh(t) ==
  /\ renewing' = renewing \cup {t}
  /\ Ask(t, cookie)

\* App is mounted (the tab is opened or reloaded): loadSession.
Open(t) ==
  /\ call[t] \in {Closed, Rest}
  /\ call'   = [call   EXCEPT ![t] = Load]
  /\ access' = [access EXCEPT ![t] = NoUser]
  /\ shown'  = [shown  EXCEPT ![t] = NoUser]
  /\ leaving' = leaving \ {t}
  /\ Ask(t, cookie)
  /\ UNCHANGED <<vars, cookie, renewing, again, parting, left>>

\* A page's call finds its access token expired, or its account refused.
PageUnauthorized(t) ==
  /\ call[t] = Rest /\ shown[t] # NoUser
  /\ call' = [call EXCEPT ![t] = PageCall]
  /\ TryRefresh(t)
  /\ UNCHANGED <<vars, cookie, again, access, shown, logoutVars, left>>

\* The login page is shown while there is no user and nothing loads.
AtLogin(t) == call[t] = Rest /\ shown[t] = NoUser

\* Login: submit, with the right credentials of u.
SubmitLogin(t, u) ==
  /\ AtLogin(t)
  /\ Login(t, u)
  /\ call' = [call EXCEPT ![t] = SignIn]
  /\ wire' = [wire EXCEPT ![t] = Serving]
  /\ UNCHANGED <<cookie, renewing, again, sent, access, shown, troubled, logoutVars, left>>

\* Login: submit, refused with a 401 (wrong password, disabled account, missing or
\* wrong code).  api() takes it for an expired session.
SubmitRefusedLogin(t) ==
  /\ AtLogin(t)
  /\ call' = [call EXCEPT ![t] = SignIn]
  /\ TryRefresh(t)
  /\ UNCHANGED <<vars, cookie, again, access, shown, logoutVars, left>>

\* Signup: submit, once the account of u is stored.
SubmitSignup(t, u) ==
  /\ AtLogin(t)
  /\ active[u] /\ \A x \in Stored : owner[x] # u
  /\ \A q \in Tab : usr[q] # u
  /\ StartSession(t, u)
  /\ call' = [call EXCEPT ![t] = SignIn]
  /\ wire' = [wire EXCEPT ![t] = Serving]
  /\ UNCHANGED <<cookie, renewing, again, sent, access, shown, troubled, logoutVars, left>>

\* The tab leaves the app for Google or GitHub and comes back at the callback, whose
\* code is exchanged for the account u.
OAuthCallback(t, u) ==
  /\ AtLogin(t)
  /\ OAuthLogin(t, u)
  /\ call'   = [call   EXCEPT ![t] = Callback]
  /\ access' = [access EXCEPT ![t] = NoUser]
  /\ wire'   = [wire   EXCEPT ![t] = Serving]
  /\ UNCHANGED <<cookie, renewing, again, sent, shown, troubled, logoutVars, left>>

-----------------------------------------------------------------------------
(* The server's side of a call *)

\* The refresh reads the table; without a cookie, or with an expired one, it is
\* refused at once.
Arrive(t) ==
  /\ wire[t] = Travelling
  /\ IF sent[t] \in Stored \ expired
     THEN RefreshLookup(t, sent[t]) /\ wire' = [wire EXCEPT ![t] = Serving]
     ELSE wire' = [wire EXCEPT ![t] = Refused] /\ UNCHANGED vars
  /\ UNCHANGED <<cookie, call, renewing, again, sent, access, shown, troubled, logoutVars, left>>

\* The token a step has just stored, if any.
Issued == {x \in Token : status[x] = "none" /\ status'[x] = "live"}

\* A step of the handler; when it is done its answer is under way.
Serve(t) ==
  /\ HandlerStep(t)
  /\ wire' = [wire EXCEPT ![t] = IF pc'[t] # Idle THEN Serving
                                 ELSE IF Issued = {} THEN Refused
                                 ELSE CHOOSE x \in Issued : TRUE]
  /\ UNCHANGED <<cookie, call, renewing, again, sent, access, shown, troubled, logoutVars, left>>

\* The session the outstanding refresh of t used up without a successor that the
\* browser knows of.
LostBy(t) == {f \in FamilyIn(sent[t]) : status[sent[t]] = "revoked"}

ServerFails(t) ==
  /\ Fail(t)
  /\ wire'   = [wire EXCEPT ![t] = Failed]
  /\ troubled' = troubled \cup LostBy(t)
  /\ UNCHANGED <<cookie, call, renewing, again, sent, access, shown, logoutVars, left>>

\* The answer never reaches the browser.
AnswerLost(t) ==
  /\ wire[t] \in Token
  /\ wire'   = [wire EXCEPT ![t] = Failed]
  /\ troubled' = troubled \cup LostBy(t)
  /\ UNCHANGED <<vars, cookie, call, renewing, again, sent, access, shown, logoutVars, left>>

-----------------------------------------------------------------------------
(* The tab's side of an answer *)

\* Faulty: only the sign-in sets the cookie.
KeepCookie(t, x) == cookie' = IF call[t] \in {SignIn, Callback} THEN x ELSE cookie

\* The browser stores the cookie of the answer.
SetRefreshCookie(t, x) == cookie' = x

\* A call that stands for itself, not for a renewal, is answered with tokens:
\* loadSession, login and signup go on to /users/me; the callback ends at a JSON page.
GetTokens(t) ==
  /\ wire[t] \in Token /\ t \notin renewing
  /\ SetRefreshCookie(t, wire[t])
  /\ IF call[t] = Callback
     THEN Return(t, Closed) /\ UNCHANGED access
     ELSE /\ Return(t, IF call[t] = Load THEN LoadMe ELSE SignInMe)
          /\ access' = [access EXCEPT ![t] = owner[wire[t]]]
  /\ Settle(t)
  /\ UNCHANGED <<vars, shown, logoutVars, left>>

\* Faulty: the repeated call takes the cookie along that it took the first time.
RenewedRepeatingAll(t) ==
  /\ wire[t] \in Token /\ t \in renewing
  /\ SetRefreshCookie(t, wire[t])
  /\ access' = [access EXCEPT ![t] = owner[wire[t]]]
  /\ IF call[t] = Load
     THEN Ask(t, cookie) /\ UNCHANGED call
     ELSE /\ Settle(t)
          /\ call' = IF call[t] \in {LoadMe, SignInMe} THEN call
                                                       ELSE [call EXCEPT ![t] = Rest]
  /\ renewing' = renewing \ {t}
  /\ again' = IF call[t] \in {Load, LoadMe, SignInMe} THEN again \cup {t} ELSE again
  /\ UNCHANGED <<vars, shown, logoutVars, left>>

\* tryRefresh resolves to true: the new access token is stored and the call repeated.
\* That of loadSession is a refresh of its own.  The repeated call of a page changes
\* nothing here, and a repeated login is refused again.
Renewed(t) ==
  /\ wire[t] \in Token /\ t \in renewing
  /\ SetRefreshCookie(t, wire[t])
  /\ access' = [access EXCEPT ![t] = owner[wire[t]]]
  /\ IF call[t] = Load
     THEN Ask(t, cookie') /\ UNCHANGED call
     ELSE /\ Settle(t)
          /\ call' = IF call[t] \in {LoadMe, SignInMe} THEN call
                                                       ELSE [call EXCEPT ![t] = Rest]
  /\ renewing' = renewing \ {t}
  /\ again' = IF call[t] \in {Load, LoadMe, SignInMe} THEN again \cup {t} ELSE again
  /\ UNCHANGED <<vars, shown, logoutVars, left>>

\* tryRefresh resolves to false: the access token is dropped and the call throws.
\* `user` stays what it was.
NotRenewed(t) ==
  /\ wire[t] \in {Refused, Failed} /\ t \in renewing
  /\ access' = [access EXCEPT ![t] = NoUser]
  /\ Return(t, Rest)
  /\ Settle(t)
  /\ UNCHANGED <<vars, cookie, shown, logoutVars, left>>

\* loadSession's refresh is answered 401 for the first time.
LoadUnauthorized(t) ==
  /\ call[t] = Load /\ wire[t] = Refused /\ t \notin renewing \cup again
  /\ TryRefresh(t)
  /\ UNCHANGED <<vars, cookie, call, again, access, shown, logoutVars, left>>

\* JwtStrategy.validate: the account of the access token is active.
Validates(t) == access[t] # NoUser /\ active[access[t]]

\* GET /users/me meets the guard.
AsksMe(t) == call[t] \in {LoadMe, SignInMe} /\ wire[t] = Quiet

\* Any other bad answer makes the call throw; loadSession then clears the session.
Throw(t) ==
  /\ t \notin renewing
  /\ \/ wire[t] = Failed
     \/ t \in again /\ (wire[t] = Refused \/ (AsksMe(t) /\ ~Validates(t)))
  /\ access' = IF Loading(t) THEN [access EXCEPT ![t] = NoUser] ELSE access
  /\ Return(t, IF call[t] = Callback THEN Closed ELSE Rest)
  /\ Settle(t)
  /\ UNCHANGED <<vars, cookie, shown, logoutVars, left>>

\* GET /users/me answers: the account is shown.
ShowAccount(t) ==
  /\ AsksMe(t)
  /\ Validates(t)
  /\ shown' = [shown EXCEPT ![t] = access[t]]
  /\ Return(t, Rest)
  /\ UNCHANGED <<vars, cookie, sent, wire, access, troubled, logoutVars, left>>

\* GET /users/me is answered 401 for the first time.
MeUnauthorized(t) ==
  /\ AsksMe(t)
  /\ ~Validates(t) /\ t \notin again
  /\ TryRefresh(t)
  /\ UNCHANGED <<vars, cookie, call, again, access, shown, logoutVars, left>>

-----------------------------------------------------------------------------
(* Logging out *)

\* Faulty: the cookie's path leaves /auth/logout out.
LogoutOfNothing(c) == UNCHANGED vars

\* AuthController.logout with the cookie c.
LogoutOf(c) ==
  IF c # NoToken /\ status[c] = "live" THEN Logout(c) ELSE UNCHANGED vars

\* The shells show "Log out" to a user; the page under them may be waiting for a call.
SignOutOffered(t) == shown[t] # NoUser /\ call[t] \in {Rest, PageCall}

\* logout: POST /auth/logout is sent with the cookie.
SignOut(t) ==
  /\ SignOutOffered(t)
  /\ t \notin leaving /\ parting[t] = NoToken
  /\ parting' = [parting EXCEPT ![t] = cookie]
  /\ leaving' = leaving \cup {t}
  /\ troubled' = IF \E q \in Tab : SameSession(sent[q], cookie)
                 THEN troubled \cup FamilyIn(cookie) ELSE troubled
  /\ UNCHANGED <<vars, cookie, call, renewing, again, sent, wire, access, shown, left>>

\* The logout is handled, even if its tab has been reloaded meanwhile, or it is lost:
\* the request is, the server dies or the updateMany is rejected.
LogoutArrives(t) ==
  /\ parting[t] # NoToken
  /\ \/ LogoutOf(parting[t]) /\ UNCHANGED troubled
     \/ UNCHANGED vars /\ troubled' = troubled \cup FamilyIn(parting[t])
  /\ left'    = left \cup FamilyIn(parting[t])
  /\ parting' = [parting EXCEPT ![t] = NoToken]
  /\ UNCHANGED <<cookie, call, renewing, again, sent, wire, access, shown, leaving>>

\* logout goes on after the answer, or the failure, which is swallowed: the tab forgets
\* its account.  The cookie stays: it was set for /api/v1/auth and clearCookie names
\* no path.
LoggedOut(t) ==
  /\ t \in leaving /\ parting[t] = NoToken
  /\ access'  = [access EXCEPT ![t] = NoUser]
  /\ shown'   = [shown  EXCEPT ![t] = NoUser]
  /\ leaving' = leaving \ {t}
  /\ UNCHANGED <<vars, cookie, call, renewing, again, sent, wire, parting, troubled, left>>

-----------------------------------------------------------------------------

BrowserInit ==
  /\ Init
  /\ cookie   = NoToken
  /\ call     = [t \in Tab |-> Closed]
  /\ renewing = {}
  /\ again    = {}
  /\ sent     = [t \in Tab |-> NoToken]
  /\ wire     = [t \in Tab |-> Quiet]
  /\ access   = [t \in Tab |-> NoUser]
  /\ shown    = [t \in Tab |-> NoUser]
  /\ parting  = [t \in Tab |-> NoToken]
  /\ leaving  = {}
  /\ troubled = {} /\ left = {}

\* What a person does in tab t.
UserStep(t) ==
  \/ Open(t) \/ PageUnauthorized(t) \/ SubmitRefusedLogin(t) \/ SignOut(t)
  \/ \E u \in User : SubmitLogin(t, u) \/ SubmitSignup(t, u) \/ OAuthCallback(t, u)

\* The tab takes in an answer.
Answered(t) ==
  \/ GetTokens(t) \/ Renewed(t) \/ NotRenewed(t) \/ LoadUnauthorized(t)
  \/ Throw(t) \/ ShowAccount(t) \/ MeUnauthorized(t) \/ LoggedOut(t)

BrowserNext ==
  \/ \E t \in Tab : UserStep(t) \/ Arrive(t) \/ Serve(t) \/ ServerFails(t)
                      \/ AnswerLost(t) \/ LogoutArrives(t) \/ Answered(t)
  \/ \E u \in User : Deactivate(u) /\ UNCHANGED tabVars

BrowserSpec == BrowserInit /\ [][BrowserNext]_allVars

-----------------------------------------------------------------------------
(* Properties *)

\* Type invariant of the browser's state.
BrowserTypeOK ==
  /\ TypeOK
  /\ cookie \in Token \cup {NoToken}
  /\ call   \in [Tab -> {Closed, Rest, Load, LoadMe, SignIn, SignInMe, PageCall, Callback}]
  /\ renewing \in SUBSET Tab /\ again \in SUBSET Tab
  /\ sent   \in [Tab -> Token \cup {NoToken}]
  /\ wire   \in [Tab -> {Quiet, Travelling, Serving} \cup Answers]
  /\ access \in [Tab -> User \cup {NoUser}]
  /\ shown  \in [Tab -> User \cup {NoUser}]
  /\ parting \in [Tab -> Token \cup {NoToken}] /\ leaving \in SUBSET Tab
  /\ troubled \in SUBSET Token /\ left \in SUBSET Token

\* Rotation never costs the browser its session: the cookie it holds is still good,
\* unless somebody logged out, two calls used the session at once, a failure swallowed
\* a rotation, or its renewal is under way.
SessionLostForACause ==
  cookie # NoToken /\ family[cookie] \notin left \cup troubled
    /\ (\A t \in Tab : ~SameSession(sent[t], cookie))
    => status[cookie] = "live"

\* Once the server has handled a logout the session has no usable token left, whatever
\* the other tabs do later with the cookie that stays behind, unless some tab had a
\* refresh of it under way while the logout was, or a failure swallowed either.
LogoutEndsTheSession ==
  \A x \in Live : family[x] \in left => family[x] \in troubled

\* Reuse detection strikes no honest browser without such a cause.
ReuseHasACause == reused \subseteq left \cup troubled
-----------------------------------------------------------------------------
(* The inductive invariant *)

\* A tab without a call asks nothing; what travels, is held or was left is stored;
\* the handler in a tab's slot serves what the tab sent.
WireInv ==
  /\ \A t \in Tab :
       /\ call[t] \in {Closed, Rest} => wire[t] = Quiet
       /\ wire[t] = Quiet => sent[t] = NoToken
       /\ wire[t] = Serving <=> pc[t] # Idle
       /\ wire[t] = Serving => tok[t] = sent[t]
       /\ sent[t] # NoToken => sent[t] \in Stored
       /\ wire[t] \in Token => wire[t] \in Stored
       /\ parting[t] # NoToken => parting[t] \in Stored
  /\ cookie # NoToken => cookie \in Stored
  /\ left \subseteq Stored

\* A renewal is answered in its own session; nobody else has that of a login yet.
AnswersInv ==
  \A t \in Tab : wire[t] \in Token =>
    IF sent[t] # NoToken THEN SameSession(sent[t], wire[t])
    ELSE /\ ~SameSession(cookie, wire[t])
         /\ \A q \in Tab : ~SameSession(parting[q], wire[t])
         /\ \A q \in Tab \ {t} :
              /\ ~SameSession(sent[q], wire[t])
              /\ wire[q] \in Token => ~SameSession(wire[q], wire[t])

\* A session without trouble has one renewal under way, of the cookie the browser
\* holds if it is of that session; the server saw no overlap of its renewals.
OneRenewal ==
  /\ \A t, q \in Tab : t # q /\ SameSession(sent[t], sent[q]) => family[sent[t]] \in troubled
  /\ \A t \in Tab : SameSession(cookie, sent[t]) => cookie = sent[t] \/ family[cookie] \in troubled
  /\ overlapped \subseteq troubled

\* A renewal of a session that has neither trouble nor been left ends well: its token
\* is live until the server exchanges it, and the token in the answer is live.
RenewalsGoWell ==
  \A t \in Tab :
    /\ sent[t] # NoToken /\ family[sent[t]] \notin left \cup troubled =>
         /\ wire[t] \in {Travelling, Refused, Failed} => status[sent[t]] = "live"
         /\ wire[t] = Serving => \/ pc[t] = Create
                                 \/ pc[t] \in {FindUser, RevokeOld} /\ status[sent[t]] = "live"
    /\ wire[t] \in Token /\ family[wire[t]] \notin left \cup troubled =>
         status[wire[t]] = "live"

\* A renewal of a session that was left without trouble comes to nothing.
RenewalsOfLeft ==
  \A t \in Tab : sent[t] # NoToken /\ family[sent[t]] \in left \ troubled =>
    wire[t] \notin Token /\ (wire[t] = Serving => pc[t] = RevokeFamily)

\* While a logout travels its token is the only one of the session that can be live,
\* and no refresh of the session is under way, unless the session is troubled.
PartingInv ==
  \A t \in Tab : parting[t] # NoToken /\ family[parting[t]] \notin troubled =>
    /\ \A q \in Tab : ~SameSession(parting[t], sent[q])
    /\ \A x \in Live : family[x] = family[parting[t]] => x = parting[t]

\* The three properties above.
SessionLaws == SessionLostForACause /\ LogoutEndsTheSession /\ ReuseHasACause

BrowserInv ==
  /\ SerialInv /\ BrowserTypeOK /\ WireInv /\ AnswersInv /\ OneRenewal
  /\ RenewalsGoWell /\ RenewalsOfLeft /\ PartingInv /\ SessionLaws
=============================================================================
