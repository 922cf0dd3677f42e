------------------------------- MODULE Sessions -------------------------------
(***************************************************************************)
(* The refresh-token sessions of backend-core (modules/auth).              *)
(*                                                                         *)
(* A login stores one row in the RefreshToken table and starts a rotation  *)
(* "family"; every refresh revokes the presented row and stores a new one  *)
(* in the same family; presenting a revoked token revokes every live row   *)
(* of the family.  backend-core runs in several replicas over one          *)
(* PostgreSQL database and opens no transaction, so each awaited Prisma    *)
(* call is an atomic step of its own and the handlers of concurrent        *)
(* requests interleave between any two of them.                            *)
(*                                                                         *)
(* A token stands for its row: its hash is the key of the lookup, and the  *)
(* jti makes every signed token different.  A family is named by the token *)
(* that started it (the code draws a fresh UUID for it).                   *)
(***************************************************************************)
CONSTANTS
  Token,      \* the refresh tokens the servers can ever sign
  User,       \* the accounts
  Request,    \* request slots: bounds how many handlers are in flight
  NoToken,    \* the request carries no refresh token (a login)
  NoUser      \* the owner of a row that is not stored yet

ASSUME NoTokenAssumption == NoToken \notin Token
ASSUME NoUserAssumption  == NoUser \notin User

VARIABLES
  active,     \* active[u]: User.isActive (deletedAt is never set by the code)
  status,     \* status[t]: "none" (no row), "live" (revokedAt null), "revoked"
  owner,      \* owner[t]: the row's userId
  family,     \* family[t]: the row's family
  expired,    \* the tokens whose JWT and row have expired
  pc,         \* pc[r]: the next awaited call of the handler serving r
  tok,        \* tok[r]: the row the handler read, its local `stored`
  usr,        \* usr[r]: the account the handler works for
  successors, \* history: successors[t] = the tokens issued in exchange for t
  reused,     \* history: the families in which reuse was detected
  overlapped  \* history: the families of which two refreshes were in flight at once

dbVars   == <<active, status, owner, family, expired>>
reqVars  == <<pc, tok, usr>>
histVars == <<successors, reused, overlapped>>
vars     == <<dbVars, reqVars, histVars>>

Idle         == "idle"          \* the slot serves no request
FindUser     == "findUser"      \* before user.findFirst
RevokeOld    == "revokeOld"     \* before refreshToken.update
Create       == "create"        \* before refreshToken.create in issueTokens
RevokeFamily == "revokeFamily"  \* before refreshToken.updateMany by family

PC == {Idle, FindUser, RevokeOld, Create, RevokeFamily}

-----------------------------------------------------------------------------

Stored     == {t \in Token : status[t] # "none"}
Live       == {t \in Token : status[t] = "live"}
Members(f) == {t \in Stored : family[t] = f}

\* Request r is a refresh of a token of family f.
Works(r, f) == tok[r] # NoToken /\ family[tok[r]] = f

Goto(r, step) == pc' = [pc EXCEPT ![r] = step]

\* The handler returns, throws, or dies with its process: its locals are gone.
Release(r) ==
  /\ pc'  = [pc  EXCEPT ![r] = Idle]
  /\ tok' = [tok EXCEPT ![r] = NoToken]
  /\ usr' = [usr EXCEPT ![r] = NoUser]

StartSession(r, u) ==
  /\ pc[r] = Idle
  /\ Goto(r, Create)
  /\ usr' = [usr EXCEPT ![r] = u]
  /\ UNCHANGED <<tok, dbVars, histVars>>

\* AuthService.login: the account is read once, with the right credentials.
\* A signup that stored its account ends in the same call of issueTokens.
Login(r, u) ==
  /\ active[u]
  /\ StartSession(r, u)

\* AuthService.findOrCreateOAuthUser: isActive is not consulted.
OAuthLogin(r, u) == StartSession(r, u)

\* Faulty: revokedAt is not looked at.
BranchBlindly(t) == FindUser

\* A token whose row is revoked is being reused.
Branch(t) == IF status[t] = "revoked" THEN RevokeFamily ELSE FindUser

\* AuthService.refresh up to the lookup.  An expired JWT is refused by
\* verifyAsync before the table is read.
RefreshLookup(r, t) ==
  /\ pc[r] = Idle
  /\ t \in Stored \ expired
  /\ Goto(r, Branch(t))
  /\ tok' = [tok EXCEPT ![r] = t]
  /\ usr' = [usr EXCEPT ![r] = owner[t]]
  /\ overlapped' = IF \E q \in Request \ {r} : Works(q, family[t])
                   THEN overlapped \cup {family[t]} ELSE overlapped
  /\ UNCHANGED <<dbVars, successors, reused>>

\* Faulty: the updateMany selects by id.
ReuseRevokesOne(t) == {t}

\* What the updateMany of the reuse branch selects.
ReuseRevokes(t) == {x \in Live : family[x] = family[t]}

\* The reuse branch: revoke whatever is live in the family, then answer 401.
RefreshRevokeFamily(r) ==
  /\ pc[r] = RevokeFamily
  /\ status' = [t \in Token |-> IF t \in ReuseRevokes(tok[r]) THEN "revoked"
                                                              ELSE status[t]]
  /\ reused' = reused \cup {family[tok[r]]}
  /\ Release(r)
  /\ UNCHANGED <<active, owner, family, expired, successors, overlapped>>

\* Faulty: any stored account will do.
AcceptsAny(u) == TRUE

\* The where clause of refresh's user.findFirst.
Accepts(u) == active[u]

\* Faulty: the new token is issued before the old one is revoked.
RefreshFindUserIssueFirst(r) ==
  /\ pc[r] = FindUser
  /\ IF Accepts(usr[r]) THEN Goto(r, Create) /\ UNCHANGED <<tok, usr>>
                        ELSE Release(r)
  /\ UNCHANGED <<dbVars, histVars>>

\* The account behind the token must be active now, otherwise 401.
RefreshFindUser(r) ==
  /\ pc[r] = FindUser
  /\ IF Accepts(usr[r]) THEN Goto(r, RevokeOld) /\ UNCHANGED <<tok, usr>>
                        ELSE Release(r)
  /\ UNCHANGED <<dbVars, histVars>>

\* The presented row is revoked by id, whatever its revokedAt is by now.
RefreshRevokeOld(r) ==
  /\ pc[r] = RevokeOld
  /\ status' = [status EXCEPT ![tok[r]] = "revoked"]
  /\ Goto(r, Create)
  /\ UNCHANGED <<active, owner, family, expired, tok, usr, histVars>>

\* Faulty: the family is not handed on.
FamilyNotHandedOn(r, t) == t

\* params.family ?? randomUUID().
FamilyFor(r, t) == IF tok[r] = NoToken THEN t ELSE family[tok[r]]

\* AuthService.issueTokens: a new row, in the family of the exchanged token or
\* in a new one.
IssueTokens(r) ==
  /\ pc[r] = Create
  /\ \E t \in Token \ Stored :
       /\ status' = [status EXCEPT ![t] = "live"]
       /\ owner'  = [owner  EXCEPT ![t] = usr[r]]
       /\ family' = [family EXCEPT ![t] = FamilyFor(r, t)]
       /\ successors' = [x \in Token |->
            IF x = tok[r] THEN successors[x] \cup {t} ELSE successors[x]]
  /\ Release(r)
  /\ UNCHANGED <<active, expired, reused, overlapped>>

\* AuthService.logout: one conditional updateMany, by hash.
Logout(t) ==
  /\ status[t] = "live"
  /\ status' = [status EXCEPT ![t] = "revoked"]
  /\ UNCHANGED <<active, owner, family, expired, reqVars, histVars>>

\* UsersService.deactivate: nothing sets isActive again.
Deactivate(u) ==
  /\ active[u]
  /\ active' = [active EXCEPT ![u] = FALSE]
  /\ UNCHANGED <<status, owner, family, expired, reqVars, histVars>>

\* expiresAt, and the exp of the JWT, pass.
Expire(t) ==
  /\ t \in Stored \ expired
  /\ expired' = expired \cup {t}
  /\ UNCHANGED <<active, status, owner, family, reqVars, histVars>>

\* The database call of the handler is rejected, or the process dies before it:
\* what was written stays, nothing rolls it back.
Fail(r) ==
  /\ pc[r] # Idle
  /\ Release(r)
  /\ UNCHANGED <<dbVars, histVars>>

-----------------------------------------------------------------------------

Init ==
  /\ active     = [u \in User |-> TRUE]
  /\ status     = [t \in Token |-> "none"]
  /\ owner      = [t \in Token |-> NoUser]
  /\ family     = [t \in Token |-> NoToken]
  /\ expired    = {}
  /\ pc         = [r \in Request |-> Idle]
  /\ tok        = [r \in Request |-> NoToken]
  /\ usr        = [r \in Request |-> NoUser]
  /\ successors = [t \in Token |-> {}]
  /\ reused     = {}
  /\ overlapped = {}

\* A step of a handler that is in flight.
HandlerStep(r) ==
  \/ RefreshRevokeFamily(r)
  \/ RefreshFindUser(r)
  \/ RefreshRevokeOld(r)
  \/ IssueTokens(r)

Next ==
  \/ \E r \in Request : HandlerStep(r) \/ Fail(r)
  \/ \E r \in Request, u \in User : Login(r, u) \/ OAuthLogin(r, u)
  \/ \E r \in Request, t \in Token : RefreshLookup(r, t)
  \/ \E t \in Token : Logout(t) \/ Expire(t)
  \/ \E u \in User : Deactivate(u)

Spec == Init /\ [][Next]_vars

-----------------------------------------------------------------------------
(* Properties *)

\* Type invariant of the tables and of the handlers' locals.
TypeOK ==
  /\ active     \in [User -> BOOLEAN]
  /\ status     \in [Token -> {"none", "live", "revoked"}]
  /\ owner      \in [Token -> User \cup {NoUser}]
  /\ family     \in [Token -> Token \cup {NoToken}]
  /\ expired    \in SUBSET Token
  /\ pc         \in [Request -> PC]
  /\ tok        \in [Request -> Token \cup {NoToken}]
  /\ usr        \in [Request -> User \cup {NoUser}]
  /\ successors \in [Token -> SUBSET Token]
  /\ reused \in SUBSET Token /\ overlapped \in SUBSET Token

\* A token that was exchanged is revoked from then on, under every interleaving
\* and every failure: refresh revokes the old row before it stores the new one,
\* so no crash between the two leaves both usable.
ExchangedIsRevoked ==
  \A t \in Token : successors[t] # {} => status[t] = "revoked"

\* The tokens obtained from a token, directly or not, are in its family and
\* belong to its account: the updateMany of the reuse branch can reach all of
\* them by the family column alone.
FamilyIsLineage ==
  \A t \in Token : \A s \in successors[t] :
    family[s] = family[t] /\ owner[s] = owner[t]

\* What makes ExchangedIsRevoked and FamilyIsLineage inductive.  A handler works
\* on a stored row of the account it works for, and when it is about to issue a
\* successor it has already revoked that row ...
HandlersInv ==
  \A r \in Request :
    /\ tok[r] # NoToken => status[tok[r]] # "none" /\ usr[r] = owner[tok[r]]
    /\ pc[r] = Idle => tok[r] = NoToken
    /\ pc[r] # Idle => usr[r] \in User
    /\ pc[r] \in {FindUser, RevokeOld, RevokeFamily} => tok[r] # NoToken
    /\ pc[r] = Create /\ tok[r] # NoToken => status[tok[r]] = "revoked"

\* ... a family is named by a stored token of the same account, its root ...
FamiliesInv ==
  \A t \in Token :
    IF status[t] = "none"
    THEN family[t] = NoToken
    ELSE /\ family[t] \in Token /\ status[family[t]] # "none"
         /\ family[family[t]] = family[t]
         /\ owner[family[t]] = owner[t]
         /\ owner[t] \in User

\* ... and the histories speak of stored tokens.
HistoriesInv ==
  /\ \A t \in Token : successors[t] \subseteq Stored
  /\ reused \subseteq Stored

SessionsInv ==
  /\ TypeOK
  /\ HandlersInv
  /\ FamiliesInv
  /\ HistoriesInv
  /\ ExchangedIsRevoked
  /\ FamilyIsLineage

\* Handler r may still add a token to family f.
CanExtend(r, f) ==
  /\ tok[r] # NoToken
  /\ family[tok[r]] = f
  /\ pc[r] \in {RevokeOld, Create} \/ (pc[r] = FindUser /\ active[usr[r]])

\* Family f can gain no token any more: none of its tokens is accepted and no
\* rotation of it is under way.
Sealed(f) ==
  /\ \A r \in Request : ~CanExtend(r, f)
  /\ active[owner[f]] => \A t \in Live : family[t] # f

IsFamily(f) == family[f] = f

Phase(f) == IF ~IsFamily(f) THEN "unborn"
            ELSE IF Sealed(f) THEN "sealed" ELSE "open"

\* The sessions implement the life cycle of families: a family that was logged
\* out, revoked on reuse or whose account was deactivated is closed for good as
\* soon as the rotations in flight have ended.
Lifecycle == INSTANCE FamilyLifecycle WITH
  Family  <- Token,
  phase   <- [f \in Token |-> Phase(f)],
  members <- [f \in Token |-> IF IsFamily(f) THEN Members(f) ELSE {}]

FamilyLifecycleHolds == Lifecycle!Spec

\* A session has at most one usable token: rotation is linear while its refreshes do
\* not overlap, as the single refreshPromise of api.ts sees to within one tab,
\* whatever else runs and fails meanwhile.
OneLiveTokenPerFamily ==
  \A s, t \in Live : family[s] = family[t] /\ family[s] \notin overlapped => s = t

\* A family in which reuse was detected and whose refreshes never overlapped has no
\* live token, for good.
ReuseKillsSerialFamily ==
  \A t \in Live : family[t] \notin reused \ overlapped

\* What makes these two inductive: a rotation in flight owns its family.  Before it
\* revokes the old row no other token of the family is live, after that none is, and
\* it never runs in a family already revoked.
RotationOwnsFamily ==
  \A r \in Request : tok[r] # NoToken /\ family[tok[r]] \notin overlapped =>
    /\ \A q \in Request \ {r} : ~Works(q, family[tok[r]])
    /\ pc[r] \in {FindUser, RevokeOld} =>
         \A t \in Live : family[t] = family[tok[r]] => t = tok[r]
    /\ pc[r] = Create => \A t \in Live : family[t] # family[tok[r]]
    /\ pc[r] \in {FindUser, RevokeOld, Create} => family[tok[r]] \notin reused

SerialInv ==
  /\ SessionsInv
  /\ OneLiveTokenPerFamily
  /\ ReuseKillsSerialFamily
  /\ RotationOwnsFamily

\* schema.prisma: "reuse detection invalidates whole family".  A family in which
\* reuse was detected has no live token.
ReusedFamilyIsDead == \A t \in Live : family[t] \notin reused
=============================================================================
