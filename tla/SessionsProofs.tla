---------------------------- MODULE SessionsProofs ----------------------------
(***************************************************************************)
(* Theorems about Sessions and about Browser, for any sets of tokens,      *)
(* accounts, concurrent requests and tabs.                                 *)
(***************************************************************************)
EXTENDS Browser, TLAPS

\* Type correctness of one step, action by action.
LEMMA TypeStep == ASSUME SessionsInv, [Next]_vars PROVE TypeOK'
<1> TypeOK
  BY DEF SessionsInv
<1> USE DEF TypeOK
<1>1. ASSUME NEW r \in Request, NEW u \in User, Login(r, u) \/ OAuthLogin(r, u)
      PROVE TypeOK'
  BY <1>1 DEF Login, OAuthLogin, StartSession, Goto, PC, dbVars, histVars
<1>2. ASSUME NEW r \in Request, NEW t \in Token, RefreshLookup(r, t)
      PROVE TypeOK'
  <2>1. family[t] \in Token
    BY <1>2 DEF RefreshLookup, Stored, SessionsInv, FamiliesInv
  <2>2. QED
    BY <1>2, <2>1 DEF RefreshLookup, Branch, Goto, PC, dbVars
<1>3. ASSUME NEW r \in Request, RefreshRevokeFamily(r)
      PROVE TypeOK'
  <2>1. family[tok[r]] \in Token
    BY <1>3 DEF RefreshRevokeFamily, ReuseRevokes, SessionsInv, HandlersInv, FamiliesInv, RevokeFamily, Idle, FindUser, RevokeOld, Create
  <2>2. QED
    BY <1>3, <2>1 DEF RefreshRevokeFamily, ReuseRevokes, Release, PC
<1>4. ASSUME NEW r \in Request, RefreshFindUser(r)
      PROVE TypeOK'
  BY <1>4 DEF RefreshFindUser, Accepts, Release, Goto, PC, dbVars, histVars
<1>5. ASSUME NEW r \in Request, RefreshRevokeOld(r)
      PROVE TypeOK'
  BY <1>5 DEF RefreshRevokeOld, Goto, PC, histVars
<1>6. ASSUME NEW r \in Request, IssueTokens(r)
      PROVE TypeOK'
  BY <1>6 DEF IssueTokens, FamilyFor, Release, PC, Stored
<1>7. ASSUME NEW t \in Token, Logout(t) \/ Expire(t)
      PROVE TypeOK'
  BY <1>7 DEF Logout, Expire, reqVars, histVars
<1>8. ASSUME NEW u \in User, Deactivate(u)
      PROVE TypeOK'
  BY <1>8 DEF Deactivate, reqVars, histVars
<1>9. ASSUME NEW r \in Request, Fail(r)
      PROVE TypeOK'
  BY <1>9 DEF Fail, Release, PC, dbVars, histVars
<1>10. CASE UNCHANGED vars
  BY <1>10 DEF vars, dbVars, reqVars, histVars
<1>11. QED
  BY <1>1, <1>2, <1>3, <1>4, <1>5, <1>6, <1>7, <1>8, <1>9, <1>10
     DEF Next, HandlerStep

\* The inductive step, one action at a time.
LEMMA InvStep == ASSUME SessionsInv, [Next]_vars PROVE SessionsInv'
<1> DEFINE Goal == /\ HandlersInv'
                   /\ FamiliesInv'
                   /\ HistoriesInv'
                   /\ ExchangedIsRevoked'
                   /\ FamilyIsLineage'
<1> USE NoTokenAssumption
        DEF TypeOK, HandlersInv, FamiliesInv, HistoriesInv, ExchangedIsRevoked,
            FamilyIsLineage, Stored, PC, Idle, FindUser, RevokeOld, Create,
            RevokeFamily
<1>a. /\ TypeOK /\ HandlersInv /\ FamiliesInv
      /\ HistoriesInv /\ ExchangedIsRevoked /\ FamilyIsLineage
  BY DEF SessionsInv
<1>b. TypeOK'
  BY TypeStep
<1>1. ASSUME NEW r \in Request, NEW u \in User, Login(r, u) \/ OAuthLogin(r, u)
      PROVE Goal
  BY <1>a, <1>1 DEF Login, OAuthLogin, StartSession, Goto, dbVars, histVars
<1>2. ASSUME NEW r \in Request, NEW t \in Token, RefreshLookup(r, t)
      PROVE Goal
  BY <1>a, <1>2 DEF RefreshLookup, Branch, Goto, dbVars, histVars
<1>3. ASSUME NEW r \in Request, RefreshRevokeFamily(r)
      PROVE Goal
  BY <1>a, <1>3 DEF RefreshRevokeFamily, ReuseRevokes, Release, Live
<1>4. ASSUME NEW r \in Request, RefreshFindUser(r)
      PROVE Goal
  BY <1>a, <1>4 DEF RefreshFindUser, Accepts, Release, Goto, dbVars, histVars
<1>5. ASSUME NEW r \in Request, RefreshRevokeOld(r)
      PROVE Goal
  BY <1>a, <1>5 DEF RefreshRevokeOld, Goto, histVars
<1>6. ASSUME NEW r \in Request, IssueTokens(r)
      PROVE Goal
  BY <1>a, <1>6 DEF IssueTokens, FamilyFor, Release
<1>7. ASSUME NEW t \in Token, Logout(t) \/ Expire(t)
      PROVE Goal
  BY <1>a, <1>7 DEF Logout, Expire, reqVars, histVars
<1>8. ASSUME NEW u \in User, Deactivate(u)
      PROVE Goal
  BY <1>a, <1>8 DEF Deactivate, reqVars, histVars
<1>9. ASSUME NEW r \in Request, Fail(r)
      PROVE Goal
  BY <1>a, <1>9 DEF Fail, Release, dbVars, histVars
<1>10. ASSUME UNCHANGED vars
       PROVE Goal
  <2>1. UNCHANGED <<status, owner, family, pc, tok, usr, successors, reused>>
    BY <1>10 DEF vars, dbVars, reqVars, histVars
  <2>2. QED
    BY <1>a, <2>1
<1> HIDE DEF Goal, HandlersInv, FamiliesInv, HistoriesInv, ExchangedIsRevoked,
             FamilyIsLineage
<1>11. Goal
  BY <1>1, <1>2, <1>3, <1>4, <1>5, <1>6, <1>7, <1>8, <1>9, <1>10
     DEF Next, HandlerStep
<1>12. QED
  BY <1>b, <1>11 DEF Goal, SessionsInv

LEMMA InvInit == Init => SessionsInv
  BY NoTokenAssumption
     DEF Init, SessionsInv, TypeOK, HandlersInv, FamiliesInv, HistoriesInv,
         ExchangedIsRevoked, FamilyIsLineage, Stored, PC, Idle, FindUser,
         RevokeOld, Create, RevokeFamily

\* The inductive invariant of Sessions.
THEOREM SessionsInvariant == Spec => []SessionsInv
  BY InvInit, InvStep, PTL DEF Spec

\* The tables and the handlers' locals keep their types.
THEOREM TypeCorrect == Spec => []TypeOK
  BY SessionsInvariant, PTL DEF SessionsInv

\* A token that was exchanged is revoked from then on, whatever the concurrent
\* requests and failures: issueTokens runs after the update that revokes.
THEOREM ExchangedTokensAreRevoked == Spec => []ExchangedIsRevoked
  BY SessionsInvariant, PTL DEF SessionsInv

\* Every token descends from a token of its own family and account, so the
\* revocation by family reaches the whole lineage of a reused token.
THEOREM FamiliesAreLineages == Spec => []FamilyIsLineage
  BY SessionsInvariant, PTL DEF SessionsInv

-----------------------------------------------------------------------------
(* Sessions implements FamilyLifecycle. *)

\* A family stays a family, and a step adds at most one token to it.
LEMMA MembersStep ==
  ASSUME SessionsInv, [Next]_vars, NEW f \in Token
  PROVE  \/ IsFamily(f)' = IsFamily(f) /\ Members(f)' = Members(f)
         \/ /\ IsFamily(f)'
            /\ IsFamily(f) \/ Members(f) = {}
            /\ \E t \in Token \ Members(f) : Members(f)' = Members(f) \cup {t}
<1> DEFINE Same == IsFamily(f)' = IsFamily(f) /\ Members(f)' = Members(f)
           Gain == /\ IsFamily(f)'
                   /\ IsFamily(f) \/ Members(f) = {}
                   /\ \E t \in Token \ Members(f) :
                        Members(f)' = Members(f) \cup {t}
<1> USE NoTokenAssumption DEF IsFamily, Members, Stored
<1>a. TypeOK /\ HandlersInv /\ FamiliesInv
  BY DEF SessionsInv
<1>1. ASSUME UNCHANGED <<status, family>> PROVE Same
  BY <1>1
<1>2. ASSUME NEW r \in Request, RefreshRevokeFamily(r) PROVE Same
  BY <1>a, <1>2 DEF RefreshRevokeFamily, ReuseRevokes, Live, TypeOK
<1>3. ASSUME NEW r \in Request, RefreshRevokeOld(r) PROVE Same
  BY <1>a, <1>3
     DEF RefreshRevokeOld, TypeOK, HandlersInv, Idle, FindUser, RevokeOld, Create,
         RevokeFamily
<1>4. ASSUME NEW t \in Token, Logout(t) PROVE Same
  BY <1>a, <1>4 DEF Logout, TypeOK
<1>5. ASSUME NEW r \in Request, IssueTokens(r) PROVE Same \/ Gain
  <2>1. PICK t \in Token \ Stored :
          /\ status' = [status EXCEPT ![t] = "live"]
          /\ family' = [family EXCEPT
               ![t] = IF tok[r] = NoToken THEN t ELSE family[tok[r]]]
    BY <1>5 DEF IssueTokens, FamilyFor
  <2>2. tok[r] # NoToken => family[tok[r]] # t /\ IsFamily(family[tok[r]])
    BY <1>a, <2>1 DEF HandlersInv, FamiliesInv, TypeOK
  <2>3. CASE family'[t] = f
    <3>1. Members(f)' = Members(f) \cup {t}
      BY <1>a, <2>1, <2>3 DEF TypeOK
    <3>2. IsFamily(f)' /\ (IsFamily(f) \/ Members(f) = {})
      BY <1>a, <2>1, <2>2, <2>3 DEF TypeOK, FamiliesInv
    <3>3. t \notin Members(f)
      BY <2>1
    <3>4. QED
      BY <3>1, <3>2, <3>3
  <2>4. CASE family'[t] # f
    BY <1>a, <2>1, <2>2, <2>4 DEF TypeOK, FamiliesInv
  <2>5. QED
    BY <2>3, <2>4
<1>6. ASSUME NEW r \in Request, NEW u \in User, Login(r, u) \/ OAuthLogin(r, u)
      PROVE  Same
  BY <1>1, <1>6 DEF Login, OAuthLogin, StartSession, dbVars
<1>7. ASSUME NEW r \in Request, NEW t \in Token, RefreshLookup(r, t)
      PROVE  Same
  BY <1>1, <1>7 DEF RefreshLookup, Branch, dbVars
<1>8. ASSUME NEW r \in Request, RefreshFindUser(r) \/ Fail(r)
      PROVE  Same
  BY <1>1, <1>8 DEF RefreshFindUser, Accepts, Fail, dbVars
<1>9. ASSUME NEW t \in Token, Expire(t)
      PROVE  Same
  BY <1>1, <1>9 DEF Expire
<1>10. ASSUME NEW u \in User, Deactivate(u)
       PROVE  Same
  BY <1>1, <1>10 DEF Deactivate
<1>11. ASSUME UNCHANGED vars
       PROVE  Same
  BY <1>1, <1>11 DEF vars, dbVars
<1> HIDE DEF Same, Gain
<1>12. Same \/ Gain
  BY <1>2, <1>3, <1>4, <1>5, <1>6, <1>7, <1>8, <1>9, <1>10, <1>11
     DEF Next, HandlerStep
<1>13. QED
  BY <1>12 DEF Same, Gain

\* A sealed family stays sealed and gains nothing.
LEMMA SealedStep ==
  ASSUME SessionsInv, [Next]_vars, NEW f \in Token, IsFamily(f), Sealed(f)
  PROVE  Sealed(f)' /\ Members(f)' = Members(f)
<1> USE NoTokenAssumption
        DEF Sealed, CanExtend, Live, Members, Stored, IsFamily, TypeOK, HandlersInv,
            FamiliesInv, Idle, FindUser, RevokeOld, Create, RevokeFamily
<1>a. TypeOK /\ HandlersInv /\ FamiliesInv
  BY DEF SessionsInv
<1> DEFINE Goal == Sealed(f)' /\ Members(f)' = Members(f)
<1>1. ASSUME NEW r \in Request, NEW u \in User, Login(r, u) \/ OAuthLogin(r, u)
      PROVE Goal
  BY <1>a, <1>1 DEF Login, OAuthLogin, StartSession, Goto, dbVars, histVars
<1>2. ASSUME NEW r \in Request, NEW t \in Token, RefreshLookup(r, t)
      PROVE Goal
  BY <1>a, <1>2 DEF RefreshLookup, Branch, Goto, dbVars, histVars
<1>3. ASSUME NEW r \in Request, RefreshRevokeFamily(r)
      PROVE Goal
  BY <1>a, <1>3 DEF RefreshRevokeFamily, ReuseRevokes, Release
<1>4. ASSUME NEW r \in Request, RefreshFindUser(r)
      PROVE Goal
  BY <1>a, <1>4 DEF RefreshFindUser, Accepts, Release, Goto, dbVars, histVars
<1>5. ASSUME NEW r \in Request, RefreshRevokeOld(r)
      PROVE Goal
  BY <1>a, <1>5 DEF RefreshRevokeOld, Goto, histVars
<1>6. ASSUME NEW r \in Request, IssueTokens(r)
      PROVE Goal
  BY <1>a, <1>6 DEF IssueTokens, FamilyFor, Release
<1>7. ASSUME NEW t \in Token, Logout(t) \/ Expire(t)
      PROVE Goal
  BY <1>a, <1>7 DEF Logout, Expire, reqVars, histVars
<1>8. ASSUME NEW u \in User, Deactivate(u)
      PROVE Goal
  BY <1>a, <1>8 DEF Deactivate, reqVars, histVars
<1>9. ASSUME NEW r \in Request, Fail(r)
      PROVE Goal
  BY <1>a, <1>9 DEF Fail, Release, dbVars, histVars
<1>10. ASSUME UNCHANGED vars
       PROVE Goal
  <2>1. UNCHANGED <<active, status, owner, family, pc, tok, usr>>
    BY <1>10 DEF vars, dbVars, reqVars
  <2>2. QED
    BY <1>a, <2>1
<1> HIDE DEF Goal, Sealed, Members
<1>11. Goal
  BY <1>1, <1>2, <1>3, <1>4, <1>5, <1>6, <1>7, <1>8, <1>9, <1>10
     DEF Next, HandlerStep
<1>12. QED
  BY <1>11 DEF Goal

\* The initial states map to initial states ...
LEMMA LifecycleInit == Init => Lifecycle!Init
  BY NoTokenAssumption DEF Init, Lifecycle!Init, Phase, IsFamily

\* ... and every step maps to a step of the life cycle.
LEMMA LifecycleStep ==
  ASSUME SessionsInv, [Next]_vars
  PROVE  Lifecycle!Next
<1> DEFINE ph == [f \in Token |-> Phase(f)]
           mb == [f \in Token |-> IF IsFamily(f) THEN Members(f) ELSE {}]
<1>1. ASSUME NEW f \in Token
      PROVE  \/ /\ mb'[f] = mb[f]
                /\ ph'[f] \in {ph[f], "sealed"}
                /\ ph[f] = "unborn" => ph'[f] = "unborn"
             \/ /\ ph[f] \in {"unborn", "open"}
                /\ \E t \in Token \ mb[f] : mb'[f] = mb[f] \cup {t}
                /\ ph'[f] \in {"open", "sealed"}
  <2>1. /\ mb[f] = IF IsFamily(f) THEN Members(f) ELSE {}
        /\ mb'[f] = IF IsFamily(f)' THEN Members(f)' ELSE {}
        /\ ph[f] = Phase(f)
        /\ ph'[f] = Phase(f)'
    OBVIOUS
  <2>2. CASE IsFamily(f) /\ Sealed(f)
    <3>1. Sealed(f)' /\ Members(f)' = Members(f)
      BY <2>2, SealedStep
    <3>2. IsFamily(f)'
      BY <2>2, MembersStep
    <3>3. QED
      BY <2>1, <2>2, <3>1, <3>2 DEF Phase
  <2>3. CASE ~(IsFamily(f) /\ Sealed(f))
    <3>1. CASE IsFamily(f)' = IsFamily(f) /\ Members(f)' = Members(f)
      BY <2>1, <2>3, <3>1 DEF Phase
    <3>2. CASE /\ IsFamily(f)'
               /\ IsFamily(f) \/ Members(f) = {}
               /\ \E t \in Token \ Members(f) :
                    Members(f)' = Members(f) \cup {t}
      BY <2>1, <2>3, <3>2 DEF Phase
    <3>3. QED
      BY <3>1, <3>2, MembersStep
  <2>4. QED
    BY <2>2, <2>3
<1>2. ph' \in [Token -> {"unborn", "open", "sealed"}]
  BY DEF Phase
<1>3. mb' \in [Token -> SUBSET Token]
  BY DEF Members, Stored
<1> HIDE DEF ph, mb
<1>4. QED
  BY <1>1, <1>2, <1>3 DEF Lifecycle!Next, Lifecycle!Keep, Lifecycle!Grow, ph, mb

\* Sessions implements FamilyLifecycle: a logout, a detected reuse or the
\* deactivation of the account closes a family for good once the rotations in
\* flight have ended, and no later request revives it.
THEOREM SessionsImplementFamilyLifecycle == Spec => FamilyLifecycleHolds
<1>1. SessionsInv /\ [Next]_vars => Lifecycle!Next
  BY LifecycleStep
<1>2. QED
  BY <1>1, LifecycleInit, SessionsInvariant, PTL
     DEF Spec, FamilyLifecycleHolds, Lifecycle!Spec

-----------------------------------------------------------------------------
(* One refresh of a session at a time. *)

\* The inductive step for sessions whose refreshes did not overlap, one action at
\* a time.
LEMMA SerialStep ==
  ASSUME SerialInv, [Next]_vars
  PROVE  SerialInv'
<1> DEFINE Goal == /\ OneLiveTokenPerFamily'
                   /\ ReuseKillsSerialFamily'
                   /\ RotationOwnsFamily'
<1>a. /\ TypeOK /\ HandlersInv /\ FamiliesInv /\ HistoriesInv
      /\ OneLiveTokenPerFamily /\ ReuseKillsSerialFamily
      /\ RotationOwnsFamily /\ SessionsInv
  BY DEF SerialInv, SessionsInv
<1>b. SessionsInv'
  BY <1>a, InvStep
<1> USE NoTokenAssumption
        DEF TypeOK, HandlersInv, FamiliesInv, HistoriesInv, Works,
            OneLiveTokenPerFamily, ReuseKillsSerialFamily, RotationOwnsFamily, Live,
            Stored, Idle, FindUser, RevokeOld, Create, RevokeFamily
<1>1. ASSUME NEW r \in Request, NEW u \in User, Login(r, u) \/ OAuthLogin(r, u)
      PROVE Goal
  BY <1>a, <1>1 DEF Login, OAuthLogin, StartSession, Goto, dbVars, histVars
<1>2. ASSUME NEW r \in Request, NEW t \in Token, RefreshLookup(r, t)
      PROVE Goal
  BY <1>a, <1>2 DEF RefreshLookup, Branch, Goto, dbVars, histVars
<1>3. ASSUME NEW r \in Request, RefreshRevokeFamily(r)
      PROVE Goal
  BY <1>a, <1>3 DEF RefreshRevokeFamily, ReuseRevokes, Release
<1>4. ASSUME NEW r \in Request, RefreshFindUser(r)
      PROVE Goal
  BY <1>a, <1>4 DEF RefreshFindUser, Accepts, Release, Goto, dbVars, histVars
<1>5. ASSUME NEW r \in Request, RefreshRevokeOld(r)
      PROVE Goal
  BY <1>a, <1>5 DEF RefreshRevokeOld, Goto, histVars
<1>6. ASSUME NEW r \in Request, IssueTokens(r)
      PROVE Goal
  BY <1>a, <1>6 DEF IssueTokens, FamilyFor, Release
<1>7. ASSUME NEW t \in Token, Logout(t) \/ Expire(t)
      PROVE Goal
  BY <1>a, <1>7 DEF Logout, Expire, reqVars, histVars
<1>8. ASSUME NEW u \in User, Deactivate(u)
      PROVE Goal
  BY <1>a, <1>8 DEF Deactivate, reqVars, histVars
<1>9. ASSUME NEW r \in Request, Fail(r)
      PROVE Goal
  BY <1>a, <1>9 DEF Fail, Release, dbVars, histVars
<1>10. ASSUME UNCHANGED vars
       PROVE Goal
  <2>1. UNCHANGED <<status, family, pc, tok, usr, reused, overlapped>>
    BY <1>10 DEF vars, dbVars, reqVars, histVars
  <2>2. QED
    BY <1>a, <2>1
<1> HIDE DEF Goal, OneLiveTokenPerFamily, ReuseKillsSerialFamily,
             RotationOwnsFamily
<1>11. Goal
  BY <1>1, <1>2, <1>3, <1>4, <1>5, <1>6, <1>7, <1>8, <1>9, <1>10
     DEF Next, HandlerStep
<1>12. QED
  BY <1>b, <1>11 DEF Goal, SerialInv

LEMMA SerialInit == Init => SerialInv
<1> SUFFICES ASSUME Init PROVE SerialInv
  OBVIOUS
<1>1. SessionsInv
  BY InvInit
<1>2. QED
  BY <1>1 DEF Init, SerialInv, OneLiveTokenPerFamily,
              ReuseKillsSerialFamily, RotationOwnsFamily, Live

\* The inductive invariant of sessions whose refreshes do not overlap.
THEOREM SerialInvariant == Spec => []SerialInv
  BY SerialInit, SerialStep, PTL DEF Spec

\* A session whose refreshes do not overlap has at most one usable token.
THEOREM SerialSessionsAreLinear == Spec => []OneLiveTokenPerFamily
  BY SerialInvariant, PTL DEF SerialInv

\* And a detected reuse leaves no usable token in the family, for good.
THEOREM SerialReuseKillsFamily == Spec => []ReuseKillsSerialFamily
  BY SerialInvariant, PTL DEF SerialInv

\* The promise of the reuse detection (auth.service.ts: "kill the family") is kept by
\* every behaviour in which no two refreshes of one session overlap, whatever else does.
THEOREM ReuseKillsWithoutOverlap == Spec => [](overlapped = {} => ReusedFamilyIsDead)
<1>1. ReuseKillsSerialFamily => (overlapped = {} => ReusedFamilyIsDead)
  BY DEF ReuseKillsSerialFamily, ReusedFamilyIsDead
<1>2. QED
  BY <1>1, SerialReuseKillsFamily, PTL

-----------------------------------------------------------------------------
(* The tabs of one browser. *)

\* The inductive invariant of Browser without that of Sessions and the types.
Core ==
  /\ WireInv /\ AnswersInv /\ OneRenewal /\ RenewalsGoWell /\ RenewalsOfLeft
  /\ PartingInv /\ SessionLaws

\* The browser does nothing to the sessions that a client may not do.
LEMMA SessionsStep == ASSUME BrowserInv, [BrowserNext]_allVars PROVE [Next]_vars
<1>1. cookie \in Token \cup {NoToken} /\ sent \in [Tab -> Token \cup {NoToken}]
  BY DEF BrowserInv, BrowserTypeOK
<1>2. ASSUME NEW t \in Tab, UserStep(t) PROVE [Next]_vars
  BY <1>1, <1>2
  DEF UserStep, Open, PageUnauthorized, SubmitRefusedLogin, SignOut, SubmitLogin, SubmitSignup,
      OAuthCallback, Next, Tab, OAuthLogin
<1>3. ASSUME NEW t \in Tab, Arrive(t) PROVE [Next]_vars
  BY <1>1, <1>3 DEF Arrive, Next, Tab, Stored
<1>4. ASSUME NEW t \in Tab, Serve(t) \/ ServerFails(t) \/ AnswerLost(t) PROVE [Next]_vars
  BY <1>4 DEF Serve, ServerFails, AnswerLost, Next, Tab
<1>5. ASSUME NEW t \in Tab, Answered(t) PROVE [Next]_vars
  BY <1>5
  DEF Answered, GetTokens, Renewed, NotRenewed, LoadUnauthorized, Throw, ShowAccount, MeUnauthorized,
      LoggedOut
<1>6. ASSUME NEW t \in Tab, LogoutArrives(t) PROVE [Next]_vars
  <2>1. parting[t] \in Token
    BY <1>6 DEF LogoutArrives, BrowserInv, BrowserTypeOK
  <2>2. QED
    BY <1>6, <2>1 DEF LogoutArrives, LogoutOf, Next
<1>7. ASSUME NEW u \in User, Deactivate(u) PROVE [Next]_vars
  BY <1>7 DEF Next
<1>8. QED
  BY <1>2, <1>3, <1>4, <1>5, <1>6, <1>7 DEF BrowserNext, allVars

\* The row of a token stays, in its family.
LEMMA RowsStay ==
  ASSUME SessionsInv, [Next]_vars, NEW x \in Stored
  PROVE  x \in Stored' /\ family'[x] = family[x]
<1> USE DEF Stored, TypeOK, HandlersInv
<1>a. TypeOK /\ HandlersInv
  BY DEF SessionsInv
<1>1. ASSUME UNCHANGED <<status, family>> PROVE x \in Stored' /\ family'[x] = family[x]
  BY <1>1
<1>2. ASSUME NEW r \in Request, HandlerStep(r) PROVE x \in Stored' /\ family'[x] = family[x]
  <2>1. CASE RefreshRevokeFamily(r)
    BY <1>a, <2>1 DEF RefreshRevokeFamily
  <2>2. CASE RefreshFindUser(r)
    BY <1>1, <2>2 DEF RefreshFindUser, dbVars
  <2>3. CASE RefreshRevokeOld(r)
    BY <1>a, <2>3 DEF RefreshRevokeOld
  <2>4. CASE IssueTokens(r)
    BY <1>a, <2>4 DEF IssueTokens
  <2>5. QED
    BY <1>2, <2>1, <2>2, <2>3, <2>4 DEF HandlerStep
<1>3. ASSUME NEW t \in Token, Logout(t) PROVE x \in Stored' /\ family'[x] = family[x]
  BY <1>a, <1>3 DEF Logout
<1>4. QED
  BY <1>1, <1>2, <1>3
  DEF Next, vars, dbVars, Fail, Login, OAuthLogin, StartSession, RefreshLookup, Expire, Deactivate

\* fetch('/auth/refresh') with the browser's cookie, when the tab has no answer to await.
LEMMA AskStep ==
  ASSUME BrowserInv, NEW t \in Tab, wire[t] \in {Quiet, Refused}, Ask(t, cookie),
         UNCHANGED <<vars, cookie, parting, left>>,
         \A q \in Tab \ {t} : call'[q] = call[q], call'[t] \notin {Closed, Rest}
  PROVE  Core'
<1> USE NoTokenAssumption, AnswersAssumption
    DEF Quiet, Travelling, Serving, Refused, Failed, Tab
<1>a. /\ SessionLostForACause /\ LogoutEndsTheSession /\ ReuseHasACause
      /\ BrowserTypeOK /\ WireInv /\ AnswersInv /\ OneRenewal /\ RenewalsGoWell /\ RenewalsOfLeft
      /\ PartingInv
  BY DEF BrowserInv, SessionLaws
<1>b. UNCHANGED <<status, family, pc, tok, reused, overlapped>>
  BY DEF vars, dbVars, reqVars, histVars
<1>c. /\ wire' = [wire EXCEPT ![t] = Travelling]
      /\ sent' = [sent EXCEPT ![t] = cookie]
      /\ troubled \subseteq troubled' /\ troubled' \subseteq troubled \cup FamilyIn(cookie)
      /\ (\E q \in Tab \ {t} : SameSession(sent[q], cookie)) => FamilyIn(cookie) \subseteq troubled'
      /\ (\E q \in Tab : SameSession(parting[q], cookie)) => FamilyIn(cookie) \subseteq troubled'
  BY DEF Ask
<1>1. WireInv'
  BY <1>a, <1>b, <1>c DEF WireInv, BrowserTypeOK, Stored
<1>2. AnswersInv'
  BY <1>a, <1>b, <1>c DEF AnswersInv, BrowserTypeOK, SameSession
<1>3. OneRenewal'
  BY <1>a, <1>b, <1>c DEF OneRenewal, BrowserTypeOK, SameSession, FamilyIn
<1>4. RenewalsGoWell'
  BY <1>a, <1>b, <1>c
  DEF RenewalsGoWell, BrowserTypeOK, SameSession, FamilyIn, OneRenewal, SessionLostForACause, WireInv
<1>5. RenewalsOfLeft'
  BY <1>a, <1>b, <1>c DEF RenewalsOfLeft, BrowserTypeOK, SameSession, FamilyIn
<1>6. PartingInv'
  BY <1>a, <1>b, <1>c
  DEF PartingInv, BrowserTypeOK, SameSession, FamilyIn, Live, WireInv
<1>7. SessionLaws'
  BY <1>a, <1>b, <1>c
  DEF SessionLaws, SessionLostForACause, LogoutEndsTheSession, ReuseHasACause, BrowserTypeOK,
      SameSession, FamilyIn, Live
<1>8. QED
  BY <1>1, <1>2, <1>3, <1>4, <1>5, <1>6, <1>7 DEF Core

\* A call of a tab ends, without an answer that the browser keeps.
LEMMA SettleStep ==
  ASSUME BrowserInv, NEW t \in Tab, wire[t] \in {Quiet, Refused, Failed}, Settle(t),
         UNCHANGED <<vars, cookie, parting, left>>, \A q \in Tab \ {t} : call'[q] = call[q]
  PROVE  Core'
<1> USE NoTokenAssumption, AnswersAssumption
    DEF Quiet, Travelling, Serving, Refused, Failed, Tab
<1>a. /\ SessionLostForACause /\ LogoutEndsTheSession /\ ReuseHasACause
      /\ BrowserTypeOK /\ WireInv /\ AnswersInv /\ OneRenewal /\ RenewalsGoWell /\ RenewalsOfLeft
      /\ PartingInv
  BY DEF BrowserInv, SessionLaws
<1>b. UNCHANGED <<status, family, pc, tok, reused, overlapped>>
  BY DEF vars, dbVars, reqVars, histVars
<1>c. /\ wire' = [wire EXCEPT ![t] = Quiet]
      /\ sent' = [sent EXCEPT ![t] = NoToken]
      /\ troubled' = troubled
  BY DEF Settle
<1>1. WireInv'
  BY <1>a, <1>b, <1>c DEF WireInv, BrowserTypeOK, Stored
<1>2. AnswersInv'
  BY <1>a, <1>b, <1>c DEF AnswersInv, BrowserTypeOK, SameSession
<1>3. OneRenewal'
  BY <1>a, <1>b, <1>c DEF OneRenewal, BrowserTypeOK, SameSession
<1>4. RenewalsGoWell'
  BY <1>a, <1>b, <1>c DEF RenewalsGoWell, BrowserTypeOK
<1>5. RenewalsOfLeft'
  BY <1>a, <1>b, <1>c DEF RenewalsOfLeft, BrowserTypeOK
<1>6. PartingInv'
  BY <1>a, <1>b, <1>c
  DEF PartingInv, BrowserTypeOK, SameSession, FamilyIn, Live, WireInv
<1>7. SessionLostForACause'
  <2>1. CASE SameSession(sent[t], cookie)
    BY <1>a, <1>b, <1>c, <2>1
    DEF SessionLostForACause, BrowserTypeOK, SameSession, OneRenewal, RenewalsGoWell, WireInv
  <2>2. CASE ~SameSession(sent[t], cookie)
    BY <1>a, <1>b, <1>c, <2>2 DEF SessionLostForACause, BrowserTypeOK, SameSession
  <2>3. QED
    BY <2>1, <2>2
<1>8. LogoutEndsTheSession' /\ ReuseHasACause'
  BY <1>a, <1>b, <1>c DEF LogoutEndsTheSession, ReuseHasACause, Live
<1>9. QED
  BY <1>1, <1>2, <1>3, <1>4, <1>5, <1>6, <1>7, <1>8 DEF Core, SessionLaws

\* A login, a signup or a callback reaches the server.
LEMMA StartStep ==
  ASSUME BrowserInv, NEW t \in Tab, NEW u \in User, wire[t] = Quiet, StartSession(t, u),
         wire' = [wire EXCEPT ![t] = Serving], UNCHANGED <<cookie, sent, parting, troubled, left>>,
         \A q \in Tab \ {t} : call'[q] = call[q], call'[t] \notin {Closed, Rest}
  PROVE  Core'
<1> USE NoTokenAssumption, AnswersAssumption
    DEF Quiet, Travelling, Serving, Refused, Failed, Tab
<1>a. /\ SessionLostForACause /\ LogoutEndsTheSession /\ ReuseHasACause
      /\ BrowserTypeOK /\ WireInv /\ AnswersInv /\ OneRenewal /\ RenewalsGoWell /\ RenewalsOfLeft
      /\ PartingInv
  BY DEF BrowserInv, SessionLaws
<1>b. /\ UNCHANGED <<status, family, tok, reused, overlapped>>
      /\ pc[t] = Idle /\ pc' = [pc EXCEPT ![t] = Create]
  BY DEF StartSession, Goto, dbVars, histVars
<1>c. tok[t] = NoToken /\ pc \in [Request -> PC] /\ tok \in [Request -> Token \cup {NoToken}]
  BY <1>b DEF BrowserInv, SerialInv, SessionsInv, HandlersInv, TypeOK
<1>d. sent[t] = NoToken
  BY <1>a DEF WireInv
<1> USE DEF Idle, Create, FindUser, RevokeOld, RevokeFamily
<1>1. WireInv'
  BY <1>a, <1>b, <1>c, <1>d
  DEF WireInv, BrowserTypeOK, Stored
<1>2. AnswersInv'
  BY <1>a, <1>b, <1>c, <1>d
  DEF AnswersInv, BrowserTypeOK, SameSession
<1>3. OneRenewal'
  BY <1>a, <1>b, <1>c, <1>d
  DEF OneRenewal, BrowserTypeOK, SameSession
<1>4. RenewalsGoWell'
  BY <1>a, <1>b, <1>c, <1>d
  DEF RenewalsGoWell, BrowserTypeOK
<1>5. RenewalsOfLeft'
  BY <1>a, <1>b, <1>c, <1>d
  DEF RenewalsOfLeft, BrowserTypeOK
<1>6. PartingInv'
  BY <1>a, <1>b, <1>c, <1>d
  DEF PartingInv, BrowserTypeOK, SameSession, FamilyIn, Live, WireInv
<1>7. SessionLaws'
  BY <1>a, <1>b, <1>c, <1>d
  DEF SessionLaws, SessionLostForACause, LogoutEndsTheSession, ReuseHasACause, BrowserTypeOK, SameSession, Live
<1>8. QED
  BY <1>1, <1>2, <1>3, <1>4, <1>5, <1>6, <1>7 DEF Core

\* A refresh reaches the server, which looks its token up or refuses it at once.
LEMMA ArriveStep == ASSUME BrowserInv, NEW t \in Tab, Arrive(t) PROVE Core'
<1> USE NoTokenAssumption, AnswersAssumption
    DEF Quiet, Travelling, Serving, Refused, Failed, Tab
<1>a. /\ SessionLostForACause /\ LogoutEndsTheSession /\ ReuseHasACause
      /\ BrowserTypeOK /\ WireInv /\ AnswersInv /\ OneRenewal /\ RenewalsGoWell /\ RenewalsOfLeft
      /\ PartingInv
  BY DEF BrowserInv, SessionLaws
<1>b. /\ UNCHANGED <<status, family, reused, cookie, call, sent, parting, troubled, left>>
      /\ wire[t] = Travelling
  BY DEF Arrive, RefreshLookup, logoutVars, vars, dbVars, reqVars, histVars
<1>c. pc \in [Request -> PC] /\ tok \in [Request -> Token \cup {NoToken}]
  BY DEF BrowserInv, SerialInv, SessionsInv, TypeOK
<1>d. \/ /\ sent[t] \in Stored /\ wire' = [wire EXCEPT ![t] = Serving]
         /\ pc[t] = Idle /\ pc' = [pc EXCEPT ![t] = Branch(sent[t])]
         /\ tok' = [tok EXCEPT ![t] = sent[t]]
         /\ overlapped' = IF \E q \in Tab \ {t} : Works(q, family[sent[t]])
                          THEN overlapped \cup {family[sent[t]]} ELSE overlapped
      \/ /\ wire' = [wire EXCEPT ![t] = Refused]
         /\ UNCHANGED <<pc, tok, overlapped>>
  BY DEF Arrive, RefreshLookup, Goto, vars, reqVars, histVars
<1>e. \A q \in Tab : tok[q] # NoToken => sent[q] = tok[q]
  BY <1>a DEF WireInv, BrowserInv, SerialInv, SessionsInv, HandlersInv
<1> USE DEF Idle, Create, FindUser, RevokeOld, RevokeFamily
<1>1. WireInv'
  BY <1>a, <1>b, <1>c, <1>d
  DEF WireInv, BrowserTypeOK, Stored, Branch
<1>2. AnswersInv'
  BY <1>a, <1>b, <1>c, <1>d
  DEF AnswersInv, BrowserTypeOK, SameSession
<1>3. OneRenewal'
  <2>1. overlapped' \subseteq troubled
    <3>1. ASSUME NEW q \in Tab \ {t}, Works(q, family[sent[t]]), sent[t] \in Stored
          PROVE  family[sent[t]] \in troubled
      BY <1>a, <1>e, <3>1 DEF OneRenewal, SameSession, Works, Stored
    <3>2. QED
      BY <1>a, <1>d, <3>1 DEF OneRenewal
  <2>2. QED
    BY <1>a, <1>b, <2>1 DEF OneRenewal, SameSession
<1>4. RenewalsGoWell'
  BY <1>a, <1>b, <1>c, <1>d
  DEF RenewalsGoWell, BrowserTypeOK, Branch
<1>5. RenewalsOfLeft'
  <2>1. ASSUME sent[t] \in Stored, family[sent[t]] \in left \ troubled
        PROVE  Branch(sent[t]) = RevokeFamily
    BY <1>a, <2>1 DEF Branch, LogoutEndsTheSession, Live, Stored, BrowserTypeOK, TypeOK
  <2>2. QED
    BY <1>a, <1>b, <1>c, <1>d, <2>1 DEF RenewalsOfLeft, BrowserTypeOK
<1>6. PartingInv'
  BY <1>a, <1>b, <1>c, <1>d
  DEF PartingInv, BrowserTypeOK, SameSession, FamilyIn, Live, WireInv
<1>7. SessionLaws'
  BY <1>a, <1>b, <1>c, <1>d
  DEF SessionLaws, SessionLostForACause, LogoutEndsTheSession, ReuseHasACause, BrowserTypeOK, SameSession, Live
<1>8. QED
  BY <1>1, <1>2, <1>3, <1>4, <1>5, <1>6, <1>7 DEF Core

\* The server or the network fails: the session the refresh used up is troubled.
LEMMA FailStep ==
  ASSUME BrowserInv, NEW t \in Tab, ServerFails(t) \/ AnswerLost(t)
  PROVE  Core'
<1> USE NoTokenAssumption, AnswersAssumption
    DEF Quiet, Travelling, Serving, Refused, Failed, Tab
<1>a. /\ SessionLostForACause /\ LogoutEndsTheSession /\ ReuseHasACause
      /\ BrowserTypeOK /\ WireInv /\ AnswersInv /\ OneRenewal /\ RenewalsGoWell /\ RenewalsOfLeft
      /\ PartingInv
  BY DEF BrowserInv, SessionLaws
<1>b. /\ UNCHANGED <<status, family, reused, overlapped, cookie, call, sent, parting, left>>
      /\ wire[t] \notin {Quiet, Travelling} /\ wire' = [wire EXCEPT ![t] = Failed]
      /\ troubled' = troubled \cup LostBy(t)
      /\ pc'[t] = Idle /\ \A q \in Tab \ {t} : pc'[q] = pc[q] /\ tok'[q] = tok[q]
  BY <1>a DEF ServerFails, AnswerLost, Fail, Release, logoutVars, vars, dbVars, reqVars, histVars,
         WireInv, BrowserTypeOK, TypeOK
<1>c. sent[t] # NoToken => status[sent[t]] \in {"live", "revoked"}
  BY <1>a DEF WireInv, Stored, BrowserTypeOK, TypeOK
<1> USE DEF Idle, Create, FindUser, RevokeOld, RevokeFamily
<1>1. WireInv'
  BY <1>a, <1>b, <1>c
  DEF WireInv, BrowserTypeOK, Stored
<1>2. AnswersInv'
  BY <1>a, <1>b, <1>c
  DEF AnswersInv, BrowserTypeOK, SameSession
<1>3. OneRenewal'
  BY <1>a, <1>b, <1>c
  DEF OneRenewal, BrowserTypeOK, SameSession
<1>4. RenewalsGoWell'
  BY <1>a, <1>b, <1>c
  DEF RenewalsGoWell, BrowserTypeOK, LostBy, FamilyIn
<1>5. RenewalsOfLeft'
  BY <1>a, <1>b, <1>c
  DEF RenewalsOfLeft, BrowserTypeOK
<1>6. PartingInv'
  BY <1>a, <1>b, <1>c
  DEF PartingInv, BrowserTypeOK, SameSession, FamilyIn, Live, WireInv
<1>7. SessionLaws'
  BY <1>a, <1>b, <1>c
  DEF SessionLaws, SessionLostForACause, LogoutEndsTheSession, ReuseHasACause, BrowserTypeOK, SameSession, Live
<1>8. QED
  BY <1>1, <1>2, <1>3, <1>4, <1>5, <1>6, <1>7 DEF Core

\* The browser takes an answer with tokens in.
LEMMA TokensStep ==
  ASSUME BrowserInv, NEW t \in Tab, wire[t] \in Token, cookie' = wire[t], Settle(t),
         UNCHANGED <<vars, parting, left>>, \A q \in Tab \ {t} : call'[q] = call[q]
  PROVE  Core'
<1> USE NoTokenAssumption, AnswersAssumption
    DEF Quiet, Travelling, Serving, Refused, Failed, Tab
<1>a. /\ SessionLostForACause /\ LogoutEndsTheSession /\ ReuseHasACause
      /\ BrowserTypeOK /\ WireInv /\ AnswersInv /\ OneRenewal /\ RenewalsGoWell /\ RenewalsOfLeft
      /\ PartingInv
  BY DEF BrowserInv, SessionLaws
<1>b. UNCHANGED <<status, family, pc, tok, reused, overlapped>>
  BY DEF vars, dbVars, reqVars, histVars
<1>c. /\ wire' = [wire EXCEPT ![t] = Quiet]
      /\ sent' = [sent EXCEPT ![t] = NoToken]
      /\ troubled' = troubled
  BY DEF Settle
<1>1. WireInv'
  BY <1>a, <1>b, <1>c
  DEF WireInv, BrowserTypeOK, Stored
<1>2. AnswersInv'
  BY <1>a, <1>b, <1>c
  DEF AnswersInv, BrowserTypeOK, SameSession
<1>3. OneRenewal'
  BY <1>a, <1>b, <1>c
  DEF OneRenewal, BrowserTypeOK, SameSession, AnswersInv
<1>4. RenewalsGoWell'
  BY <1>a, <1>b, <1>c
  DEF RenewalsGoWell, BrowserTypeOK
<1>5. RenewalsOfLeft'
  BY <1>a, <1>b, <1>c
  DEF RenewalsOfLeft, BrowserTypeOK
<1>6. PartingInv'
  BY <1>a, <1>b, <1>c
  DEF PartingInv, BrowserTypeOK, SameSession, FamilyIn, Live, WireInv
<1>7. SessionLaws'
  BY <1>a, <1>b, <1>c
  DEF SessionLaws, SessionLostForACause, LogoutEndsTheSession, ReuseHasACause, BrowserTypeOK, SameSession, Live, RenewalsGoWell
<1>8. QED
  BY <1>1, <1>2, <1>3, <1>4, <1>5, <1>6, <1>7 DEF Core

\* loadSession, whose renewal succeeded, asks for tokens once more, with the new cookie.
LEMMA AskAgainStep ==
  ASSUME BrowserInv, NEW t \in Tab, wire[t] \in Token, cookie' = wire[t], Ask(t, cookie'),
         UNCHANGED <<vars, call, parting, left>>
  PROVE  Core'
<1> USE NoTokenAssumption, AnswersAssumption
    DEF Quiet, Travelling, Serving, Refused, Failed, Tab
<1>a. /\ SessionLostForACause /\ LogoutEndsTheSession /\ ReuseHasACause
      /\ BrowserTypeOK /\ WireInv /\ AnswersInv /\ OneRenewal /\ RenewalsGoWell /\ RenewalsOfLeft
      /\ PartingInv
  BY DEF BrowserInv, SessionLaws
<1>b. UNCHANGED <<status, family, pc, tok, reused, overlapped>>
  BY DEF vars, dbVars, reqVars, histVars
<1>c. /\ wire' = [wire EXCEPT ![t] = Travelling]
      /\ sent' = [sent EXCEPT ![t] = cookie']
      /\ troubled \subseteq troubled' /\ troubled' \subseteq troubled \cup FamilyIn(cookie')
      /\ (\E q \in Tab \ {t} : SameSession(sent[q], cookie')) => FamilyIn(cookie') \subseteq troubled'
      /\ (\E q \in Tab : SameSession(parting[q], cookie')) => FamilyIn(cookie') \subseteq troubled'
  BY <1>b DEF Ask, SameSession, FamilyIn
<1>1. WireInv'
  BY <1>a, <1>b, <1>c
  DEF WireInv, BrowserTypeOK, Stored
<1>2. AnswersInv'
  BY <1>a, <1>b, <1>c
  DEF AnswersInv, BrowserTypeOK, SameSession
<1>3. OneRenewal'
  BY <1>a, <1>b, <1>c
  DEF OneRenewal, BrowserTypeOK, SameSession, FamilyIn, AnswersInv
<1>4. RenewalsGoWell'
  BY <1>a, <1>b, <1>c
  DEF RenewalsGoWell, BrowserTypeOK, FamilyIn
<1>5. RenewalsOfLeft'
  BY <1>a, <1>b, <1>c
  DEF RenewalsOfLeft, BrowserTypeOK, FamilyIn
<1>6. PartingInv'
  BY <1>a, <1>b, <1>c
  DEF PartingInv, BrowserTypeOK, SameSession, FamilyIn, Live, WireInv
<1>7. SessionLaws'
  BY <1>a, <1>b, <1>c
  DEF SessionLaws, SessionLostForACause, LogoutEndsTheSession, ReuseHasACause, BrowserTypeOK, SameSession, Live, FamilyIn
<1>8. QED
  BY <1>1, <1>2, <1>3, <1>4, <1>5, <1>6, <1>7 DEF Core

\* A logout is sent: the session has one token that can be live, and no refresh of it
\* is under way, or it is troubled.
LEMMA SignOutStep == ASSUME BrowserInv, NEW t \in Tab, SignOut(t) PROVE Core'
<1> USE NoTokenAssumption, AnswersAssumption
    DEF Quiet, Travelling, Serving, Refused, Failed, Tab
<1>a. /\ SessionLostForACause /\ LogoutEndsTheSession /\ ReuseHasACause
      /\ BrowserTypeOK /\ WireInv /\ AnswersInv /\ OneRenewal /\ RenewalsGoWell /\ RenewalsOfLeft
      /\ PartingInv
  BY DEF BrowserInv, SessionLaws
<1>b. /\ UNCHANGED <<status, family, pc, tok, reused, overlapped, cookie, call, sent, wire, left>>
      /\ parting' = [parting EXCEPT ![t] = cookie]
      /\ troubled \subseteq troubled' /\ troubled' \subseteq troubled \cup FamilyIn(cookie)
      /\ (\E q \in Tab : SameSession(sent[q], cookie)) => FamilyIn(cookie) \subseteq troubled'
  BY DEF SignOut, vars, dbVars, reqVars, histVars
<1>c. OneLiveTokenPerFamily
  BY DEF BrowserInv, SerialInv
<1>1. WireInv'
  BY <1>a, <1>b DEF WireInv, BrowserTypeOK, Stored
<1>2. AnswersInv'
  BY <1>a, <1>b DEF AnswersInv, BrowserTypeOK, SameSession
<1>3. OneRenewal'
  BY <1>a, <1>b DEF OneRenewal, SameSession
<1>4. RenewalsGoWell'
  BY <1>a, <1>b DEF RenewalsGoWell
<1>5. RenewalsOfLeft'
  BY <1>a, <1>b DEF RenewalsOfLeft
<1>6. PartingInv'
  <2>1. ASSUME cookie # NoToken, family[cookie] \notin troubled'
        PROVE  /\ \A q \in Tab : ~SameSession(cookie, sent[q])
               /\ \A x \in Live : family[x] = family[cookie] => x = cookie
    <3>1. \A q \in Tab : ~SameSession(cookie, sent[q])
      BY <1>b, <2>1 DEF SameSession, FamilyIn
    <3>2. CASE family[cookie] \in left
      BY <1>a, <1>b, <2>1, <3>1, <3>2 DEF LogoutEndsTheSession
    <3>3. CASE family[cookie] \notin left
      <4>1. cookie \in Live
        BY <1>a, <1>b, <2>1, <3>1, <3>3 DEF SessionLostForACause, SameSession, Live, BrowserTypeOK
      <4>2. QED
        BY <1>a, <1>b, <1>c, <2>1, <3>1, <4>1 DEF OneLiveTokenPerFamily, OneRenewal
    <3>4. QED
      BY <3>1, <3>2, <3>3
  <2>2. QED
    BY <1>a, <1>b, <2>1 DEF PartingInv, BrowserTypeOK, SameSession, Live
<1>7. SessionLaws'
  BY <1>a, <1>b
  DEF SessionLaws, SessionLostForACause, LogoutEndsTheSession, ReuseHasACause, SameSession, Live
<1>8. QED
  BY <1>1, <1>2, <1>3, <1>4, <1>5, <1>6, <1>7 DEF Core

\* A logout is handled, or lost: the one token of the session is revoked, or the
\* session is troubled.
LEMMA LogoutArrivesStep == ASSUME BrowserInv, NEW t \in Tab, LogoutArrives(t) PROVE Core'
<1> USE NoTokenAssumption, AnswersAssumption
    DEF Quiet, Travelling, Serving, Refused, Failed, Tab
<1>a. /\ SessionLostForACause /\ LogoutEndsTheSession /\ ReuseHasACause
      /\ BrowserTypeOK /\ WireInv /\ AnswersInv /\ OneRenewal /\ RenewalsGoWell /\ RenewalsOfLeft
      /\ PartingInv
  BY DEF BrowserInv, SessionLaws
<1> DEFINE p == parting[t]
<1>b. /\ UNCHANGED <<family, pc, tok, reused, overlapped, cookie, call, sent, wire>>
      /\ p # NoToken /\ p \in Stored
      /\ parting' = [parting EXCEPT ![t] = NoToken]
      /\ left' = left \cup {family[p]}
      /\ \/ /\ status' = status
            /\ troubled' = troubled \cup {family[p]}
         \/ /\ status' = IF status[p] = "live" THEN [status EXCEPT ![p] = "revoked"] ELSE status
            /\ troubled' = troubled
  BY <1>a DEF LogoutArrives, LogoutOf, Logout, FamilyIn, WireInv, vars, dbVars, reqVars, histVars
<1>c. status \in [Token -> {"none", "live", "revoked"}] /\ FamiliesInv
  BY DEF BrowserInv, SerialInv, SessionsInv, TypeOK
<1>d. Stored' = Stored /\ family[p] \in Stored
  BY <1>b, <1>c DEF Stored, FamiliesInv
<1>e. \A x \in Token : family[x] # family[p] => status'[x] = status[x]
  BY <1>b, <1>c
<1>f. \A q \in Tab : SameSession(sent[q], p) => family[p] \in troubled
  BY <1>a, <1>b DEF PartingInv, SameSession
<1>1. WireInv'
  BY <1>a, <1>b, <1>d DEF WireInv, BrowserTypeOK
<1>2. AnswersInv'
  BY <1>a, <1>b DEF AnswersInv, BrowserTypeOK, SameSession
<1>3. OneRenewal'
  BY <1>a, <1>b DEF OneRenewal, SameSession
<1>4. RenewalsGoWell'
  BY <1>a, <1>b, <1>e DEF RenewalsGoWell, BrowserTypeOK
<1>5. RenewalsOfLeft'
  BY <1>a, <1>b, <1>f DEF RenewalsOfLeft, SameSession
<1>6. PartingInv'
  BY <1>a, <1>b, <1>c DEF PartingInv, BrowserTypeOK, SameSession, Live
<1>7. SessionLostForACause' /\ ReuseHasACause'
  BY <1>a, <1>b, <1>e
  DEF SessionLostForACause, ReuseHasACause, BrowserTypeOK, SameSession
<1>8. LogoutEndsTheSession'
  <2>1. ASSUME NEW x \in Live', family[x] = family[p], family[p] \notin troubled'
        PROVE  FALSE
    <3>1. x \in Live /\ x = p
      BY <1>a, <1>b, <1>c, <2>1 DEF PartingInv, Live
    <3>2. QED
      BY <1>b, <1>c, <2>1, <3>1 DEF Live
  <2>2. QED
    BY <1>a, <1>b, <1>c, <2>1 DEF LogoutEndsTheSession, Live
<1>9. QED
  BY <1>1, <1>2, <1>3, <1>4, <1>5, <1>6, <1>7, <1>8 DEF Core, SessionLaws

\* The tab forgets its account.
LEMMA LoggedOutStep == ASSUME BrowserInv, NEW t \in Tab, LoggedOut(t) PROVE Core'
<1>1. UNCHANGED <<status, family, pc, tok, reused, overlapped,
                  cookie, call, sent, wire, parting, troubled, left>>
  BY DEF LoggedOut, vars, dbVars, reqVars, histVars
<1>2. Core
  BY DEF BrowserInv, Core
<1>3. QED
  BY <1>1, <1>2
  DEF Core, WireInv, AnswersInv, OneRenewal, RenewalsGoWell, RenewalsOfLeft, PartingInv,
      SessionLaws, SessionLostForACause, LogoutEndsTheSession, ReuseHasACause, SameSession, Live,
      Stored

\* The server revokes a family: somebody logged out of it, or it is troubled.
LEMMA ServeRevokeFamily ==
  ASSUME BrowserInv, NEW t \in Tab, Serve(t), RefreshRevokeFamily(t)
  PROVE  Core'
<1> USE NoTokenAssumption, AnswersAssumption
    DEF Quiet, Travelling, Serving, Refused, Failed, Tab, Idle, Create, FindUser, RevokeOld,
        RevokeFamily
<1>a. /\ SessionLostForACause /\ LogoutEndsTheSession /\ ReuseHasACause
      /\ BrowserTypeOK /\ WireInv /\ AnswersInv /\ OneRenewal /\ RenewalsGoWell /\ RenewalsOfLeft
      /\ PartingInv
  BY DEF BrowserInv, SessionLaws
<1>b. TypeOK /\ HandlersInv /\ FamiliesInv
  BY DEF BrowserInv, SerialInv, SessionsInv
<1>c. UNCHANGED <<cookie, call, sent, parting, troubled, left>>
  BY DEF Serve, logoutVars
<1>d. /\ UNCHANGED <<family, overlapped>>
      /\ pc[t] = RevokeFamily /\ pc' = [pc EXCEPT ![t] = Idle]
      /\ tok' = [tok EXCEPT ![t] = NoToken]
      /\ status' = [x \in Token |-> IF status[x] = "live" /\ family[x] = family[tok[t]]
                                    THEN "revoked" ELSE status[x]]
      /\ reused' = reused \cup {family[tok[t]]}
  BY DEF RefreshRevokeFamily, Release, ReuseRevokes, Live
<1>e. /\ wire[t] = Serving /\ tok[t] = sent[t] /\ sent[t] \in Stored
      /\ family[sent[t]] \in left \cup troubled
  BY <1>a, <1>b, <1>d DEF WireInv, HandlersInv, RenewalsGoWell
<1>f. wire' = [wire EXCEPT ![t] = Refused]
  BY <1>b, <1>d DEF Serve, Issued, TypeOK
<1>1. WireInv'
  BY <1>a, <1>b, <1>c, <1>d, <1>e, <1>f
  DEF WireInv, Stored, BrowserTypeOK, TypeOK
<1>2. AnswersInv'
  BY <1>a, <1>b, <1>c, <1>d, <1>e, <1>f
  DEF AnswersInv, SameSession, BrowserTypeOK, TypeOK
<1>3. OneRenewal'
  BY <1>a, <1>b, <1>c, <1>d, <1>e, <1>f
  DEF OneRenewal, SameSession, BrowserTypeOK, TypeOK
<1>4. RenewalsGoWell'
  BY <1>a, <1>b, <1>c, <1>d, <1>e, <1>f
  DEF RenewalsGoWell, BrowserTypeOK, TypeOK
<1>5. RenewalsOfLeft'
  BY <1>a, <1>b, <1>c, <1>d, <1>e, <1>f
  DEF RenewalsOfLeft, BrowserTypeOK, TypeOK
<1>6. PartingInv'
  BY <1>a, <1>b, <1>c, <1>d, <1>e, <1>f
  DEF PartingInv, BrowserTypeOK, SameSession, FamilyIn, Live, WireInv
<1>7. SessionLaws'
  BY <1>a, <1>b, <1>c, <1>d, <1>e, <1>f
  DEF SessionLaws, SessionLostForACause, LogoutEndsTheSession, ReuseHasACause, SameSession, Live, BrowserTypeOK, TypeOK
<1>8. QED
  BY <1>1, <1>2, <1>3, <1>4, <1>5, <1>6, <1>7 DEF Core

\* The server finds the account of the session, or refuses.
LEMMA ServeFindUser ==
  ASSUME BrowserInv, NEW t \in Tab, Serve(t), RefreshFindUser(t)
  PROVE  Core'
<1> USE NoTokenAssumption, AnswersAssumption
    DEF Quiet, Travelling, Serving, Refused, Failed, Tab, Idle, Create, FindUser, RevokeOld,
        RevokeFamily
<1>a. /\ SessionLostForACause /\ LogoutEndsTheSession /\ ReuseHasACause
      /\ BrowserTypeOK /\ WireInv /\ AnswersInv /\ OneRenewal /\ RenewalsGoWell /\ RenewalsOfLeft
      /\ PartingInv
  BY DEF BrowserInv, SessionLaws
<1>b. TypeOK /\ HandlersInv /\ FamiliesInv
  BY DEF BrowserInv, SerialInv, SessionsInv
<1>c. UNCHANGED <<cookie, call, sent, parting, troubled, left>>
  BY DEF Serve, logoutVars
<1>d. /\ UNCHANGED <<status, family, overlapped, reused>>
      /\ pc[t] = FindUser
      /\ \A q \in Tab \ {t} : pc'[q] = pc[q] /\ tok'[q] = tok[q]
      /\ \/ pc'[t] = RevokeOld /\ tok' = tok
         \/ pc'[t] = Idle
  BY <1>b DEF RefreshFindUser, Release, Goto, dbVars, histVars, TypeOK
<1>e. wire[t] = Serving /\ tok[t] = sent[t] /\ sent[t] \in Stored
  BY <1>a, <1>b, <1>d DEF WireInv, HandlersInv
<1>f. wire' = [wire EXCEPT ![t] = IF pc'[t] = Idle THEN Refused ELSE Serving]
  BY <1>b, <1>d DEF Serve, Issued, TypeOK
<1>1. WireInv'
  BY <1>a, <1>b, <1>c, <1>d, <1>e, <1>f
  DEF WireInv, Stored, BrowserTypeOK, TypeOK
<1>2. AnswersInv'
  BY <1>a, <1>b, <1>c, <1>d, <1>e, <1>f
  DEF AnswersInv, SameSession, BrowserTypeOK, TypeOK
<1>3. OneRenewal'
  BY <1>a, <1>b, <1>c, <1>d, <1>e, <1>f
  DEF OneRenewal, SameSession, BrowserTypeOK, TypeOK
<1>4. RenewalsGoWell'
  BY <1>a, <1>b, <1>c, <1>d, <1>e, <1>f
  DEF RenewalsGoWell, BrowserTypeOK, TypeOK
<1>5. RenewalsOfLeft'
  BY <1>a, <1>b, <1>c, <1>d, <1>e, <1>f
  DEF RenewalsOfLeft, BrowserTypeOK, TypeOK
<1>6. PartingInv'
  BY <1>a, <1>b, <1>c, <1>d, <1>e, <1>f
  DEF PartingInv, BrowserTypeOK, SameSession, FamilyIn, Live, WireInv
<1>7. SessionLaws'
  BY <1>a, <1>b, <1>c, <1>d, <1>e, <1>f
  DEF SessionLaws, SessionLostForACause, LogoutEndsTheSession, ReuseHasACause, SameSession, Live, BrowserTypeOK, TypeOK
<1>8. QED
  BY <1>1, <1>2, <1>3, <1>4, <1>5, <1>6, <1>7 DEF Core

\* The server revokes the token it was sent.
LEMMA ServeRevokeOld ==
  ASSUME BrowserInv, NEW t \in Tab, Serve(t), RefreshRevokeOld(t)
  PROVE  Core'
<1> USE NoTokenAssumption, AnswersAssumption
    DEF Quiet, Travelling, Serving, Refused, Failed, Tab, Idle, Create, FindUser, RevokeOld,
        RevokeFamily
<1>a. /\ SessionLostForACause /\ LogoutEndsTheSession /\ ReuseHasACause
      /\ BrowserTypeOK /\ WireInv /\ AnswersInv /\ OneRenewal /\ RenewalsGoWell /\ RenewalsOfLeft
      /\ PartingInv
  BY DEF BrowserInv, SessionLaws
<1>b. TypeOK /\ HandlersInv /\ FamiliesInv
  BY DEF BrowserInv, SerialInv, SessionsInv
<1>c. UNCHANGED <<cookie, call, sent, parting, troubled, left>>
  BY DEF Serve, logoutVars
<1>d. /\ UNCHANGED <<family, tok, overlapped, reused>>
      /\ pc[t] = RevokeOld /\ pc' = [pc EXCEPT ![t] = Create]
      /\ status' = [status EXCEPT ![tok[t]] = "revoked"]
  BY DEF RefreshRevokeOld, Goto, histVars
<1>e. wire[t] = Serving /\ tok[t] = sent[t] /\ sent[t] \in Stored /\ sent[t] # NoToken
  BY <1>a, <1>b, <1>d DEF WireInv, HandlersInv
<1>f. wire' = wire
  BY <1>a, <1>b, <1>d, <1>e DEF Serve, BrowserTypeOK, TypeOK
<1>1. WireInv'
  BY <1>a, <1>b, <1>c, <1>d, <1>e, <1>f
  DEF WireInv, Stored, BrowserTypeOK, TypeOK
<1>2. AnswersInv'
  BY <1>a, <1>b, <1>c, <1>d, <1>e, <1>f
  DEF AnswersInv, SameSession, BrowserTypeOK, TypeOK
<1>3. OneRenewal'
  BY <1>a, <1>b, <1>c, <1>d, <1>e, <1>f
  DEF OneRenewal, SameSession, BrowserTypeOK, TypeOK
<1>4. RenewalsGoWell'
  BY <1>a, <1>b, <1>c, <1>d, <1>e, <1>f
  DEF RenewalsGoWell, BrowserTypeOK, TypeOK, AnswersInv, OneRenewal, SameSession
<1>5. RenewalsOfLeft'
  BY <1>a, <1>b, <1>c, <1>d, <1>e, <1>f
  DEF RenewalsOfLeft, BrowserTypeOK, TypeOK
<1>6. PartingInv'
  BY <1>a, <1>b, <1>c, <1>d, <1>e, <1>f
  DEF PartingInv, BrowserTypeOK, SameSession, FamilyIn, Live, WireInv
<1>7. SessionLaws'
  BY <1>a, <1>b, <1>c, <1>d, <1>e, <1>f
  DEF SessionLaws, SessionLostForACause, LogoutEndsTheSession, ReuseHasACause, SameSession, Live, BrowserTypeOK, TypeOK, OneRenewal
<1>8. QED
  BY <1>1, <1>2, <1>3, <1>4, <1>5, <1>6, <1>7 DEF Core

\* The server issues a token, which is under way to the tab.
LEMMA ServeIssueTokens ==
  ASSUME BrowserInv, NEW t \in Tab, Serve(t), IssueTokens(t)
  PROVE  Core'
<1> USE NoTokenAssumption, AnswersAssumption
    DEF Quiet, Travelling, Serving, Refused, Failed, Tab, Idle, Create, FindUser, RevokeOld,
        RevokeFamily
<1>a. /\ SessionLostForACause /\ LogoutEndsTheSession /\ ReuseHasACause
      /\ BrowserTypeOK /\ WireInv /\ AnswersInv /\ OneRenewal /\ RenewalsGoWell /\ RenewalsOfLeft
      /\ PartingInv
  BY DEF BrowserInv, SessionLaws
<1>b. TypeOK /\ HandlersInv /\ FamiliesInv
  BY DEF BrowserInv, SerialInv, SessionsInv
<1>c. UNCHANGED <<cookie, call, sent, parting, troubled, left>>
  BY DEF Serve, logoutVars
<1>d. PICK x \in Token \ Stored :
         /\ status' = [status EXCEPT ![x] = "live"]
         /\ family' = [family EXCEPT ![x] = FamilyFor(t, x)]
  BY DEF IssueTokens
<1>e. /\ UNCHANGED <<overlapped, reused>>
      /\ pc[t] = Create /\ pc' = [pc EXCEPT ![t] = Idle]
      /\ tok' = [tok EXCEPT ![t] = NoToken]
  BY DEF IssueTokens, Release
<1>f. /\ wire[t] = Serving /\ tok[t] = sent[t]
      /\ sent[t] # NoToken => sent[t] \in Stored /\ family[sent[t]] \in Stored
  BY <1>a, <1>b, <1>e DEF WireInv, HandlersInv, FamiliesInv, Stored
<1>g. wire' = [wire EXCEPT ![t] = x]
  <2>1. Issued = {x}
    BY <1>b, <1>d DEF Issued, Stored, TypeOK
  <2>2. QED
    BY <1>b, <1>e, <2>1 DEF Serve, TypeOK
<1>h. /\ Stored' = Stored \cup {x}
      /\ \A y \in Stored : family'[y] = family[y] /\ family[y] \in Stored
      /\ family'[x] = IF sent[t] = NoToken THEN x ELSE family[sent[t]]
      /\ x \notin left
  BY <1>a, <1>b, <1>d, <1>f DEF Stored, TypeOK, FamilyFor, FamiliesInv, WireInv
<1>i. /\ \A q \in Tab : sent[q] # NoToken => sent[q] \in Stored
      /\ \A q \in Tab : wire[q] \in Token => wire[q] \in Stored
      /\ \A q \in Tab : parting[q] # NoToken => parting[q] \in Stored
      /\ cookie # NoToken => cookie \in Stored
  BY <1>a DEF WireInv
<1>1. WireInv'
  BY <1>a, <1>c, <1>d, <1>e, <1>f, <1>g, <1>h, <1>i
  DEF WireInv, Stored, BrowserTypeOK, TypeOK
<1>2. AnswersInv'
  BY <1>a, <1>c, <1>d, <1>e, <1>f, <1>g, <1>h, <1>i
  DEF AnswersInv, SameSession, BrowserTypeOK, TypeOK
<1>3. OneRenewal'
  BY <1>a, <1>c, <1>d, <1>e, <1>f, <1>g, <1>h, <1>i
  DEF OneRenewal, SameSession, BrowserTypeOK, TypeOK
<1>4. RenewalsGoWell'
  BY <1>a, <1>c, <1>d, <1>e, <1>f, <1>g, <1>h, <1>i
  DEF RenewalsGoWell, BrowserTypeOK, TypeOK
<1>5. RenewalsOfLeft'
  BY <1>a, <1>c, <1>d, <1>e, <1>f, <1>g, <1>h, <1>i
  DEF RenewalsOfLeft, BrowserTypeOK, TypeOK
<1>6. PartingInv'
  BY <1>a, <1>c, <1>d, <1>e, <1>f, <1>g, <1>h, <1>i
  DEF PartingInv, BrowserTypeOK, SameSession, FamilyIn, Live, WireInv
<1>7. SessionLaws'
  BY <1>a, <1>c, <1>d, <1>e, <1>f, <1>g, <1>h, <1>i
  DEF SessionLaws, SessionLostForACause, LogoutEndsTheSession, ReuseHasACause, SameSession, Live, BrowserTypeOK, TypeOK, RenewalsOfLeft
<1>8. QED
  BY <1>1, <1>2, <1>3, <1>4, <1>5, <1>6, <1>7 DEF Core

\* An account is deactivated: nothing changes until its sessions are used.
LEMMA DeactivateStep ==
  ASSUME BrowserInv, NEW u \in User, Deactivate(u), UNCHANGED tabVars
  PROVE  Core'
<1>1. UNCHANGED <<tabVars, status, family, pc, tok, reused, overlapped>>
  BY DEF Deactivate, reqVars, histVars
<1>2. Core
  BY DEF BrowserInv, Core
<1>3. QED
  BY <1>1, <1>2
  DEF Core, tabVars, WireInv, AnswersInv, OneRenewal, RenewalsGoWell, RenewalsOfLeft, PartingInv,
      SessionLaws, SessionLostForACause, LogoutEndsTheSession, ReuseHasACause, SameSession, Live, Stored

-----------------------------------------------------------------------------

\* The browser's variables keep their types.
LEMMA BrowserTypeStep ==
  ASSUME BrowserInv, [BrowserNext]_allVars, TypeOK'
  PROVE  BrowserTypeOK'
<1> DEFINE Wire == {Quiet, Travelling, Serving} \cup Answers
<1>a. BrowserTypeOK /\ FamiliesInv
  BY DEF BrowserInv, SerialInv, SessionsInv
<1>b. /\ FamilyIn(cookie) \subseteq Token
      /\ \A t \in Tab : FamilyIn(sent[t]) \subseteq Token /\ FamilyIn(parting[t]) \subseteq Token
  BY <1>a DEF FamilyIn, FamiliesInv, BrowserTypeOK, TypeOK, BrowserInv, WireInv, Stored
<1>c. \A x \in Token : status[x] # "none" => owner[x] \in User /\ family[x] \in Token
  BY <1>a DEF FamiliesInv
<1>d. \A t \in Tab : wire[t] \in Token => status[wire[t]] # "none"
  BY DEF BrowserInv, WireInv, Stored
<1> USE NoTokenAssumption DEF BrowserTypeOK, logoutVars
<1>1. ASSUME NEW t \in Tab, UserStep(t) PROVE BrowserTypeOK'
  <2>1. CASE Open(t) \/ PageUnauthorized(t) \/ SubmitRefusedLogin(t)
    BY <1>a, <1>b, <2>1
    DEF Open, PageUnauthorized, SubmitRefusedLogin, TryRefresh, Ask, vars
  <2>2. CASE \E u \in User : SubmitLogin(t, u) \/ SubmitSignup(t, u) \/ OAuthCallback(t, u)
    BY <1>a, <2>2 DEF SubmitLogin, SubmitSignup, OAuthCallback
  <2>3. CASE SignOut(t)
    BY <1>a, <1>b, <2>3 DEF SignOut
  <2>4. QED
    BY <1>1, <2>1, <2>2, <2>3 DEF UserStep
<1>2. ASSUME NEW t \in Tab, Arrive(t) PROVE BrowserTypeOK'
  BY <1>a, <1>2 DEF Arrive, Answers
<1>3. ASSUME NEW t \in Tab, Serve(t) PROVE BrowserTypeOK'
  <2>1. wire' \in [Tab -> Wire]
    BY <1>a, <1>3 DEF Serve, Answers, Issued
  <2>2. QED
    BY <1>a, <1>3, <2>1 DEF Serve
<1>4. ASSUME NEW t \in Tab, ServerFails(t) \/ AnswerLost(t) PROVE BrowserTypeOK'
  BY <1>a, <1>b, <1>4 DEF ServerFails, AnswerLost, Answers, LostBy
<1>5. ASSUME NEW t \in Tab, GetTokens(t) PROVE BrowserTypeOK'
  BY <1>a, <1>c, <1>d, <1>5 DEF GetTokens, SetRefreshCookie, Return, Settle
<1>6. ASSUME NEW t \in Tab, Renewed(t) PROVE BrowserTypeOK'
  <2>1. wire[t] \in Token /\ family'[wire[t]] \in Token /\ owner[wire[t]] \in User
    BY <1>c, <1>d, <1>6 DEF Renewed, vars, dbVars
  <2>2. cookie' = wire[t] /\ FamilyIn(cookie)' \subseteq Token
    BY <1>6, <2>1 DEF Renewed, SetRefreshCookie, FamilyIn
  <2>3. troubled' \in SUBSET Token
    BY <1>a, <1>c, <1>d, <1>6, <2>1, <2>2 DEF Renewed, Ask, Settle, FamilyIn
  <2>4. QED
    BY <1>a, <1>6, <2>1, <2>2, <2>3 DEF Renewed, Ask, Settle
<1>7. ASSUME NEW t \in Tab, NotRenewed(t) \/ Throw(t) \/ ShowAccount(t) PROVE BrowserTypeOK'
  BY <1>a, <1>7 DEF NotRenewed, Throw, ShowAccount, Validates, Return, Settle
<1>8. ASSUME NEW t \in Tab, LoadUnauthorized(t) \/ MeUnauthorized(t) PROVE BrowserTypeOK'
  BY <1>a, <1>b, <1>8 DEF LoadUnauthorized, MeUnauthorized, TryRefresh, Ask
<1>9. ASSUME NEW t \in Tab, LogoutArrives(t) \/ LoggedOut(t) PROVE BrowserTypeOK'
  BY <1>a, <1>b, <1>9 DEF LogoutArrives, LoggedOut
<1>10. ASSUME UNCHANGED tabVars PROVE BrowserTypeOK'
  BY <1>a, <1>10 DEF tabVars
<1>11. QED
  BY <1>1, <1>2, <1>3, <1>4, <1>5, <1>6, <1>7, <1>8, <1>9, <1>10 DEF BrowserNext, Answered, allVars

\* The inductive step, one action at a time.
LEMMA BrowserStep == ASSUME BrowserInv, [BrowserNext]_allVars PROVE BrowserInv'
<1> USE DEF Closed, Rest, Load, LoadMe, SignIn, SignInMe, PageCall, Callback, logoutVars
<1>a. BrowserTypeOK /\ WireInv
  BY DEF BrowserInv
<1>b. SerialInv'
  BY SessionsStep, SerialStep DEF BrowserInv
<1>c. BrowserTypeOK'
  BY <1>b, BrowserTypeStep DEF SerialInv, SessionsInv
<1>d. \A t \in Tab : call[t] = Rest \/ call[t] = Closed => wire[t] = Quiet
  BY <1>a DEF WireInv
<1>1. ASSUME NEW t \in Tab, UserStep(t) PROVE Core'
  <2>1. CASE Open(t) \/ PageUnauthorized(t) \/ SubmitRefusedLogin(t)
    BY <1>a, <1>d, <2>1, AskStep
    DEF Open, PageUnauthorized, SubmitRefusedLogin, AtLogin, TryRefresh, BrowserTypeOK
  <2>2. CASE \E u \in User : SubmitLogin(t, u) \/ SubmitSignup(t, u) \/ OAuthCallback(t, u)
    BY <1>a, <1>d, <2>2, StartStep
    DEF SubmitLogin, SubmitSignup, OAuthCallback, AtLogin, Login, OAuthLogin, BrowserTypeOK
  <2>3. CASE SignOut(t)
    BY <2>3, SignOutStep
  <2>4. QED
    BY <1>1, <2>1, <2>2, <2>3 DEF UserStep
<1>2. ASSUME NEW t \in Tab, Serve(t) PROVE Core'
  BY <1>2, ServeRevokeFamily, ServeFindUser, ServeRevokeOld, ServeIssueTokens
  DEF Serve, HandlerStep
<1>3. ASSUME NEW t \in Tab, GetTokens(t) PROVE Core'
  BY <1>a, <1>3, TokensStep DEF GetTokens, SetRefreshCookie, Return, BrowserTypeOK
<1>4. ASSUME NEW t \in Tab, Renewed(t) PROVE Core'
  <2>1. CASE call[t] = Load
    BY <1>4, <2>1, AskAgainStep DEF Renewed, SetRefreshCookie
  <2>2. CASE call[t] # Load
    BY <1>a, <1>4, <2>2, TokensStep DEF Renewed, SetRefreshCookie, BrowserTypeOK
  <2>3. QED
    BY <2>1, <2>2
<1>5. ASSUME NEW t \in Tab, NotRenewed(t) \/ Throw(t) PROVE Core'
  BY <1>a, <1>5, SettleStep DEF NotRenewed, Throw, Return, AsksMe, BrowserTypeOK
<1>6. ASSUME NEW t \in Tab, LoadUnauthorized(t) \/ MeUnauthorized(t) PROVE Core'
  BY <1>a, <1>6, AskStep DEF LoadUnauthorized, MeUnauthorized, TryRefresh, AsksMe, BrowserTypeOK
<1>7. ASSUME NEW t \in Tab, ShowAccount(t) PROVE Core'
  <2>1. wire[t] = Quiet /\ wire' = wire /\ sent' = sent /\ sent[t] = NoToken
    BY <1>a, <1>7 DEF ShowAccount, AsksMe, WireInv
  <2>2. Settle(t)
    BY <1>a, <1>7, <2>1 DEF ShowAccount, Settle, BrowserTypeOK
  <2>3. QED
    BY <1>a, <1>7, <2>1, <2>2, SettleStep DEF ShowAccount, Return, BrowserTypeOK
<1>8. ASSUME UNCHANGED allVars PROVE Core'
  BY <1>8
  DEF BrowserInv, Core, allVars, vars, dbVars, reqVars, histVars, tabVars, WireInv, AnswersInv,
      OneRenewal, RenewalsGoWell, RenewalsOfLeft, PartingInv, SessionLaws, SessionLostForACause,
      LogoutEndsTheSession, ReuseHasACause, SameSession, Live, Stored
<1>9. Core'
  BY <1>1, <1>2, <1>3, <1>4, <1>5, <1>6, <1>7, <1>8, ArriveStep, FailStep,
     LogoutArrivesStep, LoggedOutStep, DeactivateStep
  DEF BrowserNext, Answered
<1>10. QED
  BY <1>b, <1>c, <1>9 DEF BrowserInv, Core

LEMMA BrowserStart == BrowserInit => BrowserInv
<1> SUFFICES ASSUME BrowserInit PROVE BrowserInv
  OBVIOUS
<1>1. Init
  BY DEF BrowserInit
<1>2. SerialInv
  BY <1>1, SerialInit
<1>3. BrowserTypeOK
  BY <1>1, <1>2 DEF BrowserInit, SerialInv, SessionsInv, BrowserTypeOK
<1>4. WireInv
  BY <1>1, AnswersAssumption
  DEF BrowserInit, Init, WireInv, Quiet, Serving, Idle, Tab
<1>5. /\ AnswersInv /\ OneRenewal /\ RenewalsGoWell /\ RenewalsOfLeft
      /\ PartingInv /\ SessionLaws
  BY <1>1, AnswersAssumption
  DEF BrowserInit, Init, AnswersInv, OneRenewal, RenewalsGoWell, RenewalsOfLeft, PartingInv,
      SessionLaws, SessionLostForACause, LogoutEndsTheSession, ReuseHasACause, SameSession, Live, Quiet
<1>6. QED
  BY <1>2, <1>3, <1>4, <1>5 DEF BrowserInv

\* What the tabs, their pages and their users do never breaks the inductive invariant.
THEOREM BrowserInvariant == BrowserSpec => []BrowserInv
  BY BrowserStart, BrowserStep, PTL DEF BrowserSpec

\* The tabs are clients of the sessions: all that is proved of Sessions holds for them.
THEOREM BrowserImplementsSessions == BrowserSpec => Spec
<1>1. BrowserInit => Init
  BY DEF BrowserInit
<1>2. BrowserInv /\ [BrowserNext]_allVars => [Next]_vars
  BY SessionsStep
<1>3. QED
  BY <1>1, <1>2, BrowserInvariant, PTL DEF BrowserSpec, Spec

\* The browser's variables keep their types.
THEOREM BrowserTypesCorrect == BrowserSpec => []BrowserTypeOK
  BY BrowserInvariant, PTL DEF BrowserInv

\* The cookie stays good until a logout, a second tab or a failure interferes: the
\* rotation of api.ts and AuthService.refresh costs nobody the session by itself.
THEOREM RotationKeepsTheSession == BrowserSpec => []SessionLostForACause
  BY BrowserInvariant, PTL DEF BrowserInv, SessionLaws

\* The cookie that logging out leaves in the browser is worthless once the server has
\* handled the logout, unless a refresh was under way at the same time or a failure
\* swallowed either.
THEOREM LogoutIsFinal == BrowserSpec => []LogoutEndsTheSession
  BY BrowserInvariant, PTL DEF BrowserInv, SessionLaws

\* Reuse detection strikes only sessions with such a cause.
THEOREM ReuseIsCaused == BrowserSpec => []ReuseHasACause
  BY BrowserInvariant, PTL DEF BrowserInv, SessionLaws

\* The composition implements the life of a token family as Sessions does alone: whatever
\* the tabs send, a family gains its tokens one at a time and, once sealed, none.
THEOREM BrowserImplementsFamilyLifecycle == BrowserSpec => FamilyLifecycleHolds
  BY BrowserImplementsSessions, SessionsImplementFamilyLifecycle, PTL

=============================================================================
