----------------------------- MODULE AccountsProofs -----------------------------
(***************************************************************************)
(* Theorems about Accounts beside the seed script, for any sets of e-mails, *)
(* organisations, secrets, requests and runs of the script.                 *)
(***************************************************************************)
EXTENDS Seed, FiniteSetTheorems, TLAPS

\* What appending does to a sequence of organisations.
LEMMA AppendFacts ==
  ASSUME NEW s \in Seq(Org), NEW o \in Org
  PROVE  /\ Append(s, o) \in Seq(Org) /\ Append(s, o) # <<>>
         /\ DOMAIN Append(s, o) = DOMAIN s \cup {Len(s) + 1} /\ Len(s) + 1 \notin DOMAIN s
         /\ \A i \in DOMAIN s : Append(s, o)[i] = s[i]
         /\ Append(s, o)[Len(s) + 1] = o
         /\ Head(Append(s, o)) = IF s = <<>> THEN o ELSE Head(s)
OBVIOUS

\* The account of e becomes a member of o.
Joins(e, o) == joined' = [joined EXCEPT ![e] = Append(@, o)]

LEMMA JoinFacts ==
  ASSUME joined \in [Email -> Seq(Org)], NEW e \in Email, NEW o \in Org, Joins(e, o)
  PROVE  /\ joined' \in [Email -> Seq(Org)]
         /\ \A x \in Email, p \in Org : Belongs(x, p)' <=> Belongs(x, p) \/ (x = e /\ p = o)
         /\ \A x \in Email : x # e => joined'[x] = joined[x] /\ Primary(x)' = Primary(x)
         /\ joined'[e] # <<>> /\ Primary(e)' = IF joined[e] = <<>> THEN o ELSE Primary(e)
<1> USE AppendFacts DEF Joins
<1>1. joined[e] \in Seq(Org) /\ joined'[e] = Append(joined[e], o)
      /\ \A x \in Email : x # e => joined'[x] = joined[x]
  OBVIOUS
<1>2. joined' \in [Email -> Seq(Org)]
  BY <1>1
<1>3. \A p \in Org : Belongs(e, p)' <=> Belongs(e, p) \/ p = o
  BY <1>1 DEF Belongs
<1>4. \A x \in Email, p \in Org : x # e => (Belongs(x, p)' <=> Belongs(x, p))
  BY <1>1 DEF Belongs
<1>5. joined'[e] # <<>> /\ Primary(e)' = IF joined[e] = <<>> THEN o ELSE Primary(e)
  BY <1>1 DEF Primary
<1>6. \A x \in Email : x # e => Primary(x)' = Primary(x)
  BY <1>1 DEF Primary
<1>7. QED
  BY <1>1, <1>2, <1>3, <1>4, <1>5, <1>6

\* No membership is stored twice.
LEMMA DistinctStep ==
  ASSUME joined \in [Email -> Seq(Org)], NEW e \in Email, NEW o \in Org, Joins(e, o),
         Distinct, ~Belongs(e, o)
  PROVE  Distinct'
<1>1. joined[e] \in Seq(Org) /\ joined'[e] = Append(joined[e], o)
      /\ \A x \in Email : x # e => joined'[x] = joined[x]
  BY DEF Joins
<1>2. \A i, k \in DOMAIN joined'[e] : joined'[e][i] = joined'[e][k] => i = k
  BY <1>1, AppendFacts DEF Distinct, Belongs
<1>3. QED
  BY <1>1, <1>2 DEF Distinct

\* The principal's tenant is an organisation it belongs to.
LEMMA PrimaryFacts ==
  ASSUME joined \in [Email -> Seq(Org)], NEW e \in Email
  PROVE  joined[e] # <<>> => Primary(e) \in Org /\ Belongs(e, Primary(e))
<1>1. ASSUME joined[e] # <<>> PROVE 1 \in DOMAIN joined[e] /\ joined[e][1] = Head(joined[e])
  BY <1>1
<1>2. QED
  BY <1>1 DEF Primary, Belongs

-----------------------------------------------------------------------------
(* What a step keeps *)

\* The parts of the invariant.
LEMMA Parts ==
  AccountsInv <=>
    /\ RowTypes /\ FactorTypes /\ RequestTypes /\ OfAccounts /\ Distinct
    /\ RequestsInv /\ SignupsInv /\ MembersInv /\ ConfirmationsInv
    /\ Onboarded /\ AuthenticatorFits
BY DEF AccountsInv, AccountsTypeOK

Others(r) == \A q \in Request \ {r} : req'[q] = req[q]

\* A request answers, or fails: it is idle again.
LEMMA FinishFacts ==
  ASSUME RequestTypes, NEW r \in Request, Finish(r)
  PROVE  RequestTypes' /\ req'[r] = Idle /\ Others(r)
<1>1. Idle \in Local
  BY DEF Idle, Local, Step
<1>2. QED
  BY <1>1 DEF RequestTypes, Finish, Others

\* What Idle says.
LEMMA IdleFacts ==
  /\ Idle.pc = "idle" /\ Idle.who = NoOne /\ Idle.org = NoOrg /\ Idle.key = NoSecret
  /\ Idle.via = "none" /\ Idle.new = FALSE
BY DEF Idle

\* A request begins.
LEMMA BeginFacts ==
  ASSUME RequestTypes, NEW r \in Request, NEW kind, NEW step \in Step, NEW e \in Email,
         NEW o \in Org \cup {NoOrg}, NEW p \in Provider \cup {"none"},
         Begin(r, kind, step, e, o, p)
  PROVE  /\ RequestTypes' /\ Others(r) /\ req[r].pc = "idle"
         /\ req'[r].pc = step /\ req'[r].who = e /\ req'[r].org = o
         /\ req'[r].via = p /\ req'[r].new = FALSE
<1> DEFINE first == [Idle EXCEPT !.pc = step, !.who = e, !.org = o, !.via = p]
<1>1. /\ first \in Local /\ first.pc = step /\ first.who = e /\ first.org = o
      /\ first.via = p /\ first.new = FALSE
  BY DEF Idle, Local
<1>2. req' = [req EXCEPT ![r] = first] /\ req[r].pc = "idle"
  BY DEF Begin
<1> HIDE DEF first
<1>3. QED
  BY <1>1, <1>2 DEF RequestTypes, Others

\* A request of its own is as the invariant says, and no account goes away.
LEMMA RequestsKept ==
  ASSUME RequestsInv, NEW r \in Request, Others(r), RequestInv(r)',
         account \in [Email -> Origin],
         \A x \in Email : account[x] # "none" =>
           account'[x] # "none" /\ (account[x] = "signup" => account'[x] = "signup")
  PROVE  RequestsInv'
<1>1. SUFFICES ASSUME NEW q \in Request, q # r PROVE RequestInv(q)'
  BY DEF RequestsInv
<1>2. RequestInv(q) /\ req'[q] = req[q]
  BY <1>1 DEF RequestsInv, Others
<1>3. QED
  BY <1>2 DEF RequestInv

\* Signups under way, where nobody founds or joins.
LEMMA SignupsKept ==
  ASSUME SignupsInv, UNCHANGED <<founder, joined, overtaken>>,
         \A q \in Request, x \in Email : Signing(q, x)' => Signing(q, x) /\ req'[q] = req[q]
  PROVE  SignupsInv'
<1>1. SUFFICES ASSUME NEW q \in Request, NEW x \in Email, Signing(q, x)'
               PROVE  SignupInv(q, x)'
  BY DEF SignupsInv
<1>2. Signing(q, x) /\ req'[q] = req[q] /\ SignupInv(q, x)
  BY <1>1 DEF SignupsInv
<1>3. \A y \in Email : \A o : Belongs(y, o)' <=> Belongs(y, o)
  BY DEF Belongs
<1>4. \A p \in Request \ {q} : ~Signing(p, x)'
  BY <1>2 DEF SignupInv
<1>5. QED
  BY <1>2, <1>3, <1>4 DEF SignupInv

\* Organisations, where nobody founds or joins and whoever is invited is invited well.
LEMMA MembersKept ==
  ASSUME MembersInv, UNCHANGED <<founder, joined>>,
         \A q \in Request : req'[q].pc \in {"invite", "join"} /\ req'[q].org # NoOrg =>
           Populated(req'[q].org)
  PROVE  MembersInv'
<1>1. \A o : Populated(o)' <=> Populated(o)
  BY DEF Populated, Belongs
<1>2. QED
  BY <1>1 DEF MembersInv, Belongs

\* Accounts, while whoever makes one is at work or known to be cut short.
LEMMA OnboardingKept ==
  ASSUME Onboarded, UNCHANGED <<founder, joined, overtaken>>,
         account \in [Email -> Origin], founder \in [Org -> Email \cup {NoOne}],
         \A x \in Email : account[x] = "signup" => account'[x] = "signup",
         \A x \in Email : account'[x] = account[x] \/ account'[x] \notin {"signup", "invited"} \/ AtWork(x)',
         \A x \in Email : AtWork(x) => AtWork(x)' \/ x \in broken',
         broken \subseteq broken'
  PROVE  Onboarded'
<1>1. \A x \in Email : account'[x] \in {"signup", "invited"} /\ joined'[x] = <<>> =>
        x \in broken' \/ AtWork(x)'
  BY DEF Onboarded
<1>2. \A o, p \in Org : founder'[o] # NoOne /\ founder'[o] = founder'[p] => o = p
  BY DEF Onboarded
<1>3. \A o \in Org : founder'[o] # NoOne => account'[founder'[o]] = "signup"
  BY DEF Onboarded
<1>4. \A o \in Org : founder'[o] # NoOne =>
        (Belongs(founder[o], o)' => Primary(founder[o])' = o \/ founder[o] \in overtaken')
  BY DEF Onboarded, Belongs, Primary
<1>5. QED
  BY <1>1, <1>2, <1>3, <1>4 DEF Onboarded, Belongs, Primary

\* The rows, where a request goes on that makes none and neither founds nor joins.
LEMMA RowsKept ==
  ASSUME AccountsInv, NEW r \in Request, Others(r),
         UNCHANGED <<load, account, founder, joined, overtaken>>,
         broken \subseteq broken', broken' \subseteq Email,
         req[r].new => req[r].who \in broken',
         req'[r].pc \notin {"found", "own"},
         req'[r].pc \in {"invite", "join"} /\ req'[r].org # NoOrg => Populated(req'[r].org)
  PROVE  RowTypes' /\ Distinct' /\ SignupsInv' /\ MembersInv' /\ Onboarded'
<1>0. RowTypes /\ Distinct /\ SignupsInv /\ MembersInv /\ Onboarded
  BY Parts
<1>1. RowTypes' /\ Distinct'
  BY <1>0 DEF RowTypes, Distinct
<1>2. SignupsInv'
  <2>1. \A q \in Request, x \in Email : Signing(q, x)' => Signing(q, x) /\ req'[q] = req[q]
    BY DEF Signing, Others
  <2>2. QED
    BY <1>0, <2>1, SignupsKept
<1>3. MembersInv'
  <2>1. \A q \in Request : req'[q].pc \in {"invite", "join"} /\ req'[q].org # NoOrg =>
          Populated(req'[q].org)
    BY <1>0 DEF MembersInv, Others
  <2>2. QED
    BY <1>0, <2>1, MembersKept
<1>4. Onboarded'
  <2>1. \A x \in Email : AtWork(x) => AtWork(x)' \/ x \in broken'
    BY DEF AtWork, Others
  <2>2. QED
    BY <1>0, <2>1, OnboardingKept DEF RowTypes
<1>5. QED
  BY <1>1, <1>2, <1>3, <1>4

\* The second factor, where no request begins to confirm.
LEMMA FactorKept ==
  ASSUME AccountsInv, UNCHANGED <<secret, mfa, device, drawn, replaced, crossed>>,
         undone' \subseteq undone,
         \A q \in Request : req'[q].pc = "confirm" =>
           req'[q] = req[q] /\ (q \in undone => q \in undone')
  PROVE  FactorTypes' /\ ConfirmationsInv' /\ AuthenticatorFits'
<1>0. FactorTypes /\ ConfirmationsInv /\ AuthenticatorFits
  BY Parts
<1>1. FactorTypes'
  BY <1>0 DEF FactorTypes
<1>2. \A x : CodeFits(x)' <=> CodeFits(x)
  BY DEF CodeFits
<1>3. ConfirmationsInv'
  BY <1>0, <1>2 DEF ConfirmationsInv
<1>4. AuthenticatorFits'
  BY <1>0, <1>2 DEF AuthenticatorFits
<1>5. QED
  BY <1>1, <1>3, <1>4

-----------------------------------------------------------------------------
(* Requests begin *)

\* A request begins that has what its first step needs.
LEMMA BeginStep ==
  ASSUME AccountsInv, NEW r \in Request, NEW kind, NEW step \in Step, NEW e \in Email,
         NEW o \in Org \cup {NoOrg}, NEW p \in Provider \cup {"none"},
         Begin(r, kind, step, e, o, p), UNCHANGED <<load, rows, factor, history>>,
         step \notin {"idle", "found", "own", "answer"},
         step \notin {"signup", "oauth", "invite"} => account[e] # "none",
         step \in {"oauth", "link"} => p \in Provider,
         step \in {"invite", "join"} /\ o # NoOrg => Populated(o),
         step = "confirm" => CodeFits(e)
  PROVE  AccountsInv'
<1>0. RowTypes /\ FactorTypes /\ RequestTypes /\ OfAccounts /\ RequestsInv
  BY Parts
<1>1. /\ RequestTypes' /\ Others(r) /\ req[r].pc = "idle"
      /\ req'[r].pc = step /\ req'[r].who = e /\ req'[r].org = o
      /\ req'[r].via = p /\ req'[r].new = FALSE
  BY <1>0, BeginFacts
<1>2. UNCHANGED <<load, account, linked, founder, joined, secret, mfa, device, drawn, replaced,
                  undone, crossed, broken, overtaken>>
  BY DEF rows, factor, history
<1>3. RowTypes' /\ Distinct' /\ SignupsInv' /\ MembersInv' /\ Onboarded'
  <2>1. ~req[r].new /\ broken' \subseteq Email
    BY <1>0, <1>1, <1>2 DEF RequestsInv, RequestInv, RowTypes
  <2>2. QED
    BY <1>1, <1>2, <2>1, RowsKept
<1>4. FactorTypes' /\ AuthenticatorFits'
  BY <1>2, Parts DEF FactorTypes, AuthenticatorFits, CodeFits
<1>5. OfAccounts'
  BY <1>0, <1>2 DEF OfAccounts
<1>6. RequestsInv'
  <2>1. RequestInv(r)'
    BY <1>1, <1>2 DEF RequestInv
  <2>2. QED
    BY <1>0, <1>1, <1>2, <2>1, RequestsKept DEF RowTypes
<1>7. ConfirmationsInv'
  BY <1>1, <1>2, Parts DEF ConfirmationsInv, CodeFits, Others
<1>8. QED
  BY <1>1, <1>3, <1>4, <1>5, <1>6, <1>7 DEF AccountsInv, AccountsTypeOK

\* Signups, OAuth logins, invitations, and the three requests of the second factor.
LEMMA NewRequestStep ==
  ASSUME AccountsInv, NEW r \in Request, NewRequest(r)
  PROVE  AccountsInv'
<1>0. RowTypes /\ FactorTypes /\ OfAccounts /\ MembersInv
  BY Parts
<1>1. PICK e \in Email :
        \/ BeginSignup(r, e)
        \/ \E p \in Provider : BeginOAuth(r, p, e)
        \/ \E by \in Email : BeginInvite(r, by, e)
        \/ BeginSetup(r, e) \/ BeginConfirm(r, e) \/ BeginDisable(r, e)
  BY DEF NewRequest, ExchangeGoogleCode, ExchangeGithubCode, Provider
<1>2. CASE BeginSignup(r, e)
  BY <1>2, BeginStep DEF BeginSignup, Step
<1>3. ASSUME NEW p \in Provider, BeginOAuth(r, p, e) PROVE AccountsInv'
  <2>1. PICK step \in Step : step = IF account[e] = "none" THEN "oauth" ELSE "link"
    BY DEF Step
  <2>2. Begin(r, "oauth", step, e, NoOrg, p) /\ UNCHANGED <<load, rows, factor, history>>
    BY <1>3, <2>1 DEF BeginOAuth
  <2>3. step \in {"oauth", "link"} /\ (step # "oauth" => account[e] # "none")
    BY <2>1
  <2>4. QED
    BY <2>2, <2>3, BeginStep
<1>4. ASSUME NEW b \in Email, BeginInvite(r, b, e) PROVE AccountsInv'
  <2>1. PICK step \in Step : step = IF account[e] = "none" THEN "invite" ELSE "join"
    BY DEF Step
  <2>2. Begin(r, "invite", step, e, Primary(b), "none")
        /\ UNCHANGED <<load, rows, factor, history>>
    BY <1>4, <2>1 DEF BeginInvite
  <2>3. step \in {"invite", "join"} /\ (step # "invite" => account[e] # "none")
    BY <2>1
  <2>4. Primary(b) \in Org \cup {NoOrg} /\ (Primary(b) # NoOrg => Populated(Primary(b)))
    <3>1. joined[b] = <<>> => Primary(b) = NoOrg
      BY DEF Primary
    <3>2. joined[b] # <<>> => Primary(b) \in Org /\ Belongs(b, Primary(b))
      BY <1>0, PrimaryFacts DEF RowTypes
    <3>3. QED
      BY <1>0, <3>1, <3>2 DEF MembersInv
  <2>5. QED
    BY <2>2, <2>3, <2>4, BeginStep
<1>5. CASE BeginSetup(r, e)
  BY <1>5, BeginStep DEF BeginSetup, Step
<1>6. CodeFits(e) => account[e] # "none"
  BY <1>0, NothingAssumption DEF CodeFits, OfAccounts, FactorTypes
<1>7. CASE BeginConfirm(r, e)
  BY <1>6, <1>7, BeginStep DEF BeginConfirm, Step
<1>8. CASE BeginDisable(r, e)
  BY <1>6, <1>8, BeginStep DEF BeginDisable, Step
<1>9. QED
  BY <1>1, <1>2, <1>3, <1>4, <1>5, <1>7, <1>8

-----------------------------------------------------------------------------
(* Accounts, organisations and memberships *)

\* An account is stored: that of a signup, which goes on to found, of an OAuth login,
\* which ends, or of an invitation, which goes on to join.
LEMMA AccountStep ==
  ASSUME AccountsInv, NEW r \in Request, NEW e \in Email, NEW origin \in Origin,
         e = req[r].who, account[e] = "none", account' = [account EXCEPT ![e] = origin],
         UNCHANGED <<load, founder, joined, factor, history>>,
         RequestTypes', Others(r), RequestInv(r)',
         req[r].pc \in {"signup", "oauth", "invite"},
         linked' \subseteq linked \cup Provider \X {e},
         \/ origin = "signup" /\ req'[r] = [req[r] EXCEPT !.pc = "found", !.new = TRUE]
         \/ origin = "oauth" /\ req'[r] = Idle
         \/ /\ origin = "invited" /\ req[r].pc = "invite"
            /\ req'[r] = [req[r] EXCEPT !.pc = "join", !.new = TRUE]
  PROVE  AccountsInv'
<1>0. /\ RowTypes /\ FactorTypes /\ RequestTypes /\ OfAccounts /\ Distinct
      /\ RequestsInv /\ SignupsInv /\ MembersInv /\ Onboarded
  BY Parts
<1>1. UNCHANGED <<secret, mfa, device, drawn, replaced, undone, crossed, broken, overtaken>>
  BY DEF factor, history
<1>2. req[r] \in Local /\ req'[r] \in Local
  BY <1>0 DEF RequestTypes
<1>3. /\ req'[r].pc \in {"found", "idle", "join"}
      /\ req'[r].pc = "found" => origin = "signup" /\ req'[r].who = e /\ req'[r].new
      /\ req'[r].pc = "join" => req[r].pc = "invite" /\ req'[r].org = req[r].org
      /\ origin \in {"signup", "invited"} => req'[r].who = e /\ req'[r].new
      /\ origin \in {"signup", "oauth", "invited"}
  BY <1>2, IdleFacts DEF Local
<1>4. /\ account' \in [Email -> Origin] /\ account'[e] = origin
      /\ \A x \in Email : x # e => account'[x] = account[x]
  BY <1>0 DEF RowTypes
<1>5. RowTypes' /\ Distinct'
  BY <1>0, <1>1, <1>4 DEF RowTypes, Distinct
<1>6. FactorTypes' /\ ConfirmationsInv' /\ AuthenticatorFits'
  BY <1>1, <1>3, FactorKept DEF Others
<1>7. OfAccounts'
  <2>2. \A x \in Email : account'[x] = "none" => account[x] = "none"
    BY <1>4
  <2>3. linked' \subseteq Provider \X Email /\ \A l \in linked' : account'[l[2]] # "none"
    BY <1>0, <1>3, <1>4 DEF OfAccounts
  <2>4. QED
    BY <1>0, <1>1, <2>2, <2>3 DEF OfAccounts
<1>8. RequestsInv'
  <2>1. \A x \in Email : account[x] # "none" =>
          account'[x] # "none" /\ (account[x] = "signup" => account'[x] = "signup")
    BY <1>4
  <2>2. QED
    BY <1>0, <2>1, RequestsKept DEF RowTypes
<1>9. SignupsInv'
  <2>1. /\ \A q \in Request : ~Signing(q, e)
        /\ \A o \in Org : founder[o] # e
        /\ joined[e] = <<>>
    BY <1>0, NothingAssumption DEF RequestsInv, RequestInv, Signing, Onboarded, OfAccounts
  <2>2. \A q \in Request, x \in Email : Signing(q, x)' =>
          \/ q = r /\ x = e /\ req'[r].pc = "found"
          \/ q # r /\ x # e /\ Signing(q, x) /\ req'[q] = req[q]
    BY <1>3, <2>1 DEF Signing, Others
  <2>3. SUFFICES ASSUME NEW q \in Request, NEW x \in Email, Signing(q, x)'
                 PROVE  SignupInv(q, x)'
    BY DEF SignupsInv
  <2>4. CASE q = r /\ x = e /\ req'[r].pc = "found"
    BY <1>1, <2>1, <2>2, <2>4 DEF SignupInv
  <2>5. CASE q # r /\ x # e /\ Signing(q, x) /\ req'[q] = req[q]
    <3>1. SignupInv(q, x)
      BY <1>0, <2>5 DEF SignupsInv
    <3>2. \A p \in Request \ {q} : ~Signing(p, x)'
      BY <2>2, <2>5, <3>1 DEF SignupInv
    <3>3. QED
      BY <1>1, <2>5, <3>1, <3>2 DEF SignupInv, Belongs
  <2>6. QED
    BY <2>2, <2>3, <2>4, <2>5
<1>10. MembersInv'
  <2>1. \A q \in Request : req'[q].pc \in {"invite", "join"} /\ req'[q].org # NoOrg =>
          Populated(req'[q].org)
    BY <1>0, <1>3 DEF MembersInv, Others
  <2>2. QED
    BY <1>0, <2>1, MembersKept
<1>11. Onboarded'
  <2>1. \A x \in Email : account'[x] = account[x] \/ account'[x] \notin {"signup", "invited"} \/ AtWork(x)'
    BY <1>3, <1>4 DEF AtWork
  <2>2. \A x \in Email : AtWork(x) => AtWork(x)' \/ x \in broken'
    BY <1>0 DEF AtWork, Others, RequestsInv, RequestInv
  <2>3. QED
    BY <1>0, <1>1, <1>4, <2>1, <2>2, OnboardingKept DEF RowTypes
<1>12. QED
  BY <1>5, <1>6, <1>7, <1>8, <1>9, <1>10, <1>11 DEF AccountsInv, AccountsTypeOK

\* A signup founds its organisation.
LEMMA FoundStep ==
  ASSUME AccountsInv, NEW r \in Request, NEW o \in Org, SignupOrganisation(r, o)
  PROVE  AccountsInv'
<1> PICK e : e = req[r].who
  OBVIOUS
<1>0. /\ RowTypes /\ FactorTypes /\ RequestTypes /\ OfAccounts /\ Distinct
      /\ RequestsInv /\ SignupsInv /\ MembersInv /\ Onboarded
  BY Parts
<1>1. /\ req[r].pc = "found" /\ founder[o] = NoOne /\ o # House
      /\ founder' = [founder EXCEPT ![o] = e]
      /\ req' = [req EXCEPT ![r] = [req[r] EXCEPT !.pc = "own", !.org = o]]
      /\ UNCHANGED <<load, account, linked, joined, secret, mfa, device, drawn, replaced,
                     undone, crossed, broken, overtaken>>
  BY <1>0 DEF SignupOrganisation, factor, history, RequestTypes
<1>2. /\ RequestTypes' /\ Others(r) /\ req'[r].pc = "own" /\ req'[r].org = o
      /\ req'[r].who = e /\ req'[r].new = req[r].new
  <2> DEFINE next == [req[r] EXCEPT !.pc = "own", !.org = o]
  <2>1. req[r] \in Local
    BY <1>0 DEF RequestTypes
  <2>2. next \in Local /\ next.pc = "own" /\ next.org = o /\ next.who = e /\ next.new = req[r].new
    BY <2>1 DEF Local, Step
  <2>3. req' = [req EXCEPT ![r] = next]
    BY <1>1
  <2> HIDE DEF next
  <2>4. QED
    BY <1>0, <2>2, <2>3 DEF RequestTypes, Others
<1>3. e \in Email /\ account[e] = "signup" /\ req[r].new /\ Signing(r, e) /\ SignupInv(r, e)
  BY <1>0, <1>1 DEF RequestsInv, RequestInv, Signing, SignupsInv
<1>4. /\ founder' \in [Org -> Email \cup {NoOne}] /\ founder'[o] = e
      /\ \A p \in Org : p # o => founder'[p] = founder[p]
  BY <1>0, <1>1, <1>3 DEF RowTypes
<1>5. RowTypes' /\ Distinct' /\ OfAccounts'
  BY <1>0, <1>1, <1>4 DEF RowTypes, Distinct, OfAccounts
<1>6. FactorTypes' /\ ConfirmationsInv' /\ AuthenticatorFits'
  BY <1>1, <1>2, FactorKept DEF Others
<1>7. RequestsInv'
  <2>1. RequestInv(r)'
    BY <1>1, <1>2, <1>3 DEF RequestInv
  <2>2. QED
    BY <1>0, <1>1, <1>2, <2>1, RequestsKept DEF RowTypes
<1>8. /\ \A x \in Email : ~Belongs(x, o)
      /\ \A x, p : Belongs(x, p)' <=> Belongs(x, p)
      /\ \A p \in Org : Populated(p) => p # o /\ Populated(p)'
  <2>1. ~Populated(o)
    BY <1>1 DEF Populated
  <2>2. \A x, p : Belongs(x, p)' <=> Belongs(x, p)
    BY <1>1 DEF Belongs
  <2>3. \A p \in Org : Populated(p) => p # o /\ Populated(p)'
    BY <1>4, <2>1, <2>2 DEF Populated, Belongs
  <2>4. QED
    BY <1>0, <2>1, <2>2, <2>3 DEF MembersInv
<1>9. SignupsInv'
  <2>1. SUFFICES ASSUME NEW q \in Request, NEW x \in Email, Signing(q, x)'
                 PROVE  SignupInv(q, x)'
    BY DEF SignupsInv
  <2>2. \A p \in Request, y \in Email : Signing(p, y)' <=> Signing(p, y)
    BY <1>1, <1>2 DEF Signing, Others
  <2>3. SignupInv(q, x) /\ \A p \in Request \ {q} : ~Signing(p, x)'
    BY <1>0, <2>1, <2>2 DEF SignupsInv, SignupInv
  <2>4. CASE q = r
    <3>1. x = e
      BY <1>2, <2>1, <2>4 DEF Signing
    <3>2. QED
      BY <1>1, <1>2, <1>4, <1>8, <2>3, <2>4, <3>1 DEF SignupInv, Belongs
  <2>5. CASE q # r
    <3>1. x # e /\ Signing(q, x) /\ req'[q] = req[q]
      BY <1>2, <1>3, <2>1, <2>2, <2>5 DEF SignupInv, Others
    <3>2. req[q].pc = "own" => req[q].org \in Org /\ founder[req[q].org] = x /\ req[q].org # o
      BY <1>0, <1>1, <2>3, NothingAssumption DEF SignupInv, RequestsInv, RequestInv
    <3>3. req[q].pc = "found" => \A p \in Org : founder'[p] # x
      BY <1>4, <2>3, <3>1 DEF SignupInv
    <3>4. req[q].pc = "own" => /\ founder'[req[q].org] = x
                               /\ \A y \in Email : ~Belongs(y, req[q].org)
      BY <1>4, <2>3, <3>2 DEF SignupInv
    <3>5. QED
      BY <1>1, <2>3, <3>1, <3>3, <3>4 DEF SignupInv, Belongs
  <2>6. QED
    BY <2>4, <2>5
<1>10. MembersInv'
  <2>1. founder'[House] = NoOne
    BY <1>0, <1>1, <1>4, NothingAssumption DEF MembersInv
  <2>2. \A x \in Email, p \in Org : Belongs(x, p)' => Populated(p)'
    BY <1>0, <1>8 DEF MembersInv
  <2>3. \A q \in Request : req'[q].pc \in {"invite", "join"} /\ req'[q].org # NoOrg =>
          q # r /\ req'[q] = req[q] /\ req[q].org \in Org /\ Populated(req[q].org)
    BY <1>0, <1>2 DEF MembersInv, Others, RequestTypes, Local
  <2>4. \A q \in Request : (req[q].pc \in {"invite", "join"} /\ req[q].org # NoOrg)' =>
          Populated(req[q].org)'
    BY <1>8, <2>3 DEF Populated, Belongs
  <2>5. QED
    BY <2>1, <2>2, <2>4 DEF MembersInv
<1>11. Onboarded'
  <2>1. \A x \in Email : AtWork(x) => AtWork(x)'
    BY <1>2 DEF AtWork, Others
  <2>2. \A x \in Email : account'[x] \in {"signup", "invited"} /\ joined'[x] = <<>> =>
          x \in broken' \/ AtWork(x)'
    BY <1>0, <1>1, <2>1 DEF Onboarded
  <2>3. \A p \in Org : founder[p] # e
    BY <1>1, <1>3 DEF SignupInv
  <2>4. \A p, s \in Org : founder'[p] # NoOne /\ founder'[p] = founder'[s] => p = s
    BY <1>0, <1>4, <2>3 DEF Onboarded
  <2>5. \A p \in Org : (founder[p] # NoOne =>
          /\ account[founder[p]] = "signup"
          /\ Belongs(founder[p], p) => Primary(founder[p]) = p \/ founder[p] \in overtaken)'
    <3>1. SUFFICES ASSUME NEW p \in Org, founder'[p] # NoOne
                   PROVE  (/\ account[founder[p]] = "signup"
                           /\ Belongs(founder[p], p) =>
                                Primary(founder[p]) = p \/ founder[p] \in overtaken)'
      OBVIOUS
    <3>2. CASE p = o
      <4>1. founder'[p] = e /\ ~Belongs(e, p)
        BY <1>3, <1>4, <1>8, <3>2
      <4>2. QED
        BY <1>1, <1>3, <4>1 DEF Belongs
    <3>3. CASE p # o
      <4>1. founder'[p] = founder[p] /\ founder[p] # NoOne
        BY <1>4, <3>1, <3>3
      <4>2. /\ account[founder[p]] = "signup"
            /\ Belongs(founder[p], p) => Primary(founder[p]) = p \/ founder[p] \in overtaken
        BY <1>0, <4>1 DEF Onboarded
      <4>3. QED
        BY <1>1, <4>1, <4>2 DEF Belongs, Primary
    <3>4. QED
      BY <3>2, <3>3
  <2>6. QED
    BY <2>2, <2>4, <2>5 DEF Onboarded
<1>12. QED
  BY <1>2, <1>5, <1>6, <1>7, <1>9, <1>10, <1>11 DEF AccountsInv, AccountsTypeOK

\* An account becomes a member: of the organisation that its signup founded, or of one
\* that is populated already.
LEMMA MemberStep ==
  ASSUME AccountsInv, NEW e \in Email, NEW o \in Org, Joins(e, o), ~Belongs(e, o),
         account[e] # "none", UNCHANGED <<load, account, linked, founder, factor, broken>>,
         overtaken \subseteq overtaken', overtaken' \subseteq Email,
         RequestTypes', RequestsInv',
         \A q \in Request, x \in Email : Signing(q, x)' =>
           Signing(q, x) /\ req'[q] = req[q] /\ (x = e => e \in overtaken'),
         \A q \in Request : req'[q].pc \in {"invite", "join", "confirm"} => req'[q] = req[q],
         \A x \in Email : AtWork(x) => AtWork(x)' \/ x = e,
         \/ Populated(o)
         \/ /\ founder[o] = e /\ (joined[e] # <<>> => e \in overtaken)
            /\ \A q \in Request : ~Signing(q, e)'
  PROVE  AccountsInv'
<1>0. /\ RowTypes /\ FactorTypes /\ OfAccounts /\ Distinct /\ SignupsInv /\ MembersInv
      /\ Onboarded
  BY Parts
<1>1. /\ joined' \in [Email -> Seq(Org)]
      /\ \A x \in Email, p \in Org : Belongs(x, p)' <=> Belongs(x, p) \/ (x = e /\ p = o)
      /\ \A x \in Email : x # e => joined'[x] = joined[x] /\ Primary(x)' = Primary(x)
      /\ joined'[e] # <<>> /\ Primary(e)' = IF joined[e] = <<>> THEN o ELSE Primary(e)
  BY <1>0, JoinFacts DEF RowTypes
<1>2. RowTypes'
  BY <1>0, <1>1 DEF RowTypes
<1>3. Distinct'
  BY <1>0, DistinctStep DEF RowTypes
<1>4. FactorTypes' /\ ConfirmationsInv' /\ AuthenticatorFits'
  BY FactorKept DEF factor
<1>5. OfAccounts'
  <2>1. \A x \in Email : account'[x] = "none" => x # e /\ account[x] = "none"
    OBVIOUS
  <2>2. QED
    BY <1>0, <1>1, <2>1 DEF OfAccounts, factor
<1>6. \A p \in Org : Populated(p) => Populated(p)'
  <2>1. SUFFICES ASSUME NEW p \in Org, Populated(p), p # House PROVE Populated(p)'
    BY DEF Populated
  <2>2. founder[p] \in Email /\ Belongs(founder[p], p)
    BY <1>0, <2>1 DEF Populated, RowTypes
  <2>3. PICK x \in Email : x = founder[p]
    BY <2>2
  <2>4. Belongs(x, p)'
    BY <1>1, <2>2, <2>3
  <2>5. QED
    BY <2>1, <2>3, <2>4 DEF Populated
<1>7. Populated(o)'
  <2>1. CASE Populated(o)
    BY <1>6, <2>1
  <2>2. CASE founder[o] = e
    BY <1>1, <2>2, NothingAssumption DEF Populated
  <2>3. QED
    BY <2>1, <2>2
<1>8. SignupsInv'
  <2>1. SUFFICES ASSUME NEW q \in Request, NEW x \in Email, Signing(q, x)'
                 PROVE  SignupInv(q, x)'
    BY DEF SignupsInv
  <2>2. Signing(q, x) /\ req'[q] = req[q] /\ (x = e => e \in overtaken') /\ SignupInv(q, x)
    BY <1>0, <2>1 DEF SignupsInv
  <2>3. \A p \in Request \ {q} : ~Signing(p, x)'
    BY <2>2 DEF SignupInv
  <2>4. joined'[x] # <<>> => x \in overtaken'
    BY <1>1, <2>2 DEF SignupInv
  <2>5. ASSUME req[q].pc = "own"
        PROVE  /\ founder'[req[q].org] = x
               /\ \A y \in Email : ~(Belongs(y, req[q].org))'
    <3>1. PICK p \in Org : p = req[q].org
      BY <2>1, <2>2, <2>5 DEF RequestsInv, RequestInv
    <3>2. founder[p] = x /\ \A y \in Email : ~Belongs(y, p)
      BY <2>2, <2>5, <3>1 DEF SignupInv
    <3>3. p # o
      BY <1>0, <2>1, <3>2, NothingAssumption DEF Populated, MembersInv
    <3>4. \A y \in Email : ~Belongs(y, p)'
      BY <1>1, <3>2, <3>3
    <3>5. QED
      BY <2>2, <3>1, <3>2, <3>4
  <2>6. req[q].pc = "found" => \A p \in Org : founder'[p] # x
    BY <2>2 DEF SignupInv
  <2>7. QED
    BY <2>2, <2>3, <2>4, <2>5, <2>6 DEF SignupInv
<1>9. MembersInv'
  <2>1. \A x \in Email, p \in Org : Belongs(x, p)' => Populated(p)'
    BY <1>0, <1>1, <1>6, <1>7 DEF MembersInv
  <2>2. ASSUME NEW q \in Request, req'[q].pc \in {"invite", "join"}, req'[q].org # NoOrg
        PROVE  Populated(req[q].org)'
    <3>1. PICK p \in Org : p = req'[q].org
      BY <2>2 DEF RequestTypes, Local
    <3>2. Populated(p)
      BY <1>0, <2>2, <3>1 DEF MembersInv
    <3>3. QED
      BY <1>6, <3>1, <3>2
  <2>3. QED
    BY <1>0, <2>1, <2>2 DEF MembersInv
<1>10. Onboarded'
  <2>1. \A x \in Email : account'[x] \in {"signup", "invited"} /\ joined'[x] = <<>> =>
          x \in broken' \/ AtWork(x)'
    BY <1>0, <1>1 DEF Onboarded
  <2>2. \A p, s \in Org : founder'[p] # NoOne /\ founder'[p] = founder'[s] => p = s
    BY <1>0 DEF Onboarded
  <2>3. ASSUME NEW p \in Org, founder'[p] # NoOne
        PROVE  (/\ account[founder[p]] = "signup"
                /\ Belongs(founder[p], p) => Primary(founder[p]) = p \/ founder[p] \in overtaken)'
    <3>1. PICK x \in Email : x = founder[p]
      BY <1>0, <2>3 DEF RowTypes
    <3>2. /\ account[x] = "signup"
          /\ Belongs(x, p) => Primary(x) = p \/ x \in overtaken
      BY <1>0, <2>3, <3>1 DEF Onboarded
    <3>3. Belongs(x, p) => joined[x] # <<>>
      BY DEF Belongs
    <3>4. Belongs(x, p)' => Primary(x)' = p \/ x \in overtaken'
      <4>1. CASE ~(x = e /\ p = o)
        BY <1>1, <3>2, <3>3, <4>1
      <4>2. CASE x = e /\ p = o
        <5>1. ~Populated(o)
          BY <1>0, <3>1, <4>2, NothingAssumption DEF Populated, MembersInv
        <5>2. QED
          BY <1>1, <4>2, <5>1
      <4>3. QED
        BY <4>1, <4>2
    <3>5. QED
      BY <3>1, <3>2, <3>4
  <2>4. QED
    BY <2>1, <2>2, <2>3 DEF Onboarded
<1>11. QED
  BY <1>2, <1>3, <1>4, <1>5, <1>8, <1>9, <1>10 DEF AccountsInv, AccountsTypeOK

\* A signup joins the organisation it founded.
LEMMA SignupMembershipStep ==
  ASSUME AccountsInv, NEW r \in Request, SignupMembership(r)
  PROVE  AccountsInv'
<1>0. RowTypes /\ RequestTypes /\ RequestsInv /\ SignupsInv
  BY Parts
<1>1. /\ req[r].pc = "own" /\ Finish(r) /\ Joins(req[r].who, req[r].org)
      /\ UNCHANGED <<load, account, linked, founder, factor, history>>
  BY DEF SignupMembership, Joins
<1>2. /\ req[r].who \in Email /\ req[r].org \in Org /\ account[req[r].who] = "signup"
      /\ Signing(r, req[r].who)
  BY <1>0, <1>1 DEF RequestsInv, RequestInv, Signing
<1>3. PICK e \in Email, o \in Org : e = req[r].who /\ o = req[r].org
  BY <1>2
<1>4. Joins(e, o) /\ SignupInv(r, e) /\ ~Belongs(e, o) /\ founder[o] = e /\ (joined[e] # <<>> => e \in overtaken)
  BY <1>0, <1>1, <1>2, <1>3 DEF SignupsInv, SignupInv, Joins
<1>5. RequestTypes' /\ req'[r] = Idle /\ Others(r)
  BY <1>0, <1>1, FinishFacts
<1>6. RequestsInv'
  <2>1. RequestInv(r)'
    BY <1>5, IdleFacts DEF RequestInv
  <2>2. QED
    BY <1>0, <1>1, <1>5, <2>1, RequestsKept DEF RowTypes
<1>7. /\ \A q \in Request, x \in Email : Signing(q, x)' =>
           Signing(q, x) /\ req'[q] = req[q] /\ x # e
      /\ \A q \in Request : ~Signing(q, e)'
  BY <1>3, <1>4, <1>5, IdleFacts DEF Signing, SignupInv, Others
<1>8. /\ \A q \in Request : req'[q].pc \in {"invite", "join", "confirm"} => req'[q] = req[q]
      /\ \A x \in Email : AtWork(x) => AtWork(x)' \/ x = e
  BY <1>3, <1>5, IdleFacts DEF Others, AtWork
<1>9. overtaken' = overtaken /\ broken' = broken /\ overtaken \subseteq Email
  BY <1>0, <1>1 DEF history, RowTypes
<1>10. QED
  BY <1>1, <1>2, <1>3, <1>4, <1>5, <1>6, <1>7, <1>8, <1>9, MemberStep

\* An invitation joins the tenant of whoever invited.
LEMMA JoinStep ==
  ASSUME AccountsInv, NEW r \in Request, JoinOrganisation(r)
  PROVE  AccountsInv'
<1>0. RowTypes /\ RequestTypes /\ RequestsInv /\ MembersInv
  BY Parts
<1>1. /\ req[r].pc = "join" /\ req[r].org # NoOrg /\ ~Belongs(req[r].who, req[r].org)
      /\ Finish(r) /\ GiveMembership(req[r].who, req[r].org)
      /\ UNCHANGED <<load, account, linked, founder, factor, broken>>
  BY DEF JoinOrganisation
<1>2. req[r].who \in Email /\ req[r].org \in Org /\ account[req[r].who] # "none" /\ Populated(req[r].org)
  BY <1>0, <1>1 DEF RequestsInv, RequestInv, RequestTypes, Local, MembersInv
<1>3. PICK e \in Email, o \in Org : e = req[r].who /\ o = req[r].org
  BY <1>2
<1>4. RequestTypes' /\ req'[r] = Idle /\ Others(r)
  BY <1>0, <1>1, FinishFacts
<1>5. RequestsInv'
  <2>1. RequestInv(r)'
    BY <1>4, IdleFacts DEF RequestInv
  <2>2. QED
    BY <1>0, <1>1, <1>4, <2>1, RequestsKept DEF RowTypes
<1>6. /\ Joins(e, o) /\ overtaken \subseteq overtaken' /\ overtaken' \subseteq Email
      /\ \A q \in Request : Signing(q, e) => e \in overtaken'
  BY <1>0, <1>1, <1>3 DEF GiveMembership, Joins, RowTypes, Signing
<1>7. \A q \in Request, x \in Email : Signing(q, x)' =>
        Signing(q, x) /\ req'[q] = req[q] /\ (x = e => e \in overtaken')
  BY <1>4, <1>6, IdleFacts DEF Signing, Others
<1>8. /\ \A q \in Request : req'[q].pc \in {"invite", "join", "confirm"} => req'[q] = req[q]
      /\ \A x \in Email : AtWork(x) => AtWork(x)' \/ x = e
  BY <1>3, <1>4, IdleFacts DEF Others, AtWork
<1>9. QED
  BY <1>1, <1>2, <1>3, <1>4, <1>5, <1>6, <1>7, <1>8, MemberStep

\* The requests that store an account.
LEMMA InsertSteps ==
  ASSUME AccountsInv, NEW r \in Request,
         SignupAccount(r) \/ OAuthAccount(r) \/ InviteAccount(r)
  PROVE  AccountsInv'
<1>0. RequestTypes /\ RequestsInv
  BY Parts
<1>1. req[r].pc \in {"signup", "oauth", "invite"} /\ req[r].who \in Email /\ req[r] \in Local
  BY <1>0 DEF SignupAccount, OAuthAccount, InviteAccount, RequestsInv, RequestInv, RequestTypes
<1>2. PICK e \in Email : e = req[r].who
  BY <1>1
<1>3. ASSUME NEW step \in {"found", "join"}, GoOn(r, step)
      PROVE  /\ RequestTypes' /\ Others(r)
             /\ req'[r] = [req[r] EXCEPT !.pc = step, !.new = TRUE]
             /\ req'[r].pc = step /\ req'[r].who = e /\ req'[r].new
  <2> DEFINE next == [req[r] EXCEPT !.pc = step, !.new = TRUE]
  <2>1. req' = [req EXCEPT ![r] = next]
    BY <1>0, <1>3 DEF GoOn, RequestTypes
  <2>2. next \in Local /\ next.pc = step /\ next.who = e /\ next.new
    BY <1>1, <1>2 DEF Local, Step
  <2> HIDE DEF next
  <2>3. RequestTypes' /\ Others(r) /\ req'[r] = next
    BY <1>0, <2>1, <2>2 DEF RequestTypes, Others
  <2>4. QED
    BY <2>2, <2>3 DEF next
<1>4. CASE SignupAccount(r)
  <2>1. /\ account[e] = "none" /\ account' = [account EXCEPT ![e] = "signup"]
        /\ GoOn(r, "found") /\ UNCHANGED <<load, linked, founder, joined, factor, history>>
    BY <1>2, <1>4 DEF SignupAccount, Insert
  <2>2. account'[e] = "signup"
    BY <2>1, Parts DEF RowTypes
  <2>3. RequestInv(r)'
    BY <1>3, <2>1, <2>2 DEF RequestInv
  <2>4. "signup" \in Origin
    BY DEF Origin
  <2>5. QED
    BY <1>1, <1>2, <1>3, <2>1, <2>3, <2>4, AccountStep
<1>5. CASE OAuthAccount(r)
  <2>1. /\ account[e] = "none" /\ account' = [account EXCEPT ![e] = "oauth"] /\ Finish(r)
        /\ linked' = linked \cup {<<req[r].via, e>>} /\ req[r].via \in Provider
        /\ UNCHANGED <<load, founder, joined, factor, history>>
    BY <1>0, <1>2, <1>5 DEF OAuthAccount, Insert, Link, RequestsInv, RequestInv
  <2>2. RequestTypes' /\ Others(r) /\ req'[r] = Idle
    BY <1>0, <2>1, FinishFacts
  <2>3. RequestInv(r)'
    BY <2>2, IdleFacts DEF RequestInv
  <2>4. "oauth" \in Origin
    BY DEF Origin
  <2>5. linked' \subseteq linked \cup Provider \X {e}
    BY <2>1
  <2>6. QED
    BY <1>1, <1>2, <2>1, <2>2, <2>3, <2>4, <2>5, AccountStep
<1>6. CASE InviteAccount(r)
  <2>1. /\ account[e] = "none" /\ account' = [account EXCEPT ![e] = "invited"]
        /\ GoOn(r, "join") /\ UNCHANGED <<load, linked, founder, joined, factor, history>>
        /\ req[r].pc = "invite"
    BY <1>2, <1>6 DEF InviteAccount, Insert
  <2>2. account'[e] = "invited"
    BY <2>1, Parts DEF RowTypes
  <2>3. RequestInv(r)'
    BY <1>3, <2>1, <2>2 DEF RequestInv
  <2>4. "invited" \in Origin
    BY DEF Origin
  <2>5. QED
    BY <1>1, <1>2, <1>3, <2>1, <2>3, <2>4, AccountStep
<1>7. QED
  BY <1>4, <1>5, <1>6

\* An account that exists gets a provider's id.
LEMMA LinkStep ==
  ASSUME AccountsInv, NEW r \in Request, LinkAccount(r)
  PROVE  AccountsInv'
<1>0. RowTypes /\ RequestTypes /\ OfAccounts /\ RequestsInv
  BY Parts
<1>1. /\ req[r].pc = "link" /\ Finish(r) /\ linked' = linked \cup {<<req[r].via, req[r].who>>}
      /\ UNCHANGED <<load, account, founder, joined, factor, history>>
  BY DEF LinkAccount, Link
<1>2. /\ req[r].who \in Email /\ account[req[r].who] # "none" /\ req[r].via \in Provider
      /\ ~req[r].new
  BY <1>0, <1>1 DEF RequestsInv, RequestInv
<1>3. RequestTypes' /\ req'[r] = Idle /\ Others(r)
  BY <1>0, <1>1, FinishFacts
<1>4. RowTypes' /\ Distinct' /\ SignupsInv' /\ MembersInv' /\ Onboarded'
  BY <1>0, <1>1, <1>2, <1>3, IdleFacts, RowsKept DEF history, RowTypes
<1>5. FactorTypes' /\ ConfirmationsInv' /\ AuthenticatorFits'
  BY <1>1, <1>3, IdleFacts, FactorKept DEF factor, Others
<1>6. OfAccounts'
  BY <1>0, <1>1, <1>2 DEF OfAccounts, factor
<1>7. RequestsInv'
  BY <1>0, <1>1, <1>3, IdleFacts, RequestsKept DEF RequestInv, RowTypes
<1>8. QED
  BY <1>3, <1>4, <1>5, <1>6, <1>7 DEF AccountsInv, AccountsTypeOK

-----------------------------------------------------------------------------
(* The second factor *)

\* What a step of a request for the second factor keeps, besides the factor itself.
LEMMA FactorRows ==
  ASSUME AccountsInv, NEW r \in Request, Others(r), RequestTypes', RequestInv(r)',
         req[r].pc \in {"setup", "answer", "confirm", "disable"},
         req'[r].pc \in {"idle", "answer"},
         UNCHANGED <<load, rows, history>>,
         \A x \in Email : account[x] = "none" => x \notin mfa' /\ secret'[x] = NoSecret
  PROVE  /\ RowTypes' /\ RequestTypes' /\ OfAccounts' /\ Distinct'
         /\ RequestsInv' /\ SignupsInv' /\ MembersInv' /\ Onboarded'
<1>0. RowTypes /\ OfAccounts /\ RequestsInv
  BY Parts
<1>1. UNCHANGED <<account, linked, founder, joined, broken, overtaken>>
  BY DEF rows, history
<1>2. ~req[r].new
  BY <1>0 DEF RequestsInv, RequestInv
<1>3. RowTypes' /\ Distinct' /\ SignupsInv' /\ MembersInv' /\ Onboarded'
  BY <1>0, <1>1, <1>2, RowsKept DEF RowTypes
<1>4. OfAccounts'
  BY <1>0, <1>1 DEF OfAccounts
<1>5. RequestsInv'
  BY <1>0, <1>1, RequestsKept DEF RowTypes
<1>6. QED
  BY <1>3, <1>4, <1>5

\* A new secret; a confirmation under way for the old one is known to be overtaken.
LEMMA StoreSecretStep ==
  ASSUME AccountsInv, NEW r \in Request, NEW k \in Secret, StoreSecret(r, k)
  PROVE  AccountsInv'
<1>0. /\ FactorTypes /\ RequestTypes /\ OfAccounts /\ RequestsInv
      /\ ConfirmationsInv /\ AuthenticatorFits
  BY Parts
<1>1. req[r].pc = "setup" /\ req[r].who \in Email /\ account[req[r].who] # "none"
  BY <1>0 DEF StoreSecret, RequestsInv, RequestInv
<1>2. PICK e \in Email : e = req[r].who
  BY <1>1
<1>3. /\ secret' = [secret EXCEPT ![e] = k] /\ drawn' = drawn \cup {k}
      /\ replaced' = IF e \in mfa \/ \E q \in Request : req[q].who = e /\ req[q].pc = "confirm"
                     THEN replaced \cup {k} ELSE replaced
      /\ crossed' = crossed \ {e}
      /\ UNCHANGED <<load, rows, mfa, device, undone, history>>
  BY <1>2 DEF StoreSecret
<1> DEFINE next == [req[r] EXCEPT !.pc = "answer", !.key = k]
<1>4. req' = [req EXCEPT ![r] = next]
  BY <1>0 DEF StoreSecret, RequestTypes
<1>5. next \in Local /\ next.pc = "answer" /\ next.who = e /\ next.key = k /\ next.new = req[r].new
  BY <1>0, <1>2 DEF RequestTypes, Local, Step
<1> HIDE DEF next
<1>6. RequestTypes' /\ Others(r) /\ req'[r] = next
  BY <1>0, <1>4, <1>5 DEF RequestTypes, Others
<1>7. RequestInv(r)'
  BY <1>0, <1>1, <1>2, <1>3, <1>5, <1>6 DEF RequestInv, RequestsInv, rows
<1>8. secret' \in [Email -> Secret \cup {NoSecret}] /\ secret'[e] = k
      /\ \A x \in Email : x # e => secret'[x] = secret[x]
  BY <1>0, <1>3 DEF FactorTypes
<1>9. FactorTypes'
  BY <1>0, <1>3, <1>8 DEF FactorTypes
<1>10. ConfirmationsInv'
  <2>1. SUFFICES ASSUME NEW q \in Request, req'[q].pc = "confirm"
                 PROVE  q \in undone \/ (CodeFits(req[q].who) \/ secret[req[q].who] \in replaced)'
    BY <1>3 DEF ConfirmationsInv
  <2>2. req'[q] = req[q] /\ req[q].who \in Email
    BY <1>0, <1>5, <1>6, <2>1 DEF Others, RequestsInv, RequestInv
  <2>3. CASE req[q].who = e
    BY <1>3, <1>8, <2>1, <2>2, <2>3
  <2>4. CASE req[q].who # e
    BY <1>0, <1>3, <1>8, <2>1, <2>2, <2>4 DEF ConfirmationsInv, CodeFits
  <2>5. QED
    BY <2>3, <2>4
<1>11. AuthenticatorFits'
  <2>1. SUFFICES ASSUME NEW x \in Email, x \in mfa
                 PROVE  (CodeFits(x) \/ secret[x] \in replaced \/ x \in crossed)'
    BY <1>0, <1>3 DEF AuthenticatorFits, FactorTypes
  <2>2. CASE x = e
    BY <1>3, <1>8, <2>1, <2>2
  <2>3. CASE x # e
    BY <1>0, <1>3, <1>8, <2>1, <2>3 DEF AuthenticatorFits, CodeFits
  <2>4. QED
    BY <2>2, <2>3
<1>12. \A x \in Email : account[x] = "none" => x \notin mfa' /\ secret'[x] = NoSecret
  BY <1>0, <1>1, <1>2, <1>3, <1>8 DEF OfAccounts
<1>13. QED
  BY <1>1, <1>3, <1>5, <1>6, <1>7, <1>9, <1>10, <1>11, <1>12, FactorRows DEF AccountsInv, AccountsTypeOK

\* The steps that end a request for the second factor: the scan, the switches.
LEMMA FactorSteps ==
  ASSUME AccountsInv, NEW r \in Request, ScanSecret(r) \/ SwitchOn(r) \/ SwitchOff(r)
  PROVE  AccountsInv'
<1>0. /\ FactorTypes /\ RequestTypes /\ OfAccounts /\ RequestsInv
      /\ ConfirmationsInv /\ AuthenticatorFits
  BY Parts
<1>1. req[r].pc \in {"answer", "confirm", "disable"} /\ Finish(r) /\ UNCHANGED <<load, rows, history>>
  BY DEF ScanSecret, SwitchOn, SwitchOff
<1>2. req[r].who \in Email /\ account[req[r].who] # "none"
  BY <1>0, <1>1 DEF RequestsInv, RequestInv
<1>3. PICK e \in Email : e = req[r].who
  BY <1>2
<1>4. RequestTypes' /\ req'[r] = Idle /\ Others(r)
  BY <1>0, <1>1, FinishFacts
<1>5. RequestInv(r)'
  BY <1>4, IdleFacts DEF RequestInv
<1>6. \A q \in Request : req'[q].pc = "confirm" => q # r /\ req'[q] = req[q] /\ req[q].who \in Email
  BY <1>0, <1>4, IdleFacts DEF Others, RequestsInv, RequestInv
<1>7. ASSUME FactorTypes', ConfirmationsInv', AuthenticatorFits',
             \A x \in Email : account[x] = "none" => x \notin mfa' /\ secret'[x] = NoSecret
      PROVE  AccountsInv'
  BY <1>1, <1>4, <1>5, <1>7, IdleFacts, FactorRows DEF AccountsInv, AccountsTypeOK
<1>8. CASE ScanSecret(r)
  <2>1. /\ device' = [device EXCEPT ![e] = @ \cup {req[r].key}] /\ req[r].key \in Secret
        /\ UNCHANGED <<secret, mfa, drawn, replaced, undone, crossed>>
    BY <1>0, <1>3, <1>8 DEF ScanSecret, RequestsInv, RequestInv
  <2>2. device' \in [Email -> SUBSET Secret] /\ \A x \in Email : device[x] \subseteq device'[x]
    BY <1>0, <2>1 DEF FactorTypes
  <2>3. FactorTypes'
    BY <1>0, <2>1, <2>2 DEF FactorTypes
  <2>4. \A x \in Email : CodeFits(x) => CodeFits(x)'
    BY <2>1, <2>2 DEF CodeFits
  <2>5. ConfirmationsInv'
    BY <1>0, <1>6, <2>1, <2>4 DEF ConfirmationsInv
  <2>6. AuthenticatorFits'
    BY <1>0, <2>1, <2>4 DEF AuthenticatorFits, FactorTypes
  <2>7. QED
    BY <1>0, <1>7, <2>1, <2>3, <2>5, <2>6 DEF OfAccounts
<1>9. CASE SwitchOn(r)
  <2>1. /\ req[r].pc = "confirm" /\ mfa' = mfa \cup {e} /\ undone' = undone \ {r}
        /\ crossed' = IF r \in undone THEN crossed \cup {e} ELSE crossed
        /\ UNCHANGED <<secret, device, drawn, replaced>>
    BY <1>3, <1>9 DEF SwitchOn, rows
  <2>2. FactorTypes'
    BY <1>0, <2>1 DEF FactorTypes
  <2>3. \A x \in Email : CodeFits(x)' <=> CodeFits(x)
    BY <2>1 DEF CodeFits
  <2>4. ConfirmationsInv'
    BY <1>0, <1>6, <2>1, <2>3 DEF ConfirmationsInv
  <2>5. AuthenticatorFits'
    <3>1. SUFFICES ASSUME NEW x \in Email, x \in mfa'
                   PROVE  CodeFits(x) \/ secret[x] \in replaced \/ x \in crossed'
      BY <2>1, <2>2, <2>3 DEF AuthenticatorFits, FactorTypes
    <3>2. CASE x = e
      BY <1>0, <1>3, <2>1, <3>2 DEF ConfirmationsInv
    <3>3. CASE x # e
      BY <1>0, <2>1, <3>1, <3>3 DEF AuthenticatorFits
    <3>4. QED
      BY <3>2, <3>3
  <2>6. QED
    BY <1>0, <1>2, <1>3, <1>7, <2>1, <2>2, <2>4, <2>5 DEF OfAccounts
<1>10. CASE SwitchOff(r)
  <2>1. /\ mfa' = mfa \ {e} /\ secret' = [secret EXCEPT ![e] = NoSecret]
        /\ undone' = undone \cup {q \in Request : req[q].who = e /\ req[q].pc = "confirm"}
        /\ crossed' = crossed \ {e} /\ UNCHANGED <<device, drawn, replaced>>
    BY <1>3, <1>10 DEF SwitchOff
  <2>2. /\ secret' \in [Email -> Secret \cup {NoSecret}] /\ secret'[e] = NoSecret
        /\ \A x \in Email : x # e => secret'[x] = secret[x]
    BY <1>0, <2>1 DEF FactorTypes
  <2>3. FactorTypes'
    BY <1>0, <2>1, <2>2 DEF FactorTypes
  <2>4. \A x \in Email : x # e => (CodeFits(x)' <=> CodeFits(x))
    BY <2>1, <2>2 DEF CodeFits
  <2>5. ConfirmationsInv'
    <3>1. SUFFICES ASSUME NEW q \in Request, req'[q].pc = "confirm", q \notin undone'
                   PROVE  (CodeFits(req[q].who) \/ secret[req[q].who] \in replaced)'
      BY DEF ConfirmationsInv
    <3>2. req'[q] = req[q] /\ req[q].who \in Email /\ req[q].who # e /\ q \notin undone
      BY <1>6, <2>1, <3>1
    <3>3. QED
      BY <1>0, <2>1, <2>2, <2>4, <3>1, <3>2 DEF ConfirmationsInv, CodeFits
  <2>6. AuthenticatorFits'
    <3>1. SUFFICES ASSUME NEW x \in Email, x \in mfa'
                   PROVE  (CodeFits(x) \/ secret[x] \in replaced \/ x \in crossed)'
      BY <2>3 DEF AuthenticatorFits, FactorTypes
    <3>2. x \in mfa /\ x # e
      BY <2>1, <3>1
    <3>3. QED
      BY <1>0, <2>1, <2>2, <2>4, <3>2 DEF AuthenticatorFits
  <2>7. QED
    BY <1>0, <1>7, <2>1, <2>2, <2>3, <2>5, <2>6 DEF OfAccounts
<1>11. QED
  BY <1>8, <1>9, <1>10

-----------------------------------------------------------------------------
(* Every step *)

\* A request is rejected or dies.
LEMMA FailStep ==
  ASSUME AccountsInv, NEW r \in Request, Fail(r)
  PROVE  AccountsInv'
<1>0. RowTypes /\ RequestTypes /\ OfAccounts /\ RequestsInv
  BY Parts
<1>1. /\ req[r].pc # "idle" /\ Finish(r) /\ undone' = undone \ {r}
      /\ broken' = IF req[r].new THEN broken \cup {req[r].who} ELSE broken
      /\ UNCHANGED <<load, account, linked, founder, joined, secret, mfa, device, drawn,
                     replaced, crossed, overtaken>>
  BY DEF Fail, rows
<1>2. req[r].who \in Email
  BY <1>0, <1>1 DEF RequestsInv, RequestInv
<1>3. RequestTypes' /\ req'[r] = Idle /\ Others(r)
  BY <1>0, <1>1, FinishFacts
<1>4. RowTypes' /\ Distinct' /\ SignupsInv' /\ MembersInv' /\ Onboarded'
  BY <1>0, <1>1, <1>2, <1>3, IdleFacts, RowsKept DEF RowTypes
<1>5. FactorTypes' /\ ConfirmationsInv' /\ AuthenticatorFits'
  <2>1. \A q \in Request : req'[q].pc = "confirm" =>
          req'[q] = req[q] /\ (q \in undone => q \in undone')
    BY <1>1, <1>3, IdleFacts DEF Others
  <2>2. QED
    BY <1>1, <2>1, FactorKept
<1>6. OfAccounts'
  BY <1>0, <1>1 DEF OfAccounts
<1>7. RequestsInv'
  BY <1>0, <1>1, <1>3, IdleFacts, RequestsKept DEF RequestInv, RowTypes
<1>8. QED
  BY <1>3, <1>4, <1>5, <1>6, <1>7 DEF AccountsInv, AccountsTypeOK

\* Every request of Accounts.
LEMMA AccountsStep ==
  ASSUME AccountsInv, Next
  PROVE  AccountsInv'
<1>1. PICK r \in Request : NewRequest(r) \/ HandlerStep(r) \/ Fail(r)
  BY DEF Next
<1>2. CASE NewRequest(r)
  BY <1>2, NewRequestStep
<1>3. CASE HandlerStep(r)
  <2>1. CASE SignupAccount(r) \/ OAuthAccount(r) \/ InviteAccount(r)
    BY <2>1, InsertSteps
  <2>2. ASSUME NEW o \in Org, SignupOrganisation(r, o) PROVE AccountsInv'
    BY <2>2, FoundStep
  <2>3. ASSUME NEW k \in Secret, StoreSecret(r, k) PROVE AccountsInv'
    BY <2>3, StoreSecretStep
  <2>4. CASE ScanSecret(r) \/ SwitchOn(r) \/ SwitchOff(r)
    BY <2>4, FactorSteps
  <2>5. QED
    BY <1>3, <2>1, <2>2, <2>3, <2>4, SignupMembershipStep, JoinStep, LinkStep DEF HandlerStep
<1>4. CASE Fail(r)
  BY <1>4, FailStep
<1>5. QED
  BY <1>1, <1>2, <1>3, <1>4

\* The seed's account takes a free e-mail.
LEMMA SeedAccountStep ==
  ASSUME AccountsInv, NEW s \in Run, SeedAccount(s)
  PROVE  AccountsInv'
<1>0. /\ RowTypes /\ FactorTypes /\ RequestTypes /\ OfAccounts /\ Distinct
      /\ RequestsInv /\ SignupsInv /\ MembersInv /\ ConfirmationsInv /\ Onboarded
      /\ AuthenticatorFits
  BY Parts
<1>1. /\ account' = IF account[DemoEmail] = "none"
                    THEN [account EXCEPT ![DemoEmail] = "seeded"] ELSE account
      /\ UNCHANGED <<load, linked, founder, joined, secret, mfa, device, drawn, replaced,
                     undone, crossed, req, broken, overtaken>>
  BY DEF SeedAccount, factor, history
<1>2. /\ account' \in [Email -> Origin]
      /\ \A x \in Email : account[x] # "none" => account'[x] = account[x]
      /\ \A x \in Email : account'[x] = account[x] \/ account'[x] = "seeded"
  BY <1>0, <1>1 DEF RowTypes, Origin
<1>3. RowTypes' /\ RequestTypes' /\ Distinct'
  BY <1>0, <1>1, <1>2 DEF RowTypes, RequestTypes, Distinct
<1>4. FactorTypes' /\ ConfirmationsInv' /\ AuthenticatorFits'
  BY <1>1, FactorKept
<1>5. OfAccounts'
  BY <1>0, <1>1, <1>2 DEF OfAccounts
<1>6. RequestsInv'
  BY <1>0, <1>1, <1>2 DEF RequestsInv, RequestInv
<1>7. SignupsInv'
  BY <1>0, <1>1, SignupsKept DEF Signing
<1>8. MembersInv'
  BY <1>0, <1>1, MembersKept DEF MembersInv
<1>9. Onboarded'
  <2>1. \A x \in Email : AtWork(x)' <=> AtWork(x)
    BY <1>1 DEF AtWork
  <2>2. QED
    BY <1>0, <1>1, <1>2, <2>1, OnboardingKept DEF RowTypes
<1>10. QED
  BY <1>3, <1>4, <1>5, <1>6, <1>7, <1>8, <1>9 DEF AccountsInv, AccountsTypeOK

\* A step that leaves the requests' variables alone.
LEMMA AccountsUnchanged ==
  ASSUME AccountsInv, UNCHANGED vars
  PROVE  AccountsInv'
BY DEF vars, rows, factor, history, AccountsInv, AccountsTypeOK, RowTypes, FactorTypes, RequestTypes,
  OfAccounts, Distinct, RequestsInv, RequestInv, SignupsInv, SignupInv, Signing, MembersInv,
  Populated, ConfirmationsInv, Onboarded, AtWork, AuthenticatorFits, Belongs, Primary,
  CodeFits

\* The seed's account joins the seeded organisation; a run reaches that call after the
\* account's, so that it is there.
LEMMA SeedMembershipStep ==
  ASSUME AccountsInv, SeededInv, NEW s \in Run, SeedMembership(s)
  PROVE  AccountsInv'
<1>0. RowTypes /\ RequestTypes /\ RequestsInv
  BY Parts
<1>1. UNCHANGED <<load, account, linked, founder, factor, req, broken>> /\ account[DemoEmail] # "none"
  BY DEF SeedMembership, SeededInv
<1>2. CASE Belongs(DemoEmail, House)
  BY <1>2, AccountsUnchanged DEF SeedMembership, vars, rows, history
<1>3. CASE ~Belongs(DemoEmail, House)
  <2>1. GiveMembership(DemoEmail, House)
    BY <1>3 DEF SeedMembership
  <2>2. PICK e \in Email, o \in Org : e = DemoEmail /\ o = House
    BY SeedAssumption, NothingAssumption
  <2>3. /\ Joins(e, o) /\ overtaken \subseteq overtaken' /\ overtaken' \subseteq Email
        /\ \A q \in Request : Signing(q, e) => e \in overtaken'
    BY <1>0, <2>1, <2>2 DEF GiveMembership, Joins, RowTypes, Signing
  <2>4. RequestTypes' /\ RequestsInv'
    BY <1>0, <1>1 DEF RequestTypes, RequestsInv, RequestInv
  <2>5. /\ \A q \in Request, x \in Email : Signing(q, x)' =>
             Signing(q, x) /\ req'[q] = req[q] /\ (x = e => e \in overtaken')
        /\ \A x \in Email : AtWork(x)' <=> AtWork(x)
    BY <1>1, <2>3 DEF Signing, AtWork
  <2>6. Populated(o)
    BY <2>2 DEF Populated
  <2>7. QED
    BY <1>1, <1>3, <2>2, <2>3, <2>4, <2>5, <2>6, MemberStep
<1>4. QED
  BY <1>2, <1>3

\* An account never goes away.
LEMMA AccountsStay ==
  ASSUME RowTypes, NEW e \in Email, account[e] # "none",
         Next \/ \E s \in Run : SeedStep(s)
  PROVE  account'[e] # "none"
<1>1. account \in [Email -> Origin]
  BY DEF RowTypes
<1>2. ASSUME Next PROVE account'[e] # "none"
  <2>1. PICK r \in Request : NewRequest(r) \/ HandlerStep(r) \/ Fail(r)
    BY <1>2 DEF Next
  <2>2. CASE NewRequest(r)
    BY <2>2 DEF NewRequest, BeginSignup, ExchangeGoogleCode, ExchangeGithubCode, BeginOAuth,
      BeginInvite, BeginSetup, BeginConfirm, BeginDisable, rows
  <2>3. CASE HandlerStep(r)
    BY <1>1, <2>3 DEF HandlerStep, SignupAccount, SignupMembership, SignupOrganisation, LinkAccount,
      OAuthAccount, InviteAccount, JoinOrganisation, StoreSecret, ScanSecret, SwitchOn, SwitchOff,
      Insert, rows
  <2>4. CASE Fail(r)
    BY <2>4 DEF Fail, rows
  <2>5. QED
    BY <2>1, <2>2, <2>3, <2>4
<1>3. ASSUME NEW s \in Run, SeedStep(s) PROVE account'[e] # "none"
  BY <1>1, <1>3 DEF SeedStep, StartSeed, SeedOrganisation, SeedAccount, SeedMembership, SeedCatalog,
    SeedPlans, SeedProduct, SeedTasks, SeedSubscription, LookFor, SeedMissing, SeedMessage,
    ClearMetrics, SeedMetrics, CutShort, vars, rows
<1>4. QED
  BY <1>2, <1>3

\* The tables of the script.
ScriptTypes ==
  /\ demo \in [Kind -> Nat] /\ run \in [Run -> RunStep]
  /\ started \subseteq Run /\ shared \in BOOLEAN

\* A step of the script goes on to a step, stores a number of rows, and leaves the
\* requests alone but for its account and its membership.
LEMMA ScriptStep ==
  ASSUME ScriptTypes, NEW s \in Run, SeedStep(s)
  PROVE  /\ ScriptTypes'
         /\ UNCHANGED vars \/ SeedAccount(s) \/ SeedMembership(s)
         /\ \A q \in Run : At(q, "member")' => At(q, "member") \/ SeedAccount(q)
<1> DEFINE Fine == /\ ScriptTypes'
                   /\ UNCHANGED vars \/ SeedAccount(s) \/ SeedMembership(s)
                   /\ \A q \in Run : At(q, "member")' => At(q, "member") \/ SeedAccount(q)
<1> SUFFICES Fine
  OBVIOUS
<1>1. CASE StartSeed(s)
  BY <1>1 DEF StartSeed, ScriptTypes, Goes, At, RunStep
<1>2. CASE SeedAccount(s) \/ SeedMembership(s)
  BY <1>2 DEF SeedAccount, SeedMembership, ScriptTypes, Goes, At, RunStep
<1>3. CASE CutShort(s)
  BY <1>3 DEF CutShort, ScriptTypes, Goes, At, RunStep
<1>4. ASSUME NEW k \in Kind, NEW n \in Nat, NEW next \in RunStep \ {"member"}, Stores(s, k, n, next),
             UNCHANGED <<vars, started, cut, shared>>
      PROVE  Fine
  BY <1>4 DEF Stores, ScriptTypes, Goes, At
<1>5. \A k \in Kind : demo[k] \in Nat /\ demo[k] + 0 \in Nat /\ demo[k] + 1 \in Nat
  BY DEF ScriptTypes
<1>6. /\ {"organisation", "catalog", "plan", "product", "task", "subscription", "message", "metrics"}
           \subseteq Kind
      /\ {"account", "plan", "product", "task", "subscription", "findRunbook", "metrics",
          "findTicket", "findInvoice"} \subseteq RunStep \ {"member"}
  BY DEF Kind, Upserted, Added, RunStep
<1> HIDE DEF Fine
<1>7. CASE SeedOrganisation(s)
  BY <1>4, <1>5, <1>6, <1>7 DEF SeedOrganisation
<1>8. CASE SeedCatalog(s)
  BY <1>4, <1>5, <1>6, <1>8 DEF SeedCatalog
<1>9. CASE SeedPlans(s)
  BY <1>4, <1>5, <1>6, <1>9 DEF SeedPlans
<1>10. CASE SeedProduct(s)
  BY <1>4, <1>5, <1>6, <1>10 DEF SeedProduct
<1>11. CASE SeedTasks(s)
  BY <1>4, <1>5, <1>6, <1>11 DEF SeedTasks
<1>12. CASE SeedSubscription(s)
  BY <1>4, <1>5, <1>6, <1>12 DEF SeedSubscription
<1>13. CASE SeedMessage(s)
  BY <1>4, <1>5, <1>6, <1>13 DEF SeedMessage
<1>14. CASE ClearMetrics(s)
  BY <1>4, <1>5, <1>6, <1>14 DEF ClearMetrics
<1>15. CASE SeedMetrics(s)
  BY <1>4, <1>5, <1>6, <1>15 DEF SeedMetrics
<1>16. ASSUME NEW k \in LookedUp, LookFor(s, k) \/ SeedMissing(s, k) PROVE Fine
  <2>1. k \in Kind /\ After(k) \in RunStep \ {"member"}
    BY DEF After, LookedUp, Kind, RunStep
  <2>2. CASE LookFor(s, k)
    BY <2>1, <2>2 DEF LookFor, LookedUp, Fine, ScriptTypes, Goes, At, RunStep
  <2>3. CASE SeedMissing(s, k)
    BY <1>4, <1>5, <2>1, <2>3 DEF SeedMissing
  <2>4. QED
    BY <1>16, <2>2, <2>3
<1>17. QED
  BY <1>1, <1>2, <1>3, <1>7, <1>8, <1>9, <1>10, <1>11, <1>12, <1>13, <1>14, <1>15, <1>16 DEF SeedStep

-----------------------------------------------------------------------------
(* The demo data *)

\* The step of a kind has a number.
LEMMA PlaceOfKind ==
  ASSUME NEW k \in Kind
  PROVE  Place(k) \in Nat
BY DEF Place, Kind, Upserted, Added, LookedUp

\* Whoever had added a row by now has added it later.
LEMMA AddersGrow ==
  ASSUME ScriptTypes, AddedOnce, IsFiniteSet(started'), NEW k \in Added,
         Adders(k) \subseteq Adders(k)', demo'[k] = demo[k]
  PROVE  demo'[k] <= Cardinality(Adders(k)')
<1>1. IsFiniteSet(Adders(k)')
  BY FS_Subset DEF Adders
<1>2. /\ Cardinality(Adders(k)) <= Cardinality(Adders(k)') /\ IsFiniteSet(Adders(k))
  BY <1>1, FS_Subset
<1>3. Cardinality(Adders(k)) \in Nat /\ Cardinality(Adders(k)') \in Nat
  BY <1>1, <1>2, FS_CardinalityType
<1>4. demo[k] \in Nat /\ demo[k] <= Cardinality(Adders(k))
  BY DEF ScriptTypes, AddedOnce, Kind
<1>5. QED
  BY <1>2, <1>3, <1>4

\* A run goes from a step to a later one, and what it stores or clears is in order.
LEMMA MoveStep ==
  ASSUME ScriptTypes, ScriptTypes', DemoInv, NEW s \in Run, NEW now, NEW next \in RunStep,
         now = run[s], now \notin {"idle", "done", "dead"}, next \notin {"idle", "dead"},
         Place(now) \in Nat, Place(next) \in Nat, Place(now) < Place(next),
         Goes(s, next), UNCHANGED <<started, cut, shared>>,
         \A k \in Kind \ {"subscription", "message", "metrics"} :
           demo[k] > 0 \/ (Place(now) <= Place(k) /\ Place(k) < Place(next)) => demo'[k] > 0,
         demo["metrics"] > 0 \/ (Place(now) <= 12 /\ 12 < Place(next)) =>
           demo'["metrics"] > 0 \/ next = "metrics",
         now = "metrics" => demo'["metrics"] > 0,
         demo'["ticket"] > 0 => demo["ticket"] > 0 \/ next = "message",
         demo["message"] > 0 \/ now = "message" => demo'["message"] > 0,
         ~shared => \A k \in LookedUp \cup {"message", "metrics"} :
           /\ demo'[k] \in {0, demo[k]} \/ (now = k /\ demo'[k] = demo[k] + 1)
           /\ next = k => demo'[k] = 0,
         demo'["message"] # demo["message"] => now = "message",
         \A k \in Added : demo'[k] = demo[k] \/ (now = k /\ demo'[k] = demo[k] + 1),
         \A k \in Upserted \cup {"invoice"} : demo'[k] <= 1
  PROVE  DemoInv'
<1>0. LeftBehind /\ OneByOne /\ AddedOnce
  BY DEF DemoInv
<1>1. run'[s] = next /\ \A q \in Run : q # s => run'[q] = run[q]
  BY DEF Goes, ScriptTypes
<1>2. \A k \in Kind : Place(k) \in Nat /\ demo[k] \in Nat /\ demo'[k] \in Nat
  <2>1. \A k \in Kind : Place(k) \in Nat
    BY PlaceOfKind
  <2>2. QED
    BY <2>1 DEF ScriptTypes
<1>3. \A q \in Run, k \in Kind : Beyond(q, k)' =>
        Beyond(q, k) \/ (q = s /\ Place(now) <= Place(k) /\ Place(k) < Place(next))
  BY <1>1, <1>2 DEF Beyond
<1>4. \A k : Pending(k) => Pending(k)' \/ now = k
  BY <1>1 DEF Pending, At
<1>5. LeftBehind'
  <2>1. \A q \in Run, k \in Kind \ {"subscription", "message", "metrics"} :
          Beyond(q, k)' => demo'[k] > 0
    BY <1>0, <1>3 DEF LeftBehind
  <2>2. \A q \in Run : Beyond(q, "metrics")' => demo'["metrics"] > 0 \/ Pending("metrics")'
    <3>1. "metrics" \in Kind /\ Place("metrics") = 12
      BY DEF Kind, Place
    <3>2. next = "metrics" => Pending("metrics")'
      BY <1>1 DEF Pending, At
    <3>3. QED
      BY <1>0, <1>3, <1>4, <3>1, <3>2 DEF LeftBehind
  <2>3. demo'["ticket"] > 0 => demo'["message"] > 0 \/ Pending("message")'
    <3>1. next = "message" => Pending("message")'
      BY <1>1 DEF Pending, At
    <3>2. QED
      BY <1>0, <1>4, <3>1 DEF LeftBehind
  <2>4. QED
    BY <2>1, <2>2, <2>3 DEF LeftBehind
<1>6. OneByOne'
  <2>1. SUFFICES ASSUME ~shared PROVE OneByOne'
    BY DEF OneByOne
  <2>2. s \in Working /\ Working' \subseteq Working
    BY <1>1 DEF Working
  <2>3. \A p, q \in Working' : p = q
    BY <1>0, <2>1, <2>2 DEF OneByOne
  <2>4. ASSUME NEW k \in LookedUp \cup {"message", "metrics"}
        PROVE  demo'[k] <= 1 /\ \A q \in Run : At(q, k)' => demo'[k] = 0
    <3>1. k \in Kind /\ demo[k] <= 1 /\ \A q \in Run : At(q, k) => demo[k] = 0
      BY <1>0, <2>1 DEF OneByOne, Kind
    <3>2. demo'[k] \in {0, demo[k]} \/ (now = k /\ demo'[k] = demo[k] + 1)
      BY <2>1
    <3>3. now = k => demo[k] = 0
      BY <3>1 DEF At
    <3>4. demo'[k] <= 1
      BY <1>2, <3>1, <3>2, <3>3
    <3>5. \A q \in Run : At(q, k)' => q \in Working'
      BY DEF At, Working, LookedUp
    <3>6. \A q \in Run : At(q, k)' => q = s
      BY <1>1, <2>2, <3>5, <1>0, <2>1 DEF OneByOne
    <3>7. QED
      BY <1>1, <2>1, <3>4, <3>6 DEF At
  <2>5. demo'["ticket"] = 0 => demo'["message"] = 0
    <3>1. {"ticket", "message"} \subseteq Kind /\ "ticket" \in Kind \ {"subscription", "message", "metrics"}
      BY DEF Kind, LookedUp
    <3>2. demo'["ticket"] = 0 => demo["ticket"] = 0
      BY <1>2, <3>1
    <3>3. now = "message" => demo["ticket"] > 0
      <4>1. Place("ticket") = 14 /\ Place("message") = 15
        BY DEF Place
      <4>2. now = "message" => Beyond(s, "ticket")
        BY <4>1 DEF Beyond
      <4>3. QED
        BY <1>0, <3>1, <4>2 DEF LeftBehind
    <3>4. QED
      BY <1>0, <1>2, <2>1, <3>1, <3>2, <3>3 DEF OneByOne
  <2>6. QED
    BY <2>1, <2>3, <2>4, <2>5 DEF OneByOne
<1>7. AddedOnce'
  <2>1. IsFiniteSet(started') /\ \A q \in Run : run'[q] # "idle" => q \in started'
    BY <1>0, <1>1 DEF AddedOnce
  <2>2. ASSUME NEW k \in Added PROVE demo'[k] <= Cardinality(Adders(k)')
    <3>1. k \in Kind /\ Place(k) \in Nat
      BY <1>2 DEF Kind
    <3>2. /\ \A q \in Run \ {s} : Beyond(q, k)' <=> Beyond(q, k)
          /\ Beyond(s, k) => Beyond(s, k)'
          /\ now = k => ~Beyond(s, k) /\ Beyond(s, k)'
          /\ run[s] # "dead" /\ run'[s] # "dead"
      BY <1>1, <3>1 DEF Beyond
    <3>6. Adders(k) \subseteq Adders(k)'
      BY <1>1, <3>2 DEF Adders, ScriptTypes
    <3>3. CASE demo'[k] = demo[k]
      BY <1>0, <2>1, <3>6, <3>3, AddersGrow
    <3>4. CASE now = k /\ demo'[k] = demo[k] + 1
      <4>1. s \notin Adders(k) /\ s \in started
        BY <1>0, <3>2, <3>4 DEF Adders, AddedOnce
      <4>2. Adders(k)' = Adders(k) \cup {s}
        BY <1>1, <3>2, <3>4, <4>1 DEF Adders, ScriptTypes
      <4>3. IsFiniteSet(Adders(k))
        BY <1>0, FS_Subset DEF Adders, AddedOnce
      <4>4. Cardinality(Adders(k)') = Cardinality(Adders(k)) + 1 /\ Cardinality(Adders(k)) \in Nat
        BY <4>1, <4>2, <4>3, FS_AddElement, FS_CardinalityType
      <4>5. demo[k] <= Cardinality(Adders(k))
        BY <1>0 DEF AddedOnce
      <4>6. QED
        BY <1>2, <3>1, <3>4, <4>4, <4>5
    <3>5. QED
      BY <3>3, <3>4
  <2>3. QED
    BY <2>1, <2>2 DEF AddedOnce
<1>8. QED
  BY <1>5, <1>6, <1>7 DEF DemoInv

\* Which kind is stored by the step of a number.
LEMMA KindOfPlace ==
  ASSUME NEW k \in Kind
  PROVE  \/ Place(k) = 1 /\ k = "organisation"
         \/ Place(k) = 4 /\ k = "catalog"
         \/ Place(k) = 5 /\ k = "plan"
         \/ Place(k) = 6 /\ k = "product"
         \/ Place(k) = 7 /\ k = "task"
         \/ Place(k) = 8 /\ k = "subscription"
         \/ Place(k) = 10 /\ k = "runbook"
         \/ Place(k) = 12 /\ k = "metrics"
         \/ Place(k) = 14 /\ k = "ticket"
         \/ Place(k) = 15 /\ k = "message"
         \/ Place(k) = 17 /\ k = "invoice"
<1>1. \/ k = "organisation" \/ k = "catalog" \/ k = "plan" \/ k = "product"
      \/ k = "task" \/ k = "subscription" \/ k = "runbook" \/ k = "metrics"
      \/ k = "ticket" \/ k = "message" \/ k = "invoice"
  BY DEF Kind, Upserted, Added, LookedUp
<1>2. CASE k = "organisation"
  BY <1>2 DEF Place
<1>3. CASE k = "catalog"
  BY <1>3 DEF Place
<1>4. CASE k = "plan"
  BY <1>4 DEF Place
<1>5. CASE k = "product"
  BY <1>5 DEF Place
<1>6. CASE k = "task"
  BY <1>6 DEF Place
<1>7. CASE k = "subscription"
  BY <1>7 DEF Place
<1>8. CASE k = "runbook"
  BY <1>8 DEF Place
<1>9. CASE k = "metrics"
  BY <1>9 DEF Place
<1>10. CASE k = "ticket"
  BY <1>10 DEF Place
<1>11. CASE k = "message"
  BY <1>11 DEF Place
<1>12. CASE k = "invoice"
  BY <1>12 DEF Place
<1>13. QED
  BY <1>1, <1>2, <1>3, <1>4, <1>5, <1>6, <1>7, <1>8, <1>9, <1>10, <1>11, <1>12

\* Two kinds are stored by two steps.
LEMMA OneStepEach ==
  ASSUME NEW j \in Kind, NEW k \in Kind, Place(j) = Place(k)
  PROVE  j = k
BY KindOfPlace

\* A run stores rows of a kind and goes on to the step that follows.
LEMMA StoreStep ==
  ASSUME ScriptTypes, ScriptTypes', DemoInv, NEW s \in Run, NEW k \in Kind, NEW n \in Nat,
         NEW next \in RunStep \ {"idle", "dead"},
         run[s] = k, Place(next) = Place(k) + 1, Stores(s, k, n, next),
         UNCHANGED <<started, cut, shared>>,
         k # "subscription" => n > 0,
         k \in Upserted => n = 1,
         k \in Added => n \in {demo[k], demo[k] + 1},
         k \notin Upserted \cup Added => n = demo[k] + 1,
         k = "invoice" => demo[k] = 0,
         k = "ticket" => next = "message",
         next \in LookedUp \cup {"message", "metrics"} => k = "ticket" /\ next = "message"
  PROVE  DemoInv'
<1>1. demo'[k] = n /\ \A j \in Kind : j # k => demo'[j] = demo[j]
  BY DEF Stores, ScriptTypes
<1>2. /\ k \notin {"idle", "done", "dead"} /\ Place(k) \in Nat /\ Place(next) \in Nat
      /\ Place(k) < Place(next) /\ Goes(s, next)
  BY PlaceOfKind DEF Kind, Upserted, Added, LookedUp, Stores
<1>3. \A j \in Kind : Place(k) <= Place(j) /\ Place(j) < Place(next) => j = k
  BY PlaceOfKind, OneStepEach
<1>4. /\ \A j \in Kind \ {"subscription"} : demo[j] > 0 => demo'[j] > 0
      /\ k # "subscription" => demo'[k] > 0
  BY <1>1
<1>5. /\ "metrics" \in Kind \ {"subscription"} /\ Place("metrics") = 12
      /\ {"message", "ticket", "invoice"} \subseteq Kind \ ({"subscription"} \cup Upserted \cup Added)
      /\ LookedUp \cup {"metrics"} \subseteq Kind \ (Upserted \cup Added)
  BY DEF Kind, Place, LookedUp, Upserted, Added
<1>6. ASSUME ~shared, NEW j \in LookedUp \cup {"message", "metrics"}
      PROVE  /\ demo'[j] \in {0, demo[j]} \/ (k = j /\ demo'[j] = demo[j] + 1)
             /\ next = j => demo'[j] = 0
  <2>1. j \in Kind \ (Upserted \cup Added)
    BY <1>5
  <2>2. k = "ticket" => demo["ticket"] = 0 /\ demo["message"] = 0
    BY <1>6 DEF DemoInv, OneByOne, At, LookedUp
  <2>3. QED
    BY <1>1, <2>1, <2>2
<1>7. /\ demo'["ticket"] > 0 => demo["ticket"] > 0 \/ next = "message"
      /\ demo'["message"] # demo["message"] => k = "message"
  BY <1>1, <1>5
<1>8. \A j \in Added : demo'[j] = demo[j] \/ (k = j /\ demo'[j] = demo[j] + 1)
  BY <1>1 DEF Kind
<1>9. \A j \in Upserted \cup {"invoice"} : demo'[j] <= 1
  <2>1. ASSUME NEW j \in Upserted \cup {"invoice"} PROVE demo'[j] <= 1
    <3>1. j \in Kind /\ demo[j] <= 1
      BY DEF DemoInv, Kind, LookedUp
    <3>2. CASE j = k
      BY <1>1, <1>5, <3>2
    <3>3. CASE j # k
      BY <1>1, <3>1, <3>3
    <3>4. QED
      BY <3>2, <3>3
  <2>2. QED
    BY <2>1
<1>10. /\ \A j \in Kind \ {"subscription", "message", "metrics"} :
            demo[j] > 0 \/ (Place(k) <= Place(j) /\ Place(j) < Place(next)) => demo'[j] > 0
       /\ demo["metrics"] > 0 \/ (Place(k) <= 12 /\ 12 < Place(next)) => demo'["metrics"] > 0
       /\ k = "metrics" => demo'["metrics"] > 0
       /\ demo["message"] > 0 \/ k = "message" => demo'["message"] > 0
  BY <1>3, <1>4, <1>5
<1>11. QED
  BY <1>2, <1>6, <1>7, <1>8, <1>9, <1>10, MoveStep

\* A run goes on, having stored nothing, over steps whose rows are there.
LEMMA PassStep ==
  ASSUME ScriptTypes, ScriptTypes', DemoInv, NEW s \in Run, NEW now, NEW next \in RunStep,
         now = run[s], now \notin {"idle", "done", "dead"}, next \notin {"idle", "dead"},
         Place(now) \in Nat, Place(next) \in Nat, Place(now) < Place(next),
         now \notin {"message", "metrics"}, next \notin {"message", "metrics"},
         Goes(s, next), UNCHANGED <<demo, started, cut, shared>>,
         \A k \in Kind \ {"subscription", "message"} :
           Place(now) <= Place(k) /\ Place(k) < Place(next) => demo[k] > 0,
         next \in LookedUp => demo[next] = 0
  PROVE  DemoInv'
<1>1. \A k \in Added : demo'[k] = demo[k]
  OBVIOUS
<1>2. \A k \in Upserted \cup {"invoice"} : demo'[k] <= 1
  BY DEF DemoInv
<1>3. "metrics" \in Kind \ {"subscription", "message"} /\ Place("metrics") = 12
  BY DEF Kind, Place
<1>4. QED
  BY <1>1, <1>2, <1>3, MoveStep

\* The metrics are cleared; the run is about to add them.
LEMMA ClearStep ==
  ASSUME ScriptTypes, ScriptTypes', DemoInv, NEW s \in Run, ClearMetrics(s)
  PROVE  DemoInv'
<1>0. PICK now, next : now = "clearMetrics" /\ next = "metrics"
  OBVIOUS
<1>1. /\ run[s] = "clearMetrics" /\ Goes(s, "metrics") /\ UNCHANGED <<started, cut, shared>>
      /\ demo' = [demo EXCEPT !["metrics"] = 0]
  BY DEF ClearMetrics, At, Stores
<1>2. demo'["metrics"] = 0 /\ \A k \in Kind : k # "metrics" => demo'[k] = demo[k]
  BY <1>1 DEF ScriptTypes, Kind
<1>3. /\ Place("clearMetrics") = 11 /\ Place("metrics") = 12 /\ "metrics" \in RunStep
      /\ \A k \in Kind : ~(11 <= Place(k) /\ Place(k) < 12)
      /\ {"ticket", "message", "invoice"} \subseteq Kind /\ "metrics" \notin Added \cup Upserted
      /\ Upserted \cup Added \cup LookedUp \subseteq Kind
  <2>1. \A k \in Kind : ~(11 <= Place(k) /\ Place(k) < 12)
    BY KindOfPlace
  <2>2. QED
    BY <2>1 DEF Place, Kind, Upserted, Added, LookedUp, RunStep
<1>4. /\ \A k \in Added : demo'[k] = demo[k]
      /\ \A k \in Upserted \cup {"invoice"} : demo'[k] <= 1
  BY <1>2, <1>3 DEF DemoInv
<1>5. /\ \A k \in Kind \ {"subscription", "message", "metrics"} :
           demo[k] > 0 \/ (Place("clearMetrics") <= Place(k) /\ Place(k) < Place("metrics")) =>
             demo'[k] > 0
      /\ demo'["ticket"] = demo["ticket"] /\ demo'["message"] = demo["message"]
  BY <1>2, <1>3
<1>6. \A k \in LookedUp \cup {"message", "metrics"} :
        /\ demo'[k] \in {0, demo[k]} \/ ("clearMetrics" = k /\ demo'[k] = demo[k] + 1)
        /\ "metrics" = k => demo'[k] = 0
  BY <1>2, <1>3
<1>7. /\ now = run[s] /\ now \notin {"idle", "done", "dead"} /\ next \notin {"idle", "dead"}
      /\ next \in RunStep /\ Place(now) \in Nat /\ Place(next) \in Nat /\ Place(now) < Place(next)
      /\ Goes(s, next) /\ now \notin {"metrics", "message"} /\ next = "metrics"
  <2>1. Place(now) = 11 /\ Place(next) = 12 /\ next \in RunStep
    BY <1>0, <1>3
  <2>2. Goes(s, next)
    BY <1>0, <1>1 DEF Goes
  <2>3. now = run[s] /\ now \notin {"idle", "done", "dead"} /\ next \notin {"idle", "dead"}
        /\ now \notin {"metrics", "message"} /\ next = "metrics"
    BY <1>0, <1>1
  <2>4. QED
    BY <2>1, <2>2, <2>3
<1>8. /\ \A k \in Kind \ {"subscription", "message", "metrics"} :
           demo[k] > 0 \/ (Place(now) <= Place(k) /\ Place(k) < Place(next)) => demo'[k] > 0
      /\ \A k \in LookedUp \cup {"message", "metrics"} :
           /\ demo'[k] \in {0, demo[k]} \/ (now = k /\ demo'[k] = demo[k] + 1)
           /\ next = k => demo'[k] = 0
  BY <1>0, <1>5, <1>6
<1>9. QED
  BY <1>1, <1>4, <1>5, <1>7, <1>8, MoveStep

\* The rows that are looked for, their steps and what follows.
LEMMA LookFacts ==
  ASSUME NEW k \in LookedUp
  PROVE  /\ \/ k = "runbook" /\ Place(k) = 10 /\ After(k) = "clearMetrics" /\ Place(After(k)) = 11
            \/ k = "ticket" /\ Place(k) = 14 /\ After(k) = "message" /\ Place(After(k)) = 15
            \/ k = "invoice" /\ Place(k) = 17 /\ After(k) = "done" /\ Place(After(k)) = 18
         /\ Place("findRunbook") = 9 /\ Place("findTicket") = 13 /\ Place("findInvoice") = 16
<1>1. k = "runbook" \/ k = "ticket" \/ k = "invoice"
  BY DEF LookedUp
<1>2. Place("findRunbook") = 9 /\ Place("findTicket") = 13 /\ Place("findInvoice") = 16
  BY DEF Place
<1>3. CASE k = "runbook"
  <2>1. After(k) = "clearMetrics"
    BY <1>3 DEF After
  <2>2. QED
    BY <1>2, <1>3, <2>1 DEF Place
<1>4. CASE k = "ticket"
  <2>1. After(k) = "message"
    BY <1>4 DEF After
  <2>2. QED
    BY <1>2, <1>4, <2>1 DEF Place
<1>5. CASE k = "invoice"
  <2>1. After(k) = "done"
    BY <1>5 DEF After
  <2>2. QED
    BY <1>2, <1>5, <2>1 DEF Place
<1>6. QED
  BY <1>1, <1>3, <1>4, <1>5

\* Every call of the script.
LEMMA CallStep ==
  ASSUME ScriptTypes, ScriptTypes', DemoInv, NEW s \in Run, SeedStep(s),
         ~StartSeed(s), ~CutShort(s)
  PROVE  DemoInv'
<1>1. /\ Upserted \subseteq Kind /\ Added \subseteq Kind /\ LookedUp \subseteq Kind
      /\ {"message", "metrics"} \subseteq Kind
  BY DEF Kind
<1>2. \A k \in Kind : demo[k] \in Nat
  BY DEF ScriptTypes
<1>3. CASE SeedOrganisation(s)
  <2>1. PICK k, next : k = "organisation" /\ next = "account"
    OBVIOUS
  <2>2. /\ k \in Kind /\ next \in RunStep \ {"idle", "dead"} /\ Place(next) = Place(k) + 1
        /\ k \in Upserted \ (Added \cup LookedUp)
    BY <2>1 DEF Kind, RunStep, Place, Upserted, Added, LookedUp
  <2>3. run[s] = k /\ UNCHANGED <<started, cut, shared>> /\ Stores(s, k, 1, next)
    BY <1>3, <2>1 DEF SeedOrganisation, At, Stores, Goes
  <2>4. QED
    BY <2>1, <2>2, <2>3, StoreStep DEF LookedUp
<1>4. CASE SeedCatalog(s)
  <2>1. PICK k, next : k = "catalog" /\ next = "plan"
    OBVIOUS
  <2>2. /\ k \in Kind /\ next \in RunStep \ {"idle", "dead"} /\ Place(next) = Place(k) + 1
        /\ k \in Upserted \ (Added \cup LookedUp)
    BY <2>1 DEF Kind, RunStep, Place, Upserted, Added, LookedUp
  <2>3. run[s] = k /\ UNCHANGED <<started, cut, shared>> /\ Stores(s, k, 1, next)
    BY <1>4, <2>1 DEF SeedCatalog, At, Stores, Goes
  <2>4. QED
    BY <2>1, <2>2, <2>3, StoreStep DEF LookedUp
<1>5. CASE SeedPlans(s)
  <2>1. PICK k, next : k = "plan" /\ next = "product"
    OBVIOUS
  <2>2. /\ k \in Kind /\ next \in RunStep \ {"idle", "dead"} /\ Place(next) = Place(k) + 1
        /\ k \in Added \ (Upserted \cup LookedUp)
    BY <2>1 DEF Kind, RunStep, Place, Upserted, Added, LookedUp
  <2>3. run[s] = k /\ UNCHANGED <<started, cut, shared>> /\ Stores(s, k, demo[k] + 1, next)
    BY <1>5, <2>1 DEF SeedPlans, At, Stores, Goes
  <2>4. demo[k] + 1 \in Nat /\ demo[k] + 1 > 0
    BY <1>2, <2>2
  <2>5. QED
    BY <2>1, <2>2, <2>3, <2>4, StoreStep DEF LookedUp
<1>6. CASE SeedProduct(s)
  <2>1. PICK k, next : k = "product" /\ next = "task"
    OBVIOUS
  <2>2. /\ k \in Kind /\ next \in RunStep \ {"idle", "dead"} /\ Place(next) = Place(k) + 1
        /\ k \in Upserted \ (Added \cup LookedUp)
    BY <2>1 DEF Kind, RunStep, Place, Upserted, Added, LookedUp
  <2>3. run[s] = k /\ UNCHANGED <<started, cut, shared>> /\ Stores(s, k, 1, next)
    BY <1>6, <2>1 DEF SeedProduct, At, Stores, Goes
  <2>4. QED
    BY <2>1, <2>2, <2>3, StoreStep DEF LookedUp
<1>7. CASE SeedTasks(s)
  <2>1. PICK k, next : k = "task" /\ next = "subscription"
    OBVIOUS
  <2>2. /\ k \in Kind /\ next \in RunStep \ {"idle", "dead"} /\ Place(next) = Place(k) + 1
        /\ k \in Added \ (Upserted \cup LookedUp)
    BY <2>1 DEF Kind, RunStep, Place, Upserted, Added, LookedUp
  <2>3. run[s] = k /\ UNCHANGED <<started, cut, shared>> /\ Stores(s, k, demo[k] + 1, next)
    BY <1>7, <2>1 DEF SeedTasks, At, Stores, Goes
  <2>4. demo[k] + 1 \in Nat /\ demo[k] + 1 > 0
    BY <1>2, <2>2
  <2>5. QED
    BY <2>1, <2>2, <2>3, <2>4, StoreStep DEF LookedUp
<1>8. CASE SeedSubscription(s)
  <2>1. PICK k, next : k = "subscription" /\ next = "findRunbook"
    OBVIOUS
  <2>2. /\ k \in Kind /\ next \in RunStep \ {"idle", "dead"} /\ Place(next) = Place(k) + 1
        /\ k \in Added \ (Upserted \cup LookedUp)
    BY <2>1 DEF Kind, RunStep, Place, Upserted, Added, LookedUp
  <2>3. run[s] = k /\ UNCHANGED <<started, cut, shared>> /\ \E m \in {0, 1} : Stores(s, k, demo[k] + m, next)
    BY <1>8, <2>1 DEF SeedSubscription, At, Stores, Goes
  <2>4. PICK m \in {0, 1} : Stores(s, k, demo[k] + m, next)
    BY <2>3
  <2>5. demo[k] + m \in Nat /\ demo[k] + m \in {demo[k], demo[k] + 1} /\ k = "subscription"
    BY <1>2, <2>1, <2>2
  <2>6. QED
    BY <2>1, <2>2, <2>3, <2>4, <2>5, StoreStep DEF LookedUp
<1>9. CASE SeedMessage(s)
  <2>1. PICK k, next : k = "message" /\ next = "findInvoice"
    OBVIOUS
  <2>2. /\ k \in Kind /\ next \in RunStep \ {"idle", "dead"} /\ Place(next) = Place(k) + 1
        /\ k \notin Upserted \cup Added \cup LookedUp
    BY <2>1 DEF Kind, RunStep, Place, Upserted, Added, LookedUp
  <2>3. run[s] = k /\ UNCHANGED <<started, cut, shared>> /\ Stores(s, k, demo[k] + 1, next)
    BY <1>9, <2>1 DEF SeedMessage, At, Stores, Goes
  <2>4. demo[k] + 1 \in Nat /\ demo[k] + 1 > 0
    BY <1>2, <2>2
  <2>5. QED
    BY <2>1, <2>2, <2>3, <2>4, StoreStep DEF LookedUp
<1>10. CASE SeedMetrics(s)
  <2>1. PICK k, next : k = "metrics" /\ next = "findTicket"
    OBVIOUS
  <2>2. /\ k \in Kind /\ next \in RunStep \ {"idle", "dead"} /\ Place(next) = Place(k) + 1
        /\ k \notin Upserted \cup Added \cup LookedUp
    BY <2>1 DEF Kind, RunStep, Place, Upserted, Added, LookedUp
  <2>3. run[s] = k /\ UNCHANGED <<started, cut, shared>> /\ Stores(s, k, demo[k] + 1, next)
    BY <1>10, <2>1 DEF SeedMetrics, At, Stores, Goes
  <2>4. demo[k] + 1 \in Nat /\ demo[k] + 1 > 0
    BY <1>2, <2>2
  <2>5. QED
    BY <2>1, <2>2, <2>3, <2>4, StoreStep DEF LookedUp
<1>11. CASE SeedAccount(s)
  <2>1. PICK now, next : now = "account" /\ next = "member"
    OBVIOUS
  <2>2. Place(next) = Place(now) + 1 /\ Place(now) = 2 /\ next \in RunStep
    BY <2>1 DEF Place, RunStep
  <2>3. now = run[s] /\ Goes(s, next) /\ UNCHANGED <<demo, started, cut, shared>>
    BY <1>11, <2>1 DEF SeedAccount, At, Goes
  <2>4. \A k \in Kind : ~(Place(now) <= Place(k) /\ Place(k) < Place(next))
    BY <2>2, KindOfPlace
  <2>5. QED
    BY <2>1, <2>2, <2>3, <2>4, PassStep DEF LookedUp
<1>12. CASE SeedMembership(s)
  <2>1. PICK now, next : now = "member" /\ next = "catalog"
    OBVIOUS
  <2>2. Place(next) = Place(now) + 1 /\ Place(now) = 3 /\ next \in RunStep
    BY <2>1 DEF Place, RunStep
  <2>3. now = run[s] /\ Goes(s, next) /\ UNCHANGED <<demo, started, cut, shared>>
    BY <1>12, <2>1 DEF SeedMembership, At, Goes
  <2>4. \A k \in Kind : ~(Place(now) <= Place(k) /\ Place(k) < Place(next))
    BY <2>2, KindOfPlace
  <2>5. QED
    BY <2>1, <2>2, <2>3, <2>4, PassStep DEF LookedUp
<1>13. ASSUME NEW k \in LookedUp, SeedMissing(s, k) PROVE DemoInv'
  <2>1. Place(After(k)) = Place(k) + 1 /\ After(k) \in RunStep \ {"idle", "dead"}
    BY LookFacts DEF RunStep
  <2>2. /\ k \in Kind \ (Upserted \cup Added) /\ k # "subscription"
        /\ k = "ticket" => After(k) = "message"
        /\ After(k) \in LookedUp \cup {"message", "metrics"} => k = "ticket" /\ After(k) = "message"
    BY DEF After, LookedUp, Kind, Upserted, Added
  <2>3. /\ run[s] = k /\ Stores(s, k, demo[k] + 1, After(k)) /\ UNCHANGED <<started, cut, shared>>
        /\ k = "invoice" => demo[k] = 0
    BY <1>13 DEF SeedMissing, At
  <2>4. demo[k] + 1 \in Nat /\ demo[k] + 1 > 0
    BY <1>2, <2>2
  <2>5. QED
    BY <2>1, <2>2, <2>3, <2>4, StoreStep
<1>14. ASSUME NEW k \in LookedUp, LookFor(s, k) PROVE DemoInv'
  <2>1. PICK now : now = CASE k = "runbook" -> "findRunbook" [] k = "ticket" -> "findTicket"
                           [] k = "invoice" -> "findInvoice"
    OBVIOUS
  <2>2. PICK next : next = IF Missing(s, k) THEN k
                           ELSE IF k = "ticket" THEN "findInvoice" ELSE After(k)
    OBVIOUS
  <2>3. now = run[s] /\ Goes(s, next) /\ UNCHANGED <<demo, started, cut, shared>>
    BY <1>14, <2>1, <2>2 DEF LookFor, At, Goes
  <2>4. /\ now \notin {"idle", "done", "dead", "message", "metrics"} /\ next \in RunStep
        /\ next \notin {"idle", "dead", "message", "metrics"}
        /\ Place(now) \in Nat /\ Place(next) \in Nat /\ Place(now) < Place(next)
    BY <2>1, <2>2, LookFacts DEF RunStep
  <2>5. next \in LookedUp => demo[next] = 0
    BY <2>2, LookFacts DEF Missing, LookedUp
  <2>6. ASSUME NEW j \in Kind \ {"subscription", "message"}, Place(now) <= Place(j), Place(j) < Place(next)
        PROVE  demo[j] > 0
    <3>1. ~Missing(s, k) /\ j = k
      BY <2>1, <2>2, <2>6, KindOfPlace, LookFacts
    <3>2. QED
      BY <1>2, <3>1 DEF Missing
  <2>7. QED
    BY <2>3, <2>4, <2>5, <2>6, PassStep
<1>15. QED
  BY <1>3, <1>4, <1>5, <1>6, <1>7, <1>8, <1>9, <1>10, <1>11, <1>12, <1>13, <1>14, ClearStep DEF SeedStep

\* Runs begin and are cut short.
LEMMA StartOrCutStep ==
  ASSUME ScriptTypes, ScriptTypes', DemoInv, NEW s \in Run, StartSeed(s) \/ CutShort(s)
  PROVE  DemoInv'
<1>0. LeftBehind /\ OneByOne /\ AddedOnce
  BY DEF DemoInv
<1>1. PICK now, next : /\ now = run[s] /\ next \in {"organisation", "dead"}
                       /\ now = "idle" \/ next = "dead"
                       /\ run'[s] = next /\ \A q \in Run : q # s => run'[q] = run[q]
  BY DEF StartSeed, CutShort, At, Goes, ScriptTypes, Working
<1>2. /\ demo' = demo /\ (shared => shared') /\ cut \subseteq cut'
      /\ now \in {"message", "metrics"} => now \in cut'
      /\ started' = started \/ started' = started \cup {s}
      /\ now = "idle" => started' = started \cup {s}
  BY <1>1 DEF StartSeed, CutShort, At, Working, Goes, ScriptTypes
<1>3. \A k \in Kind : Place("organisation") <= Place(k)
  <2>1. Place("organisation") = 1
    BY DEF Place
  <2>2. QED
    BY <2>1, KindOfPlace
<1>4. \A q \in Run, k \in Kind : Beyond(q, k)' => Beyond(q, k)
  <2>1. ASSUME NEW k \in Kind PROVE ~(Place("organisation") > Place(k))
    <3>1. Place("organisation") = 1
      BY DEF Place
    <3>2. QED
      BY <1>3, <3>1, PlaceOfKind
  <2>2. QED
    BY <1>1, <2>1 DEF Beyond
<1>5. LeftBehind'
  <2>1. \A k \in {"message", "metrics"} : Pending(k) => Pending(k)'
    BY <1>1, <1>2 DEF Pending, At
  <2>2. "metrics" \in Kind
    BY DEF Kind
  <2>3. QED
    BY <1>0, <1>2, <1>4, <2>1, <2>2 DEF LeftBehind
<1>6. OneByOne'
  <2>1. SUFFICES ASSUME ~shared' PROVE OneByOne'
    BY DEF OneByOne
  <2>2. \A p, q \in Working' : p = q
    <3>1. CASE StartSeed(s)
      BY <1>1, <2>1, <3>1 DEF StartSeed, Working
    <3>2. CASE CutShort(s)
      BY <1>0, <1>1, <1>2, <2>1, <3>2 DEF OneByOne, Working, CutShort, Goes
    <3>3. QED
      BY <3>1, <3>2
  <2>3. \A q \in Run, k \in LookedUp \cup {"message", "metrics"} : At(q, k)' => At(q, k)
    BY <1>1 DEF At, LookedUp
  <2>4. QED
    BY <1>0, <1>2, <2>1, <2>2, <2>3 DEF OneByOne
<1>7. AddedOnce'
  <2>1. IsFiniteSet(started')
    BY <1>0, <1>2, FS_AddElement DEF AddedOnce
  <2>2. \A q \in Run : run'[q] # "idle" => q \in started'
    BY <1>0, <1>1, <1>2 DEF AddedOnce
  <2>3. ASSUME NEW k \in Added PROVE Adders(k) \subseteq Adders(k)'
    <3>1. k \in Kind /\ Place(k) \in Nat /\ Place("idle") = 0
      BY PlaceOfKind DEF Kind, Place
    <3>2. now = "idle" => ~Beyond(s, k)
      BY <1>1, <3>1 DEF Beyond
    <3>3. s \in Adders(k) => s \in Adders(k)'
      BY <1>1, <1>2, <3>2 DEF Adders
    <3>4. \A q \in Run \ {s} : Beyond(q, k) => Beyond(q, k)'
      BY <1>1 DEF Beyond
    <3>5. QED
      BY <1>1, <1>2, <3>3, <3>4 DEF Adders, ScriptTypes
  <2>4. \A k \in Added : demo'[k] <= Cardinality(Adders(k)')
    BY <1>0, <1>2, <2>1, <2>3, AddersGrow
  <2>5. QED
    BY <2>1, <2>2, <2>4 DEF AddedOnce
<1>8. QED
  BY <1>2, <1>5, <1>6, <1>7 DEF DemoInv

\* A request of Accounts leaves the script's tables alone.
LEMMA DemoUnchanged ==
  ASSUME DemoInv, UNCHANGED seedVars
  PROVE  DemoInv'
<1>1. \A k : Adders(k)' = Adders(k)
  BY DEF seedVars, Adders, Beyond
<1>2. AddedOnce'
  BY <1>1 DEF DemoInv, AddedOnce, seedVars
<1>3. LeftBehind' /\ OneByOne'
  BY DEF DemoInv, LeftBehind, OneByOne, seedVars, Pending, At, Beyond, Working
<1>4. QED
  BY <1>2, <1>3 DEF DemoInv, seedVars

\* auth.service.ts, users.service.ts, seed.ts: the invariant of the accounts and of the
\* script holds in every reachable state of the two together.
THEOREM AccountsInvariant == SeedSpec => []SeedInv
<1>1. SeedInit => SeedInv
  <2> SUFFICES ASSUME SeedInit PROVE SeedInv
    OBVIOUS
  <2> USE NothingAssumption DEF SeedInit, Init, Idle
  <2>1. RowTypes /\ FactorTypes /\ OfAccounts /\ Distinct
    BY DEF RowTypes, Origin, FactorTypes, OfAccounts, Distinct
  <2>2. RequestTypes /\ RequestsInv
    BY DEF RequestTypes, Local, Step, RequestsInv, RequestInv
  <2>3. SignupsInv /\ ConfirmationsInv /\ AuthenticatorFits
    BY DEF SignupsInv, Signing, ConfirmationsInv, AuthenticatorFits
  <2>4. MembersInv
    BY DEF MembersInv, Belongs
  <2>5. Onboarded
    BY DEF Onboarded
  <2>6. ScriptTypes /\ SeededInv
    BY DEF ScriptTypes, RunStep, SeededInv, At
  <2>7. DemoInv
    <3>1. \A s \in Run, k \in Kind : ~Beyond(s, k)
      <4>1. Place("idle") = 0
        BY DEF Place
      <4>2. QED
        BY <4>1, PlaceOfKind DEF Beyond
    <3>2. \A k \in Kind : demo[k] = 0
      OBVIOUS
    <3>3. /\ Upserted \cup Added \cup LookedUp \cup {"message", "metrics"} = Kind
          /\ LookedUp \subseteq Kind /\ "idle" \notin LookedUp /\ {"ticket", "invoice"} \subseteq Kind
      BY DEF Kind, LookedUp
    <3>4. LeftBehind /\ OneByOne
      BY <3>1, <3>2, <3>3 DEF LeftBehind, OneByOne, Working, At
    <3>5. AddedOnce
      <4>1. started = {} /\ \A k : Adders(k) = {}
        BY DEF Adders
      <4>2. IsFiniteSet(started) /\ \A k : Cardinality(Adders(k)) = 0
        BY <4>1, FS_EmptySet
      <4>3. QED
        BY <3>2, <3>3, <4>2 DEF AddedOnce
    <3>6. QED
      BY <3>2, <3>3, <3>4, <3>5 DEF DemoInv
  <2>8. QED
    BY <2>1, <2>2, <2>3, <2>4, <2>5, <2>6, <2>7
    DEF SeedInv, TypeOK, AccountsInv, AccountsTypeOK, ScriptTypes
<1>2. SeedInv /\ [SeedNext]_<<vars, seedVars>> => SeedInv'
  <2> SUFFICES ASSUME SeedInv, [SeedNext]_<<vars, seedVars>> PROVE SeedInv'
    OBVIOUS
  <2>1. AccountsInv /\ RowTypes /\ ScriptTypes /\ SeededInv /\ DemoInv
    BY DEF SeedInv, AccountsInv, AccountsTypeOK, TypeOK, ScriptTypes
  <2>2. ASSUME AccountsInv', ScriptTypes', SeededInv', DemoInv' PROVE SeedInv'
    BY <2>2 DEF SeedInv, TypeOK, AccountsInv, ScriptTypes
  <2>3. CASE Next /\ UNCHANGED seedVars
    <3>1. AccountsInv'
      BY <2>1, <2>3, AccountsStep
    <3>2. ScriptTypes'
      BY <2>1, <2>3 DEF ScriptTypes, seedVars
    <3>3. SeededInv'
      BY <2>1, <2>3, AccountsStay, SeedAssumption DEF SeededInv, At, seedVars
    <3>4. DemoInv'
      BY <2>1, <2>3, DemoUnchanged
    <3>5. QED
      BY <2>2, <3>1, <3>2, <3>3, <3>4
  <2>4. ASSUME NEW s \in Run, SeedStep(s) PROVE SeedInv'
    <3>1. ScriptTypes' /\ (UNCHANGED vars \/ SeedAccount(s) \/ SeedMembership(s))
      BY <2>1, <2>4, ScriptStep
    <3>2. ASSUME UNCHANGED vars PROVE AccountsInv'
      BY <2>1, <3>2, AccountsUnchanged
    <3>3. AccountsInv'
      BY <2>1, <3>1, <3>2, SeedAccountStep, SeedMembershipStep
    <3>4. SeededInv'
      <4>1. SUFFICES ASSUME NEW q \in Run, At(q, "member")' PROVE account'[DemoEmail] # "none"
        BY DEF SeededInv
      <4>2. CASE At(q, "member")
        BY <2>1, <2>4, <4>2, AccountsStay, SeedAssumption DEF SeededInv
      <4>3. CASE SeedAccount(q)
        BY <2>1, <4>3, SeedAssumption DEF SeedAccount, RowTypes
      <4>4. QED
        BY <2>1, <2>4, <4>1, <4>2, <4>3, ScriptStep
    <3>5. DemoInv'
      BY <2>1, <2>4, <3>1, CallStep, StartOrCutStep
    <3>6. QED
      BY <2>2, <3>1, <3>3, <3>4, <3>5
  <2>5. CASE UNCHANGED <<vars, seedVars>>
    <3>1. AccountsInv'
      BY <2>1, <2>5, AccountsUnchanged
    <3>2. ScriptTypes' /\ SeededInv'
      BY <2>1, <2>5 DEF ScriptTypes, SeededInv, At, seedVars, vars, rows
    <3>3. DemoInv'
      BY <2>1, <2>5, DemoUnchanged
    <3>4. QED
      BY <2>2, <3>1, <3>2, <3>3
  <2>6. QED
    BY <2>3, <2>4, <2>5 DEF SeedNext
<1>3. QED
  BY <1>1, <1>2, PTL DEF SeedSpec

\* Tables, requests and runs keep their types; no membership is stored twice.
THEOREM AccountTypesCorrect == SeedSpec => []TypeOK
<1>1. SeedInv => TypeOK
  BY DEF SeedInv
<1>2. QED
  BY <1>1, AccountsInvariant, PTL

\* auth.service.ts:28-41, users.service.ts:33-47.  Whatever signs up, logs in through a
\* provider, invites or seeds beside it, an account is left without its organisation
\* only by a request that was cut short, and without its own as tenant only if somebody
\* gave it a membership during its signup.
THEOREM OnboardingIsAccounted == SeedSpec => []OnboardingIsWhole
<1>1. SeedInv => OnboardingIsWhole
  BY DEF SeedInv, AccountsInv, AccountsTypeOK, TypeOK, OnboardingIsWhole
<1>2. QED
  BY <1>1, AccountsInvariant, PTL

\* auth.service.ts:97-126.  The second factor that is on fits the owner's authenticator,
\* but for the two overlaps that AuthenticatorFits names.
THEOREM LockoutsAreCaused == SeedSpec => []AuthenticatorFits
<1>1. SeedInv => AuthenticatorFits
  BY DEF SeedInv, AccountsInv
<1>2. QED
  BY <1>1, AccountsInvariant, PTL

\* seed.ts, backend-core/README.md:33.  What the demo data is after any number of runs,
\* overlapping and cut short.
THEOREM DemoDataIsAccounted == SeedSpec => []DemoDataIsWhole
<1>1. SeedInv => DemoDataIsWhole
  <2> SUFFICES ASSUME SeedInv PROVE DemoDataIsWhole
    OBVIOUS
  <2>1. ScriptTypes /\ LeftBehind /\ OneByOne /\ AddedOnce
    BY DEF SeedInv, TypeOK, ScriptTypes, DemoInv
  <2>2. /\ \A k \in Kind : demo[k] \in Nat /\ 18 > Place(k)
        /\ Added \subseteq Kind /\ {"ticket", "metrics"} \subseteq Kind /\ Place("done") = 18
    <3>1. \A k \in Kind : 18 > Place(k)
      BY KindOfPlace
    <3>2. Place("done") = 18
      BY DEF Place
    <3>3. QED
      BY <2>1, <3>1, <3>2 DEF ScriptTypes, Kind, LookedUp
  <2>3. ASSUME NEW s \in Run, At(s, "done"), NEW k \in Kind \ {"subscription"}
        PROVE  demo[k] > 0 \/ (k \in {"message", "metrics"} /\ Pending(k))
    <3>1. \A j \in Kind : Beyond(s, j)
      BY <2>2, <2>3 DEF Beyond, At
    <3>2. demo["ticket"] > 0
      BY <2>1, <2>2, <3>1 DEF LeftBehind
    <3>3. QED
      BY <2>1, <2>2, <3>1, <3>2 DEF LeftBehind
  <2>4. \A k \in Upserted \cup {"invoice"} : demo[k] <= 1
    BY DEF SeedInv, DemoInv
  <2>5. ~shared => \A k \in LookedUp \cup {"message", "metrics"} : demo[k] <= 1
    BY <2>1 DEF OneByOne
  <2>6. ASSUME NEW k \in Added PROVE demo[k] <= Cardinality(started)
    <3>1. Adders(k) \subseteq started /\ IsFiniteSet(started)
      BY <2>1 DEF Adders, AddedOnce
    <3>2. /\ Cardinality(Adders(k)) <= Cardinality(started)
          /\ Cardinality(Adders(k)) \in Nat /\ Cardinality(started) \in Nat
      BY <3>1, FS_Subset, FS_CardinalityType
    <3>3. demo[k] <= Cardinality(Adders(k)) /\ demo[k] \in Nat
      BY <2>1, <2>2 DEF AddedOnce
    <3>4. QED
      BY <3>2, <3>3
  <2>7. QED
    BY <2>3, <2>4, <2>5, <2>6 DEF DemoDataIsWhole
<1>2. QED
  BY <1>1, AccountsInvariant, PTL
=============================================================================
