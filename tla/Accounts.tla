------------------------------- MODULE Accounts -------------------------------
(***************************************************************************)
(* Accounts, organisations and the second factor (modules/auth, users).     *)
(*                                                                         *)
(* Signing up stores the account, its organisation and the membership in    *)
(* three calls, inviting stores the account and the membership in two, and  *)
(* the second factor is read in one call and written in the next, each in a *)
(* request beside others.  An account's e-mail is unique, and so is a       *)
(* membership; nothing undoes a request that is cut short.                  *)
(***************************************************************************)
EXTENDS Naturals, Sequences, SequencesExt

CONSTANTS
  Email,     \* the e-mails; one stands for its account
  Org,       \* the organisations that can ever be
  House,     \* the one that the seed made; a signup's gets a slug of its own
  NoOrg,     \* the principal belongs to none
  NoOne,     \* an organisation that no signup founded
  Secret,    \* bound: the secrets of authenticators that can be drawn
  NoSecret,  \* mfaSecret is null
  Request,   \* the requests that can be served at once
  Loads      \* bound: the kinds of requests one behaviour mixes

ASSUME NothingAssumption == NoOrg \notin Org /\ House \in Org /\ NoOne \notin Email /\ NoSecret \notin Secret

VARIABLES
  load,      \* the kinds of requests of this behaviour
  account,   \* account[e]: how the row of e came to be, or "none"
  linked,    \* the accounts with a googleId or a githubId, each with its provider
  founder,   \* founder[o]: whose signup created o
  joined,    \* joined[e]: the organisations of e, in the order of joinedAt
  secret,    \* secret[e]: User.mfaSecret
  mfa,       \* the accounts with mfaEnabled
  device,    \* device[e]: the secrets in the authenticator of e's owner
  req,       \* req[r]: next call and locals
  broken,    \* history: accounts whose creator was cut short
  overtaken, \* history: accounts that were given a membership during their signup
  drawn,     \* history: the secrets drawn so far
  replaced,  \* history: the secrets stored while the factor was on or being confirmed
  undone,    \* history: the confirmations under way that a disable overtook
  crossed    \* history: accounts whose factor such a confirmation switched on

rows    == <<account, linked, founder, joined>>
factor  == <<secret, mfa, device, drawn, replaced, undone, crossed>>
history == <<broken, overtaken>>
vars    == <<load, rows, factor, req, history>>

Idle == [pc |-> "idle", who |-> NoOne, org |-> NoOrg, key |-> NoSecret, via |-> "none",
         new |-> FALSE]

-----------------------------------------------------------------------------

\* JwtStrategy.validate: the tenant of a principal is its earliest membership.
Primary(e) == IF joined[e] = <<>> THEN NoOrg ELSE Head(joined[e])

Belongs(e, o) == \E i \in DOMAIN joined[e] : joined[e][i] = o

Begin(r, kind, step, e, o, provider) ==
  /\ kind \in load
  /\ req[r].pc = "idle"
  /\ req' = [req EXCEPT ![r] = [Idle EXCEPT !.pc = step, !.who = e, !.org = o, !.via = provider]]

Goto(r, step) == req' = [req EXCEPT ![r].pc = step]

Finish(r) == req' = [req EXCEPT ![r] = Idle]

\* The request goes on with the account it has stored.
GoOn(r, step) == req' = [req EXCEPT ![r].pc = step, ![r].new = TRUE]

Insert(e, origin) ==
  /\ account[e] = "none"
  /\ account' = [account EXCEPT ![e] = origin]

-----------------------------------------------------------------------------
(* Signup, OAuth, invitations *)

\* signup refuses an e-mail that is taken ...
BeginSignup(r, e) ==
  /\ account[e] = "none"
  /\ Begin(r, "signup", "signup", e, NoOrg, "none")
  /\ UNCHANGED <<load, rows, factor, history>>

\* Faulty: an account that came into being meanwhile is taken for its own.
SignupAccountAnyway(r) ==
  /\ req[r].pc = "signup"
  /\ account' = [account EXCEPT ![req[r].who] = "signup"]
  /\ GoOn(r, "found")
  /\ UNCHANGED <<load, linked, founder, joined, factor, history>>

\* ... and stores the account, ...
SignupAccount(r) ==
  /\ req[r].pc = "signup"
  /\ Insert(req[r].who, "signup")
  /\ GoOn(r, "found")
  /\ UNCHANGED <<load, linked, founder, joined, factor, history>>

\* ... its organisation ...
SignupOrganisation(r, o) ==
  /\ req[r].pc = "found"
  /\ founder[o] = NoOne /\ o # House
  /\ founder' = [founder EXCEPT ![o] = req[r].who]
  /\ req' = [req EXCEPT ![r].pc = "own", ![r].org = o]
  /\ UNCHANGED <<load, account, linked, joined, factor, history>>

\* ... and the membership.
SignupMembership(r) ==
  LET e == req[r].who IN
  /\ req[r].pc = "own"
  /\ joined' = [joined EXCEPT ![e] = Append(@, req[r].org)]
  /\ Finish(r)
  /\ UNCHANGED <<load, account, linked, founder, factor, history>>

\* findOrCreateOAuthUser looks for the provider's id, then for the e-mail.
BeginOAuth(r, provider, e) ==
  /\ <<provider, e>> \notin linked
  /\ Begin(r, "oauth", IF account[e] = "none" THEN "oauth" ELSE "link", e, NoOrg, provider)
  /\ UNCHANGED <<load, rows, factor, history>>

\* The profile of a Google account names its e-mail, ...
ExchangeGoogleCode(r, e) == BeginOAuth(r, "google", e)

\* ... that of a GitHub account its login: the primary e-mail takes a third call, and
\* without one an address of GitHub's stands for it, an e-mail like any other here.
ExchangeGithubCode(r, e) == BeginOAuth(r, "github", e)

Link(r) == linked' = linked \cup {<<req[r].via, req[r].who>>}

LinkAccount(r) ==
  /\ req[r].pc = "link"
  /\ Link(r)
  /\ Finish(r)
  /\ UNCHANGED <<load, account, founder, joined, factor, history>>

OAuthAccount(r) ==
  /\ req[r].pc = "oauth"
  /\ Insert(req[r].who, "oauth")
  /\ Link(r)
  /\ Finish(r)
  /\ UNCHANGED <<load, founder, joined, factor, history>>

\* invite: into the tenant of the account that invites, whether it has one or not.
BeginInvite(r, by, e) ==
  /\ account[by] # "none"
  /\ Begin(r, "invite", IF account[e] = "none" THEN "invite" ELSE "join", e, Primary(by),
           "none")
  /\ UNCHANGED <<load, rows, factor, history>>

InviteAccount(r) ==
  /\ req[r].pc = "invite"
  /\ Insert(req[r].who, "invited")
  /\ GoOn(r, "join")
  /\ UNCHANGED <<load, linked, founder, joined, factor, history>>

\* A membership, by an invitation or by the seed.
GiveMembership(e, o) ==
  /\ joined' = [joined EXCEPT ![e] = Append(@, o)]
  /\ overtaken' = IF \E q \in Request : req[q].who = e /\ req[q].pc \in {"found", "own"}
                  THEN overtaken \cup {e} ELSE overtaken

JoinOrganisation(r) ==
  /\ req[r].pc = "join"
  /\ req[r].org # NoOrg /\ ~Belongs(req[r].who, req[r].org)
  /\ GiveMembership(req[r].who, req[r].org)
  /\ Finish(r)
  /\ UNCHANGED <<load, account, linked, founder, factor, broken>>

-----------------------------------------------------------------------------
(* The second factor *)

\* setupTotp, whether the factor is on or not: a new secret ...
BeginSetup(r, e) ==
  /\ account[e] # "none"
  /\ Begin(r, "factor", "setup", e, NoOrg, "none")
  /\ UNCHANGED <<load, rows, factor, history>>

StoreSecret(r, k) ==
  LET e == req[r].who IN
  /\ req[r].pc = "setup"
  /\ k \notin drawn
  /\ secret' = [secret EXCEPT ![e] = k]
  /\ drawn'  = drawn \cup {k}
  /\ replaced' = IF e \in mfa \/ \E q \in Request : req[q].who = e /\ req[q].pc = "confirm"
                 THEN replaced \cup {k} ELSE replaced
  /\ crossed' = crossed \ {e}
  /\ req' = [req EXCEPT ![r].pc = "answer", ![r].key = k]
  /\ UNCHANGED <<load, rows, mfa, device, undone, history>>

\* ... which the owner scans when the answer arrives.
ScanSecret(r) ==
  /\ req[r].pc = "answer"
  /\ device' = [device EXCEPT ![req[r].who] = @ \cup {req[r].key}]
  /\ Finish(r)
  /\ UNCHANGED <<load, rows, secret, mfa, drawn, replaced, undone, crossed, history>>

\* The owner's authenticator has the code that fits the secret in the row.
CodeFits(e) == secret[e] \in device[e]

\* Faulty: any code will do.
BeginConfirmUnverified(r, e) ==
  /\ secret[e] # NoSecret
  /\ Begin(r, "factor", "confirm", e, NoOrg, "none")
  /\ UNCHANGED <<load, rows, factor, history>>

\* confirmTotp verifies the code, then switches the factor on.
BeginConfirm(r, e) ==
  /\ CodeFits(e)
  /\ Begin(r, "factor", "confirm", e, NoOrg, "none")
  /\ UNCHANGED <<load, rows, factor, history>>

SwitchOn(r) ==
  LET e == req[r].who IN
  /\ req[r].pc = "confirm"
  /\ mfa' = mfa \cup {e}
  /\ crossed' = IF r \in undone THEN crossed \cup {e} ELSE crossed
  /\ undone'  = undone \ {r}
  /\ Finish(r)
  /\ UNCHANGED <<load, rows, secret, device, drawn, replaced, history>>

\* disableTotp verifies a code, then clears both fields.
BeginDisable(r, e) ==
  /\ e \in mfa /\ CodeFits(e)
  /\ Begin(r, "factor", "disable", e, NoOrg, "none")
  /\ UNCHANGED <<load, rows, factor, history>>

SwitchOff(r) ==
  LET e == req[r].who IN
  /\ req[r].pc = "disable"
  /\ mfa'    = mfa \ {e}
  /\ secret' = [secret EXCEPT ![e] = NoSecret]
  /\ undone' = undone \cup {q \in Request : req[q].who = e /\ req[q].pc = "confirm"}
  /\ crossed' = crossed \ {e}
  /\ Finish(r)
  /\ UNCHANGED <<load, rows, device, drawn, replaced, history>>

-----------------------------------------------------------------------------

\* A call is rejected - the e-mail was taken meanwhile, the membership exists, the
\* tenant does not - or the process dies: what was written stays.
Fail(r) ==
  /\ req[r].pc # "idle"
  /\ broken' = IF req[r].new THEN broken \cup {req[r].who} ELSE broken
  /\ undone' = undone \ {r}
  /\ Finish(r)
  /\ UNCHANGED <<load, rows, secret, mfa, device, drawn, replaced, crossed, overtaken>>

Init ==
  /\ load \in Loads
  /\ account = [e \in Email |-> "none"] /\ linked = {}
  /\ founder = [o \in Org |-> NoOne]
  /\ joined  = [e \in Email |-> <<>>]
  /\ secret  = [e \in Email |-> NoSecret] /\ mfa = {}
  /\ device  = [e \in Email |-> {}]
  /\ req     = [r \in Request |-> Idle]
  /\ broken = {} /\ overtaken = {}
  /\ drawn = {} /\ replaced = {} /\ undone = {} /\ crossed = {}

NewRequest(r) ==
  \E e \in Email :
    \/ BeginSignup(r, e) \/ ExchangeGoogleCode(r, e) \/ ExchangeGithubCode(r, e)
    \/ \E by \in Email : BeginInvite(r, by, e)
    \/ BeginSetup(r, e) \/ BeginConfirm(r, e) \/ BeginDisable(r, e)

HandlerStep(r) ==
  \/ SignupAccount(r) \/ SignupMembership(r)
  \/ \E o \in Org : SignupOrganisation(r, o)
  \/ LinkAccount(r) \/ OAuthAccount(r) \/ InviteAccount(r) \/ JoinOrganisation(r)
  \/ \E k \in Secret : StoreSecret(r, k)
  \/ ScanSecret(r) \/ SwitchOn(r) \/ SwitchOff(r)

Next == \E r \in Request : NewRequest(r) \/ HandlerStep(r) \/ Fail(r)

Spec == Init /\ [][Next]_vars

-----------------------------------------------------------------------------
(* Properties *)

Origin == {"none", "signup", "oauth", "invited", "seeded"}

Step == {"idle", "signup", "found", "own", "oauth", "link", "invite", "join",
         "setup", "answer", "confirm", "disable"}

Provider == {"google", "github"}

Local == [pc : Step, who : Email \cup {NoOne}, org : Org \cup {NoOrg},
          key : Secret \cup {NoSecret}, via : Provider \cup {"none"}, new : BOOLEAN]

RequestTypes == req \in [Request -> Local]

RowTypes ==
  /\ load \in Loads
  /\ account \in [Email -> Origin]
  /\ founder \in [Org -> Email \cup {NoOne}]
  /\ joined \in [Email -> Seq(Org)]
  /\ broken \subseteq Email /\ overtaken \subseteq Email

FactorTypes ==
  /\ secret \in [Email -> Secret \cup {NoSecret}]
  /\ device \in [Email -> SUBSET Secret]
  /\ mfa \subseteq Email /\ crossed \subseteq Email
  /\ drawn \subseteq Secret /\ replaced \subseteq Secret /\ undone \subseteq Request

OfAccounts ==
  /\ \A e \in Email : account[e] = "none" =>
       e \notin mfa /\ joined[e] = <<>> /\ secret[e] = NoSecret
  /\ linked \subseteq Provider \X Email
  /\ \A l \in linked : account[l[2]] # "none"

Distinct ==
  \A e \in Email : \A i, k \in DOMAIN joined[e] : joined[e][i] = joined[e][k] => i = k

\* Types of the tables and of the requests; a provider's id, a membership and a second
\* factor are those of an account that exists, and no membership is stored twice.
AccountsTypeOK == RowTypes /\ FactorTypes /\ RequestTypes /\ OfAccounts /\ Distinct

AtWork(e) == \E r \in Request : req[r].who = e /\ req[r].new

\* What OnboardingIsWhole says of one account at a time.
Onboarded ==
  /\ \A e \in Email : account[e] \in {"signup", "invited"} /\ joined[e] = <<>> =>
       e \in broken \/ AtWork(e)
  /\ \A o, p \in Org : founder[o] # NoOne /\ founder[o] = founder[p] => o = p
  /\ \A o \in Org : founder[o] # NoOne =>
       /\ account[founder[o]] = "signup"
       /\ Belongs(founder[o], o) => Primary(founder[o]) = o \/ founder[o] \in overtaken

\* auth.service.ts:28-41, users.service.ts:33-47.  An account by signup or invitation
\* that belongs to no organisation is being made, or its creator was cut short;
\* concurrent signups of one e-mail found one organisation between them; who signed up
\* finds itself in the organisation it founded, unless it was given another membership
\* while it was signing up; and overlapping invitations make nobody a member twice.
OnboardingIsWhole == Onboarded /\ Distinct

\* auth.service.ts:97-126.  The second factor locks its owner out only if a new secret
\* was stored while it was on or being confirmed, or if it was confirmed across a
\* disable.
AuthenticatorFits ==
  \A e \in mfa : CodeFits(e) \/ secret[e] \in replaced \/ e \in crossed

-----------------------------------------------------------------------------
(* The inductive invariant *)

Signing(r, e) == req[r].who = e /\ req[r].pc \in {"found", "own"}

\* A request works for an e-mail; past its insert the account is there, and new tells
\* that it made it.
RequestInv(r) ==
  /\ req[r].pc # "idle" => req[r].who \in Email
  /\ req[r].pc \notin {"idle", "signup", "oauth", "invite"} => account[req[r].who] # "none"
  /\ req[r].new => req[r].pc \in {"found", "own", "join"}
  /\ req[r].pc \in {"found", "own"} => account[req[r].who] = "signup" /\ req[r].new
  /\ req[r].pc = "own" => req[r].org \in Org
  /\ req[r].pc \in {"oauth", "link"} => req[r].via \in Provider
  /\ req[r].pc = "answer" => req[r].key \in Secret

RequestsInv == \A r \in Request : RequestInv(r)

\* One request signs an e-mail up.  It founds the only organisation of that e-mail, of
\* which nobody is a member before the founder; and whoever was made a member of
\* another organisation meanwhile is known.
SignupInv(r, e) ==
  /\ \A q \in Request \ {r} : ~Signing(q, e)
  /\ req[r].pc = "found" => \A o \in Org : founder[o] # e
  /\ req[r].pc = "own" => founder[req[r].org] = e /\ \A x \in Email : ~Belongs(x, req[r].org)
  /\ joined[e] # <<>> => e \in overtaken

SignupsInv == \A r \in Request, e \in Email : Signing(r, e) => SignupInv(r, e)

\* An organisation anybody belongs to, or is invited to, is the seeded one or has its
\* founder among its members.
Populated(o) == o = House \/ (founder[o] # NoOne /\ Belongs(founder[o], o))

MembersInv ==
  /\ founder[House] = NoOne
  /\ \A x \in Email, o \in Org : Belongs(x, o) => Populated(o)
  /\ \A r \in Request : req[r].pc \in {"invite", "join"} /\ req[r].org # NoOrg => Populated(req[r].org)

\* The code that a confirmation verified still fits, or is known not to.
ConfirmationsInv ==
  \A r \in Request : req[r].pc = "confirm" =>
    r \in undone \/ CodeFits(req[r].who) \/ secret[req[r].who] \in replaced

AccountsInv ==
  /\ AccountsTypeOK /\ RequestsInv /\ SignupsInv /\ MembersInv /\ ConfirmationsInv
  /\ Onboarded /\ AuthenticatorFits
=============================================================================
