# Verification of the Mugheer platform

TLA+ models of the parts of the platform that keep state under concurrency and
failure, TLC runs on small instances, and theorems that TLAPS checks for every
value of the constants. Paths are relative to the repository; `backend-core`
stands for `src/backend-core/src/modules`.

## 1. Inventory

The program is a single-page application (`frontend`), a NestJS API over
PostgreSQL (`backend-core`), a BullMQ worker that drives the API's internal
endpoints on a schedule (`worker`) and four stateless Python services
(`ai-services`). `backend-core` and the worker run in several replicas
(`k8s/base/*/hpa.yaml`). Almost no state lives in a process: it is in the rows
of the database, and **no handler opens a transaction** (`$transaction` occurs
nowhere). Every awaited Prisma call is atomic by itself, and the handlers of
concurrent requests interleave between any two of them. That fact shapes every
module here.

| Component | State | Operations | Hard behaviour | Correct when |
|---|---|---|---|---|
| Sessions (`auth`, `users`) | `RefreshToken` rows: revoked, family, expiry; `User.isActive` | login, OAuth login, refresh, logout, deactivate | rotation is lookup / revoke / create; reuse revokes a family while a rotation of it is in flight; death between revoke and create | an exchanged token is never usable; a family is a lineage of one account; a closed family stays closed |
| Stripe webhooks (`webhooks`) | `WebhookEvent` rows | store, apply, mark processed, record the error | duplicate, concurrent and reordered deliveries, rejections, crashes | an event takes effect at most once and is lost only by a failure |
| Subscriptions, dunning (`billing`, `webhooks`, `worker`) | `Subscription` status and `dunningAttempts` | subscribe, cancel, the subscription events of Stripe, dunning pass | every worker replica has its own cron: passes overlap and work from a stale list | attempts are accounted for and bounded; dunning runs its course |
| Invoices (`billing`) | `Invoice` status and `refundedAmount`, `Payment` rows | create, pay, refund | check, then write by id: double charges, lost refunds | statuses are backed by money; extra charges and lost refunds have a named cause |
| Runbooks (`automation`) | `enabled`, `runCount`, `deletedAt` | create, update, delete, execute | the budget is read before the action and counted after it | runs are accounted for, automation is bounded, the kill switch works |
| Tickets, AI triage (`tickets`, `ai`) | `Ticket`, `TicketMessage`, `AiActionLog` rows | create, detached triage, reply with approval, status | the triage races everybody, its failure is swallowed; reply decides on a stale row | AI output is logged first; approvals stay in the organisation; status, `resolvedAt` and replies agree |
| Projects, quotes, deployments, tasks (`projects`, the GitHub webhook, two pages) | `Product.status`, `ProductStage`, `Quote`, `DesignArtifact`, `Deployment`, `Task`, comments | request, status, patch, approve quote, review design, comment, task, GitHub events | `approveQuote` is three writes without a status check; writes by id after an earlier look-up; `PATCH` writes any column; GitHub events are not deduplicated | the stage log tells the status; the form tells the truth; settled rows rest |
| Monitoring, alerts (`monitoring`, `worker`) | raw points, daily rollups, alerts | ingest, probe, anomaly scan, acknowledge, resolve, rollup and retention | find-then-create of alerts; the rollup looks at "yesterday" only and is not retried; raw points are deleted after 30 days | a breach has its alert, doubled only by a race; a point is deleted only when its day was counted |
| Accounts, organisations, second factor (`auth`, `users`) | accounts, memberships, provider ids, TOTP secrets | signup, OAuth, invite; set up, confirm, disable TOTP | rows created in several calls; the factor is verified in one call and written in the next | every account finds its organisation; the factor locks nobody out |
| Demo data (`prisma/seed.ts`) | rows of every table | the script | run again, run twice at once, cut short, beside real signups | what the documents call idempotent |
| Browser session (`frontend/src/lib`, the login pages) | access token and account per tab, one cookie for all tabs | request, 401 and retry, load, login, signup, OAuth callback, logout | tabs share the cookie; `loadSession` bypasses `refreshPromise`; a late answer sets a cookie | the user is not logged out by rotation; logging out ends the session |
| Realtime, notifications, audit | sockets in rooms, append-only rows | join, notify, log | - | nothing else reads them |
| Catalog, admin, contact, AI services, other pages, infrastructure | single-row writes, pure functions, configuration | - | - | - |

How they interact: the browser refreshes its session through `auth`; Stripe
drives `webhooks`, which writes the tables of `billing`; the worker's queues call
`billing` (dunning), `automation` (runbooks) and `monitoring` through internal
endpoints and give up on an answer after 15 seconds while the work goes on;
`automation` and `ai` write into `tickets`; everybody appends to `audit` and
`notifications`.

Every hazard we know of is in `PROJECT.json` with the line where it bites and
the properties that would catch it.

## 2. The modules

| Module | Role |
|---|---|
| `Sessions` | the refresh-token handlers, call by call |
| `FamilyLifecycle` | abstract: a family opens, grows, is sealed for good |
| `WebhookLedger` | the webhook endpoint: store, apply, mark, catch, crash |
| `AtMostOnce` | abstract: an effect happens at most once |
| `Subscriptions` | extends `WebhookLedger` with the subscription rows and the dunning passes |
| `Invoices`, `Runbooks`, `Tickets`, `Projects`, `Monitoring`, `Accounts` | one component each |
| `Seed` | extends `Accounts` with the script that loads the demo data |
| `Browser` | extends `Sessions` with the tabs of one browser |
| `MCSessions`, `MCSubscriptions`, `MCTickets`, `MCProjects`, `MCMonitoring`, `MCSeed`, `MCBrowser` | small instances (the other modules are instantiated by their `.cfg` alone) |
| `SessionsProofs` (with the browser's), `SubscriptionsProofs` (with the ledger's), `InvoicesProofs`, `RunbooksProofs`, `TicketsProofs`, `ProjectsProofs`, `MonitoringProofs`, `AccountsProofs` (with the seed's) | theorems |

Conventions shared by all of them:

* **One action per awaited call.** A handler's progress is `pc[r]`, its locals
  are variables indexed by the request slot, and an action is one call with the
  synchronous code around it. Reads that decide something are part of the action
  that reads; what is used later is kept in a local and may be stale.
* **Failure.** `Fail`, `Die`, `PassDies`, `Crash` let a handler end before any of
  its calls: the call was rejected, or the process died. A rejected call is taken
  to have written nothing; "written, but the answer was lost" is the success of
  the call followed by the failure of the next. No failure undoes a write.
* **Histories.** Variables marked `history` record what no row records (how often
  money was given back, whether two handlers overlapped). No guard reads them,
  except where a bound is named.
* **"Faulty" operators** beside a definition are what a plausible bug would turn
  it into. `PROJECT.json` pairs each with the property that then fails; the
  specification never uses them.
* Audit entries, notifications, mail and log lines are left out: they append and
  decide nothing. When such a call fails after the last write the handler throws
  and changes nothing more, so it needs no step of its own.

### Sessions

`status`, `owner`, `family` and `expired` are the `RefreshToken` rows, a token
standing for its row (lookup is by hash and the `jti` makes every token
different); a family is named by its first token. `login` with the right
credentials, `findOrCreateOAuthUser` (which does not consult `isActive`) and the
end of `signup` come down to `StartSession` and `IssueTokens`. `refresh` is
`RefreshLookup`, then either `RefreshRevokeFamily` or `RefreshFindUser`,
`RefreshRevokeOld`, `IssueTokens`. An expired JWT is refused before the lookup.
`logout` is one conditional `updateMany`.

* `ExchangedIsRevoked`: an exchanged token is revoked, wherever the server dies.
* `FamilyIsLineage`: all successors share family and owner, so that one
  `updateMany` by family reaches them.
* `FamilyLifecycleHolds`: refinement of `FamilyLifecycle`. A family counts as
  sealed when no token of it would be accepted and no rotation of it is under
  way; the refinement says that nothing brings it back - no late `create`, no
  login. It is the precise sense in which logout, reuse detection and
  deactivation end a session: not at once, but as soon as the rotations in
  flight have ended.
* `OneLiveTokenPerFamily`, `ReuseKillsSerialFamily`: a session whose refreshes never
  overlapped - the histories `overlapped` and `successors` tell - rotates linearly and
  leaves no live token once a token of it was reused. One tab of `api.ts` gives
  the server such sessions, two tabs do not; `Browser` says what then remains.

### WebhookLedger and Subscriptions

`ledger[e]` is the `WebhookEvent` row. `StoreFails` is `.catch(() => null)`
mistaking any rejection for a duplicate; `CallFails` and `RecordTheError` are the
catch block. Stripe may deliver any event at any time, again and concurrently; a
valid signature, a `payload.id` and an enabled Stripe client are assumed.

`Subscriptions` conjoins `ApplyEffect` with the `updateMany` of the event's type
and adds `subscribe`, `cancelSubscription` and the dunning pass: read the due
list, then per subscription count (whatever the row says by now) and notify.
`cancellable` is what a billing page has loaded: it decides which rows have a
Cancel button, and may be out of date (`LoadPage`, `Cancel`).
`AttemptsAccounted` says that no interleaving loses or
doubles an attempt; `DunningBounded` is what is left of the documented "max 4
attempts" (`worker/README.md`): retries stay below `MaxDunning - 2` plus the
passes that overlap - with two workers the limit holds, from three on it may be
exceeded. `LedgerIsFinal` (an action property): once an event's row says
processed or failed, no delivery changes the row or the effect, which is
idempotence and, for a failed event, the loss. `DunningWindsDown` (an action
property): a row that was cancelled or renewed, or whose attempts are used up, gets
on no list, and each pass that had listed it retries it at most once more.
`DunningRunsItsCourse` is liveness.

### Invoices

`BeginPay` and `BeginRefund` are the reads and checks, the other steps the
writes. `FullRefund` is the billing page's button, `PartialRefund` the route, which
an admin calls with any amount: `refund` refuses only what exceeds the total together
with the refunds before, and nothing validates the body, so amounts are
`-Lowest..Total - 1`, zero and negative ones included. After a refund the status is no longer `PAID`, and
`payInvoice` refuses only `PAID`: such an invoice may be paid again, which
`ExtraChargeNeedsARace` allows for (`refunds + 1`). The two Stripe events that
mark invoices paid select by `stripeInvoiceId` and `billingCustomerId`, which no
code writes, so they match no row. `RefundLostOnlyByRace` says that `refundedAmount`
is the money given back, and that at most the total is given back, unless two refunds
overlapped; `RefundsStand` (an action property) that every step, that of a payment
begun before a refund included, moves `refundedAmount` by what the step gives back,
and that a fully refunded invoice keeps that status until it is paid again. A
demo invoice that `seed.ts` creates as paid
without a payment is not an initial state here.

### Runbooks

`Execute` reads and checks, `Perform` acts, `CountRun` increments. The action is
one step: whether its ticket, mail or webhook succeeded changes nothing of the
runbook. `RunsAccounted` relates `runCount` to the runs in flight and those lost;
`AutomationBounded` is the bound that overlap and lost counts leave of
`maxRetries`. `RunNow` is the page's button, which a disabled runbook does not offer;
`RunInternally` the internal endpoint, which the `runbook-jobs` queue would call: the
queue has a consumer and no producer in this repository. `maxRetries` is read before
the run and counted after it, so overlapping runs exceed it, which
`docs/SECURITY.md:21` ("Runbooks bounded by `maxRetries`") does not foresee.
`shown` is what the automation page of a browser has loaded: the badge it shows
of a runbook decides which buttons it offers, and a second page may be out of date
(`LoadPage`, `Toggle`, `RunNow`). `KillSwitchWorks` is liveness; `SwitchedOffWindsDown`
says the same step by step: while a runbook is off or deleted nothing passes the checks,
and every run uses up one of the executions that had passed them before.

### Tickets

`CreateTicket`/`BeginTriage` are `create`; `LogTriage`, `StoreSuggestion`,
`StoreDraft` the detached continuation, ended early by `TriageDies`. `reply` reads
(`BeginReply`), stores the message, approves **all** unapproved triage logs of the
organisation (not only this ticket's, which is what `docs/ARCHITECTURE.md`'s
"governance log updated" suggests), and sets `pending` if the ticket was open when
it was read. `isAiDraft` is the caller's word: the page sends it with a suggestion it
shows, the route takes it with any text on any ticket (`ApproveAndSend`), and without
it a reply approves nothing (`SendReply`). A request
serves one handler and is then done.

* `AiOutputIsLogged` ("Every AI output logged", `docs/SECURITY.md`): nothing the
  triage stores is unlogged, and no draft is without a suggestion.
* `ApprovalsStayInOrg`: an approval goes back to a reply that was sent as an AI draft
  on a ticket of the same organisation, whatever that reply said.
* `ResolvedAtAgrees`: `resolvedAt` is set exactly on resolved tickets, unless a
  reply that had seen the ticket open overtook staff.
* `AnsweredIsNotOpen`: an answered ticket leaves the open queue unless staff put
  it back or a reply died.
* `TriageSettles`: a triage that was started ends with a draft or a failure.

### Projects

A request runs one handler of the project service, the task service or
`processGithub`, one database call per step. `createProduct` and `updateStatus` write
status and stage in one nested call; `approveQuote` is `ApproveQuote`,
`EnterScoped`, `SetScoped`. Comments, tasks and deployments are looked up in one
call and written by id in the next. `form` is the page that asks for a product: its
button is disabled while a request is under way and an error lets the user submit
again. What a page offers guards nothing else: any request comes at any time, such as a
second verdict on a design (`BeginReview`, `ReviewDesign`). `UpdateProduct` is
`PATCH /projects/:id`: the route casts the body to the columns the service declares, so
it may write `status`, without a stage, and set or clear `deletedAt`; its other
columns are in no property.

* `StagesTellTheStatus`: the last stage is the status, but for approvals at work,
  dead or overtaken between their last two writes and patches that name a status
  (`torn`), until staff set it again.
* `FormsAccounted`: beyond the product a form was told of, it made one for each
  error it showed after the product was stored (the audit or notification failed).
* `DeploymentFollowsReports`: a deployment shows what was last reported of its commit
  while it was the newest, unless reports overlapped or died. Only 12 characters of
  a commit are compared; one recorded otherwise (`Unabbreviated`) hears nothing.
* `SettledRowsRest` (an action property): a deleted task, the comments of a deleted
  product, until its deletion is taken back, and a superseded deployment are final as
  soon as the requests that found them before have ended. The verdict on a design is not:
  `reviewDesign` writes over any verdict.

### Monitoring

A job is one ingest, probe, anomaly scan or nightly rollup; time is counted in days,
and rules have windows of days instead of minutes. `evaluateRules` is, per
breached rule, `SkipDuplicate` or `FindNoDuplicate`, `CreateAlert`, `Notify`; the probe
and the scan create without a search. `Aggregate`, `Upsert` and `Prune` are the
worker's rollup of yesterday; `Prune` is told whether the moment 30 days ago lies
before or after the points of its day. No job is retried after a failure.

* `DuplicatesNeedARace`: two open alerts within the window of a rule need an alert
  created between the rule's search and its insert.
* `BreachesAnswered`: a finished ingest leaves no breach without an alert of which the
  organisation was told, or was not because a scan or a dead job raised it.
* `DeletedPointsAreCounted`: raw points are deleted only of a day whose rollup counts
  them, unless that rollup was missed, died or is at work. A point that arrives
  after its day was rolled up is deleted uncounted (`late`).
* `DashboardIsWhole`: the 30 days the dashboard reads are never cut into.
* `RollupIsIdempotent` (an action property): every replica of the worker rolls the same
  day up; the later rollups leave its row as it is, unless points came in late.

### Accounts and Seed

`signup` stores account, organisation and membership in three calls, `invite` account
and membership in two, and nothing undoes the first when the second fails.
`exchangeGoogleCode` and `exchangeGithubCode` end in `findOrCreateOAuthUser`, which
makes accounts without an organisation on purpose. `setupTotp` is `BeginSetup`,
`StoreSecret`, `ScanSecret` (the owner's authenticator); confirmation and disabling are
a verification and a write. An invitation comes from an account with any rights:
the roles guard is left out.

`Seed` is the script, one action per call, in the order of the file, beside the requests
of `Accounts`: the demo account's e-mail may have signed up before. Rows that
differ only in a name are one kind.

* `OnboardingIsWhole`: an account without organisation is being made or its creator
  was cut short; no membership is stored twice and signups of one e-mail found one
  organisation; who signed up
  works in the organisation it founded, unless invited elsewhere meanwhile.
* `AuthenticatorFits`: the second factor locks its owner out only if a secret was stored
  while it was on or being confirmed, or it was confirmed across a disable.
* `DemoDataIsWhole`: which kinds of rows stay single under repetition and overlap,
  and which do not. `backend-core/README.md:33` says "Idempotent demo data"; plans,
  tasks and the subscription are added anew by each run.

### Browser

`Browser` extends `Sessions`: a tab's request to `/auth` is the request slot of
the same name. `cookie` is shared; `call`, `renewing` and `again` are where `api()` stands
(a call, the renewal it waits for, the repetition after it), `sent` and `wire` the
request under way: it takes the cookie along when it is sent, reads the table
when it arrives, and sets the new cookie when its answer is received. Answers are
lost, the server fails, other tabs act in between. A refused login is taken by
`api()` for an expired session and renewed (`SubmitRefusedLogin`). A logout is sent at
any time a page is shown, with the cookie of that moment (`SignOut`, `parting`), changes
the table when it arrives, or is lost (`LogoutArrives`), and makes the tab forget its
account when it is answered or has failed (`LoggedOut`, `leaving`); until then the page
goes on working. A reload forgets the answer, not the request. The cookie stays in the
browser, because `clearCookie` names no path.

* `SessionLostForACause`: the cookie the browser holds is still good, unless somebody
  logged out, two tabs used the session at once, a failure swallowed a rotation
  (`left`, `troubled`), or the renewal is under way.
* `LogoutEndsTheSession`: once the server has handled a logout the session has no usable
  token left, so that the cookie that stays behind is worthless, unless some tab had a
  refresh of it under way while the logout was, or a failure swallowed either.
* `ReuseHasACause`: reuse detection strikes no honest browser without such a cause.

## 3. The runs

| Run | Instance | Shows |
|---|---|---|
| `sessions` | 3 tokens, 2 accounts, 2 requests, symmetry | the session properties and the refinement of `FamilyLifecycle` |
| `sessions_reuse_race` | 3 tokens, 1 account, 2 requests | **violation**: a token outlives the revocation of its family |
| `subscriptions` | 1 subscription, a failed payment and a renewal, 2 deliveries, 2 passes, 1 billing page, 1 death | at-most-once, settled events, losses, accounting, bound, winding down and liveness of dunning |
| `webhook_lost` | 1 event, 2 deliveries | **violation**: an event answered as a duplicate never took effect |
| `invoices` | 1 invoice of total 2, refunds from -1 up, 3 requests, 3 payments | backed statuses; causes of extra charges and lost refunds; refunds stand |
| `invoices_over_refund` | total 2, refunds from -1 up, 2 requests | **violation**: refunds exceed the total |
| `runbooks` | 1 runbook, 3 executions, 2 pages, `maxRetries` 2 | accounting, bound, kill switch |
| `tickets` | 2 tickets of 2 organisations, 3 requests | logging, approvals, status and triage |
| `projects` | 2 products, 1 form, 1 design, 1 task, 2 deployments of 1 commit, 5 requests, symmetry | stage log, forms, deployments, settled rows |
| `monitoring` | 2 metrics, 2 rules of one metric with windows of 0 and 1 days, 4 days, retention 2 days, 2 alerts, 3 jobs, symmetry | alerts, rollups and retention |
| `accounts` | 2 e-mails, 3 organisations, 2 secrets, 2 requests, 2 runs of the seed, symmetry | onboarding, second factor, demo data |
| `browser` | 3 tokens, 1 account, 2 tabs, symmetry | the session as the user meets it |

Why these bounds are enough to be telling. The races are between two handlers of
one row, so two slots meet them and a third (invoices, runbooks, tickets, monitoring)
adds a bystander. Three tokens make a login and two rotations, or two sessions
and a rotation. Total 2 has a partial refund on top of a partial one, and -1 lowers what
was refunded. One failed payment and a renewal make dunning start, overlap and stop; the event kind that
cancels a row is left to the proofs. `maxRetries` 2 with three executions lets one
run be counted before the overlap. Tickets of two organisations tell a missing
`orgId` in a where clause from the code's. In `projects` a request serves once:
five are a product, a quote or deployment, and three that overlap on it. Four days with a
retention of two let a day be missed, caught or deleted; 30 days would repeat
the same. Of the pages that show runbooks one can be out of date beside a fresh one; a
single billing page is out of date as soon as Stripe or a pass moves. In `browser`
two tabs are the fewest that share a cookie.

The named bounds are `MaxPayments` (begun payments), `Lowest` (how far below zero a
refund may go), `MaxRuns` (runs by people), `MaxLost` (uncounted runs), `MaxDeaths` (passes cut short), `MaxDay`,
`MaxAlerts`, `MaxDeployments`, one logout of a tab at a time (`SignOut`),
the sets of requests, runs, secrets and tokens, and `Loads`: the kinds of requests that one behaviour of `Monitoring` and `Accounts` mixes, chosen
so that every two that touch a common row meet. `Retention`, `MaxDunning` and
`MaxRetries` are numbers of the code.

Deadlock is not checked in `invoices` (a fully refunded invoice whose payments are
used up accepts nothing more) and in `projects`, `monitoring` and `accounts` (all
requests are served, or all rows in use). The system rests there.

**Symmetry** is over sets of model values that no definition tells apart, and only
in runs of safety properties. The **view** of `MCBrowser` leaves out what no step
and no property of the run tells apart: two histories of `Sessions`, which of the
detected reuses had a cause as long as all had one, whether a session that is in trouble was
also left, and the account of an access token that is set again before `/users/me` is
asked with it.

**Fairness.** Weak fairness of the steps of what has already started - a dunning
pass, an execution, a triage, a received delivery - because each of their calls
is answered or rejected (the AI service and webhook calls carry
`AbortSignal.timeout`), and of the start of a dunning pass, because the cron fires
daily. None of customers, staff, Stripe or failures, and none at all in
`Projects`, `Monitoring`, `Accounts` and `Browser`, whose runs are of safety. A step may be pre-empted by
a failure every time; `TriageSettles` and `KillSwitchWorks` accept that as an
end, `DunningRunsItsCourse` bounds the deaths.

**To repeat a check**: `tlc -config Tickets.cfg MCTickets` (the module of each run is
in `PROJECT.json`), `tlapm TicketsProofs.tla`. On two workers `browser` takes two and a half
minutes (2.5 million distinct states), `accounts`, `sessions` and `subscriptions` two,
`projects`, `tickets` and `monitoring` a bit over one each, the others less.

## 4. Findings

* **A revoked family can live on** (`sessions_reuse_race`). The documents say that
  reuse detection revokes, or invalidates, the whole family (`docs/API.md:11`,
  `schema.prisma:116`). A rotation that has revoked its old row and not yet stored
  the new one escapes the `updateMany`.
* **A lost webhook** (`webhook_lost`). `webhooks.service.ts:33` treats every
  rejected insert as a duplicate and answers 200.
* **Over-refund** (`invoices_over_refund`). `billing.service.ts:127` computes the
  new amount from the row it read; overlapping refunds both pass the check.

What else we noticed, without a run of its own:

* Logging in with a wrong password, or with a password while the second factor is on, is
  answered 401, which `api()` answers with a renewal of the session; the message the
  login page then shows depends on whether there was one (`Login.tsx:26`).
* The cookie is set for `/api/v1/auth` and cleared without a path, so it survives a logout.
* A refund of zero or of a negative amount is accepted, audited and announced; a negative
  one lowers `refundedAmount` (`billing.service.ts:122-130`, `billing.controller.ts:71`).
* `PATCH /projects/:id` writes any column its body names: a status without a stage, a
  deletion or the end of one (`projects.controller.ts:33-37`, `projects.service.ts:98-102`).
* The verdict on a design can be replaced at any time by whoever may review it.
* A reply that says `isAiDraft` approves the organisation's AI log whatever it says.
* A logout revokes the cookie it took along: when another tab's renewal is under way or
  sent while the logout travels, its answer leaves a live token in the browser and the
  user is, after a reload, logged in again.
* The answer of a refresh sent before a logout and a login of another account
  sets the first account's cookie again.
* The frontend opens a plain WebSocket; the gateway speaks socket.io.
* A runbook made on the page has no product (`productId` null), while `evaluateRules`
  looks for the product's own and `actionOpenTicket` skips without one. `evaluateRules`
  does not leave out deleted runbooks.
* A past-due subscription has no Cancel button, and a late failed payment makes a
  cancelled one past due again. A renewal does not reset `dunningAttempts`.
* `refundedAmount` keeps the first refunds of an invoice that is paid again, so that the
  second payment of a fully refunded invoice cannot be refunded.
* Runs of the seed add plans, tasks and a subscription each time.

## 5. What is proved

All theorems hold for any sets of tokens, accounts, requests, tabs, events, passes,
invoices, runbooks, tickets, products, forms, pages of every kind, commits, metrics, rules, jobs, e-mails,
organisations, secrets and runs of the seed, under
the named assumptions of the modules: the "no such thing" values are outside
their sets, the kinds and subjects of events are functions of the right type, the
sets counted by `Cardinality` are finite, totals and limits are natural numbers
(`MaxDunning >= 2`, a retention of two days or more; `MaxPayments` and the other bounds are
not used by any argument beyond their type).

| Theorem | Inductive invariant | The argument |
|---|---|---|
| `ExchangedTokensAreRevoked`, `FamiliesAreLineages` | `SessionsInv` | `HandlersInv`: a handler about to create a successor has revoked the row it read; `FamiliesInv`: a stored token's family is named by a stored root of the same account |
| `SessionsImplementFamilyLifecycle` | `SessionsInv` | every step keeps or seals a family or adds one token to an open one; needs that `CanExtend` never becomes true again in a sealed family |
| `SerialSessionsAreLinear`, `SerialReuseKillsFamily` | `SessionsInv` | while no refreshes of it overlapped, the rotation in flight is the only way the family can gain a token |
| `BrowserImplementsSessions` | - | every step of a tab, of the wire or of the server is a step of `Sessions` or a stutter, so that whatever was proved of the sessions holds as the browser uses them |
| `RotationKeepsTheSession`, `LogoutIsFinal`, `ReuseIsCaused` | `BrowserInv` | `OneRenewal`: a browser without trouble has one renewal under way; `RenewalsGoWell`: its token is live until the server revokes it; `PartingInv`: while a logout travels, the token it took along is the session's only live one and no refresh of it is under way; `RenewalsOfLeft`: so what is asked after it comes to nothing |
| `BrowserImplementsFamilyLifecycle` | - | the two refinements one after the other |
| `WebhooksAreIdempotent`, `OnlyFailuresLoseEvents`, `ProcessedEventsAreApplied` | `LedgerInv` | `OneProcessor`: the unique `externalId` lets one delivery per event past the insert |
| `SettledEventsAreFinal`, `SubscriptionEventsAreFinal` | `LedgerInv` | a delivery past the insert works on a row that is only stored, so it is not at a settled one; through the refinement the same holds beside subscriptions and passes |
| `SubscriptionsImplementLedger` | - | every step of `Subscriptions` is a step of the ledger or a stutter, so the ledger's theorems hold of it |
| `DunningAttemptsAreAccounted`, `DunningIsBounded` | `SubscriptionsInv` | a past-due row has a counted failure (`RowsInv`); each pass holds at most one claim on a row, counted with `Cardinality` |
| `CancelledDunningEnds` | `SubscriptionsInv` | one lemma per kind of step: a retry of a row gives up the claim it used, and only a row that is due is claimed |
| `PaidInvoicesAreBacked`, `RefundsAreLostOnlyByRaces`, `ExtraChargesNeedARace` | `InvoicesInv` | overlaps are noticed (`OverlapsInv`); without one a refund computed from the current columns (`RefundsInv`), whatever its sign, and an unmarked charge is the only open one (`ChargesInv`) |
| `RefundsAreKept` | `InvoicesInv` | without an overlap what a refund writes is the current column plus its amount and the invoice is still paid (`RefundsInv`), and a full one is stored as such (`StatusIsBacked`) |
| `RunsAreAccounted`, `AutomationIsBounded` | `RunbooksInv` | every execution sits in at most one of `Uncounted` and `Upcoming` |
| `KillSwitchWindsDown`, `DeletedRunbooksStayAtRest` | `RunbooksInv` | no check is passed for a runbook that is off; a run moves its execution out of `Passed`, which is finite; a deletion is for good and nothing passes the checks of a deleted runbook |
| `AiOutputsAreLogged`, `ApprovalsAreOfTheOrg`, `ResolvedAtAndStatusAgree`, `AnsweredTicketsAreNotOpen` | `TicketsInv` | `TriageInv`: the triage has stored what precedes its next call; `HandlersInv`: what a reply read still holds but for what staff did |
| `StageLogTellsStatus`, `FormsAreAccounted`, `DeploymentsFollowReports`, `SettledRowsAreFinal` | `ProjectsInv` | `ScopeInv`: an approval that was not overtaken has entered its stage; `FormsInv`: a form has one request at a time; what a request is at work on exists |
| `DuplicateAlertsNeedARace`, `IngestAnswersBreaches` | `MonitoringInv` | `SearchStands`: since the search of a job that was not overtaken no alert came into its window; `BreachesCovered`: breaches dealt with have their alert |
| `RetentionSparesTheDashboard`, `RetentionDeletesCounted` | `MonitoringInv` | `DaysInOrder`: a day two days back was rolled up or neglected; `RollupsCover`: what a rollup has read and written covers its day |
| `DailyRowsAreExact`, `RollupsAreIdempotent` | `MonitoringInv` with `RollupsExact` | points of an aggregated day are late ones (`StoredExact`); a rollup reads a day the retention has not reached (`AggregateExact`), so that what it writes misses only late points (`RollupsCover`) and counts none twice (`RollupsExact`): with no late ones both rollups wrote `total` |
| `OnboardingIsAccounted`, `LockoutsAreCaused` | `AccountsInv` | `SignupsInv`: one request signs an e-mail up, and nobody is in its organisation before it; `MembersInv`: an organisation anybody is in or invited to has its founder in it; `ConfirmationsInv`: the code a confirmation verified still fits or is known not to. `SeedInv` adds that the script gives a membership to an account it has stored |
| `DemoDataIsAccounted` | `SeedInv` | `LeftBehind`: what a run has passed is there, or somebody is about to put it back; `OneByOne`: of runs that never overlapped at most one is unfinished; `AddedOnce`: the rows without a key are as many as `Cardinality(Adders(k))`, the runs that have added theirs |

Type correctness (`TypeCorrect`, `SubscriptionTypesCorrect`, `InvoiceTypesCorrect`,
`RunbookTypesCorrect`, `TicketTypesCorrect`, `ProjectTypesCorrect`,
`MonitoringTypesCorrect`, `BrowserTypesCorrect`, `AccountTypesCorrect`) is part of the same
invariants; it is proved, and no run lists it. The proofs have one lemma per conjunct of the
invariant and in it one step per action.

What the violation runs refute is proved of the behaviours without the cause that the
finding names, so that it is the only one: `ReuseKillsWithoutOverlap` (no two refreshes
of a session overlap), `AcksAreKeptWithoutFailure` (no call fails, nothing dies),
`RefundsFitWithoutOverlap` (no two refunds of an invoice overlap).

Of two of the three liveness properties the part that needs no fairness is proved:
`DeletedRunbooksStayAtRest` (once at rest, a deleted runbook stays there; with
`KillSwitchWindsDown`, every step of an execution on the way is one step nearer) and
`EndedTriageLeavesADraft`. `CancelledDunningEnds` bounds what is left of dunning.

**Only model-checked.** The liveness properties `DunningRunsItsCourse`,
`KillSwitchWorks` and `TriageSettles` (TLAPS does not do fairness), and that the three
properties of the violation runs are violated.

## 6. What is not modelled

* API keys, roles and the listings: a column and a guard, no protocol.
* The access token's check beyond `isActive`: a signed JWT of 15 minutes, without state.
* The AI spend counter: one number per process, never reset, compared for a log
  line only. No state depends on it (`docs/SECURITY.md` calls it "enforced").
* `scopeProduct`, `insight`, `codeAssist`: an external call and one log row.
* Product messages, files and the fields of a product other than its status and deletion:
  single writes that no property reads.
* Rooms of the realtime gateway, usage records, audit: no state or append-only. The
  notification of an alert and of a new product is a step where its rejection matters.
* The weekly report and the read endpoints of monitoring; what the detector computes.
* Catalog, admin pricing, contact: single-row writes without a protocol.
* Rendering, mail, PDF and CSV output, infrastructure: no concurrent state.

## 7. Plan

The order followed how much depends on a component and how much can go wrong in
it: sessions, webhooks and subscriptions, invoices, runbooks, tickets, then projects,
monitoring, accounts with the seed, and the browser on top of the sessions. All of it
stands. What is left is `Browser` with a
second account whose login overtakes a late answer, as a run of its own: with 2 accounts
the present one outgrows its time.
