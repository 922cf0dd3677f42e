----------------------------- MODULE Subscriptions -----------------------------
(***************************************************************************)
(* Subscriptions and their dunning: modules/billing, the subscription      *)
(* events of modules/webhooks on top of WebhookLedger, and the dunning job *)
(* of the worker.                                                          *)
(*                                                                         *)
(* Every replica of the worker has its own cron and its own BullMQ         *)
(* consumer of the dunning queue, so several passes of runDunningPass may  *)
(* run at once.  A pass reads the list of due subscriptions once and then  *)
(* works through it, two awaited calls per subscription.  A customer       *)
(* cancels on the billing page, from the list that page has loaded.        *)
(***************************************************************************)
EXTENDS WebhookLedger, FiniteSets

CONSTANTS
  Subscription,  \* the rows of the Subscription table
  Pass,          \* slots for dunning passes that run at the same time
  Page,          \* the browsers with the billing page open
  Kind,          \* Kind[e]: what event e tells: a failed payment, a renewed
                 \* ("active") subscription, or one with any other status
  Subject,       \* Subject[e]: the row with the event's stripeSubscriptionId
  MaxDunning,    \* the 4 of runDunningPass
  MaxDeaths      \* bound: how many passes are cut short

EventKinds == {"payment_failed", "active", "ended"}

ASSUME KindAssumption       == Kind \in [Event -> EventKinds]
ASSUME SubjectAssumption    == Subject \in [Event -> Subscription]
ASSUME MaxDunningAssumption == MaxDunning \in Nat /\ MaxDunning >= 2
ASSUME MaxDeathsAssumption  == MaxDeaths \in Nat
ASSUME EventAssumption      == IsFiniteSet(Event)
ASSUME PassAssumption       == IsFiniteSet(Pass)

VARIABLES
  subStatus,        \* subStatus[s]: "none" (no row yet) or the row's status
  dunningAttempts,  \* dunningAttempts[s]: the row's counter
  cancellable,      \* cancellable[g]: the rows with a Cancel button on page g
  due,              \* due[p]: what is left of the list pass p has read
  notifying,        \* the passes that wait for notifyOrg
  retries,          \* history: how often a pass retried s
  deaths            \* how many passes were cut short

passVars == <<due, notifying, retries, deaths>>
subVars  == <<subStatus, dunningAttempts, cancellable, passVars>>
vars     == <<ledgerVars, subVars>>

SubStatus == {"ACTIVE", "PAST_DUE", "CANCELED"}

Exists(s) == subStatus[s] # "none"

\* Faulty: one attempt too many, and one too few.
DueAtLimit    == {s \in Subscription :
                    subStatus[s] = "PAST_DUE" /\ dunningAttempts[s] <= MaxDunning}
DueBelowLimit == {s \in Subscription :
                    subStatus[s] = "PAST_DUE" /\ dunningAttempts[s] + 1 < MaxDunning}

\* Faulty: the status is not asked for.
DueWhateverStatus == {s \in Subscription :
                         Exists(s) /\ dunningAttempts[s] < MaxDunning}

\* The where clause of runDunningPass.
Due == {s \in Subscription :
          subStatus[s] = "PAST_DUE" /\ dunningAttempts[s] < MaxDunning}

-----------------------------------------------------------------------------

\* BillingService.subscribe, the button of a plan.
Subscribe(s) ==
  /\ ~Exists(s)
  /\ subStatus' = [subStatus EXCEPT ![s] = "ACTIVE"]
  /\ UNCHANGED <<dunningAttempts, cancellable, passVars, ledgerVars>>

\* BillingService.cancelSubscription: by id, whatever the status is.
CancelSubscription(s) ==
  /\ Exists(s)
  /\ subStatus' = [subStatus EXCEPT ![s] = "CANCELED"]
  /\ UNCHANGED <<dunningAttempts, cancellable, passVars, ledgerVars>>

\* The page loads its list when it is opened and after each of its own calls: only
\* what is active has a Cancel button, what is past due has none.
LoadPage(g) ==
  /\ cancellable' =
       [cancellable EXCEPT ![g] = {s \in Subscription : subStatus[s] = "ACTIVE"}]
  /\ UNCHANGED <<subStatus, dunningAttempts, passVars, ledgerVars>>

\* The button works on what the page has loaded, and stays while its call is
\* pending.
Cancel(g, s) == s \in cancellable[g] /\ CancelSubscription(s)

\* A failed payment makes the row past due, "active" makes it active, and any other
\* status cancels it.
StatusAfter(e) == CASE Kind[e] = "payment_failed" -> "PAST_DUE"
                    [] Kind[e] = "active"         -> "ACTIVE"
                    [] Kind[e] = "ended"          -> "CANCELED"

\* Faulty: every event counts.
CountEveryEvent(e) == dunningAttempts[Subject[e]] + 1

\* Only a failed payment counts.
AttemptsAfter(e) == dunningAttempts[Subject[e]]
                      + (IF Kind[e] = "payment_failed" THEN 1 ELSE 0)

\* The updateMany that event e calls for.
SubscriptionEffect(e) ==
  /\ subStatus' = [subStatus EXCEPT ![Subject[e]] = StatusAfter(e)]
  /\ dunningAttempts' = [dunningAttempts EXCEPT ![Subject[e]] = AttemptsAfter(e)]
  /\ UNCHANGED <<cancellable, passVars>>

\* runDunningPass reads its list; an empty one ends the pass at once.
StartPass(p) ==
  /\ due[p] = {} /\ p \notin notifying
  /\ Due # {}
  /\ due' = [due EXCEPT ![p] = Due]
  /\ UNCHANGED <<subStatus, dunningAttempts, cancellable, notifying, retries, deaths,
                 ledgerVars>>

\* One turn of the loop: count the attempt, whatever the row says by now ...
RetrySubscription(p) ==
  /\ p \notin notifying
  /\ \E s \in due[p] :
       /\ dunningAttempts' = [dunningAttempts EXCEPT ![s] = @ + 1]
       /\ retries' = [retries EXCEPT ![s] = @ + 1]
       /\ due' = [due EXCEPT ![p] = @ \ {s}]
  /\ notifying' = notifying \cup {p}
  /\ UNCHANGED <<subStatus, cancellable, deaths, ledgerVars>>

\* ... then tell the organisation.
NotifyOrg(p) ==
  /\ p \in notifying
  /\ notifying' = notifying \ {p}
  /\ UNCHANGED <<subStatus, dunningAttempts, cancellable, due, retries, deaths, ledgerVars>>

\* A call of the pass is rejected or its process dies: the rest of the list is
\* left for another day.
PassDies(p) ==
  /\ due[p] # {} \/ p \in notifying
  /\ deaths < MaxDeaths
  /\ deaths' = deaths + 1
  /\ due' = [due EXCEPT ![p] = {}]
  /\ notifying' = notifying \ {p}
  /\ UNCHANGED <<subStatus, dunningAttempts, cancellable, retries, ledgerVars>>

-----------------------------------------------------------------------------

Init ==
  /\ LedgerInit
  /\ subStatus       = [s \in Subscription |-> "none"]
  /\ dunningAttempts = [s \in Subscription |-> 0]
  /\ cancellable     = [g \in Page |-> {}]
  /\ due             = [p \in Pass |-> {}]
  /\ notifying       = {}
  /\ retries         = [s \in Subscription |-> 0]
  /\ deaths          = 0

\* A delivery of a subscription event.  Stripe knows the subscriptions that exist.
DeliveryStep(d) ==
  \/ \E e \in Event : Exists(Subject[e]) /\ Deliver(d, e) /\ UNCHANGED subVars
  \/ LedgerStep(d) /\ UNCHANGED subVars
  \/ ApplyEffect(d) /\ SubscriptionEffect(evt[d])

PassStep(p) == RetrySubscription(p) \/ NotifyOrg(p)

\* What customers do on the page.
CustomerStep ==
  \/ \E s \in Subscription : Subscribe(s)
  \/ \E g \in Page : LoadPage(g)
  \/ \E g \in Page, s \in Subscription : Cancel(g, s)

Next ==
  \/ \E d \in Delivery : DeliveryStep(d)
  \/ \E p \in Pass : StartPass(p) \/ PassStep(p) \/ PassDies(p)
  \/ CustomerStep

Spec == Init /\ [][Next]_vars

\* The cron starts a pass every day and a pass that has started goes on; the
\* handler of a delivery that was received goes on.  Customers and Stripe owe
\* nothing.
Fairness ==
  /\ \A p \in Pass : WF_vars(StartPass(p)) /\ WF_vars(PassStep(p))
  /\ \A d \in Delivery :
       WF_vars((LedgerStep(d) /\ UNCHANGED subVars)
                 \/ (ApplyEffect(d) /\ SubscriptionEffect(evt[d])))

FairSpec == Spec /\ Fairness

-----------------------------------------------------------------------------
(* Properties *)

SubTypeOK ==
  /\ subStatus       \in [Subscription -> SubStatus \cup {"none"}]
  /\ dunningAttempts \in [Subscription -> Nat]
  /\ cancellable     \in [Page -> SUBSET Subscription]
  /\ due             \in [Pass -> SUBSET Subscription]
  /\ notifying       \in SUBSET Pass
  /\ retries         \in [Subscription -> Nat]
  /\ deaths          \in Nat

TypeOK == LedgerTypeOK /\ SubTypeOK

\* The passes that still have s on their list.
Claims(s) == {p \in Pass : s \in due[p]}

\* "max 4 attempts" (worker/README.md) holds up to the passes that overlap.  A row
\* is past due for a failed payment that was counted, which leaves MaxDunning - 1
\* retries; every pass checked the counter before it listed s, but nothing checks
\* it again, so each pass beyond the first may add one retry.
DunningBounded ==
  \A s \in Subscription :
    retries[s] + Cardinality(Claims(s)) <= MaxDunning - 2 + Cardinality(Pass)

\* The failed payments of s that took effect.
FailuresOf(s) ==
  {e \in Event : Kind[e] = "payment_failed" /\ Subject[e] = s /\ effects[e] = 1}

\* No attempt is lost or counted twice: the counter is the failed payments that
\* took effect plus the retries of the passes, however they interleave.
AttemptsAccounted ==
  \A s \in Subscription :
    dunningAttempts[s] = Cardinality(FailuresOf(s)) + retries[s]

\* Dunning winds down: a subscription that was cancelled or renewed, or whose
\* attempts are used up, is put on no list, and the passes that listed it while it
\* was due - nothing checks it again - retry it at most once each.
DunningWindsDown ==
  [][\A s \in Subscription :
       subStatus[s] # "PAST_DUE" \/ dunningAttempts[s] >= MaxDunning =>
         /\ Claims(s)' \subseteq Claims(s)
         /\ retries'[s] + Cardinality(Claims(s)')
              <= retries[s] + Cardinality(Claims(s))]_vars

\* A past-due subscription is retried until its attempts are used up or it leaves
\* the past-due state, even when passes are cut short.
DunningRunsItsCourse ==
  \A s \in Subscription :
    subStatus[s] = "PAST_DUE" ~>
      (subStatus[s] # "PAST_DUE" \/ dunningAttempts[s] >= MaxDunning)

-----------------------------------------------------------------------------
(* What makes DunningBounded inductive. *)

\* A row is past due only for a failed payment that took effect.
RowsInv ==
  \A s \in Subscription :
    subStatus[s] = "PAST_DUE" => FailuresOf(s) # {}

SubscriptionsInv ==
  /\ TypeOK
  /\ LedgerInv
  /\ RowsInv
  /\ AttemptsAccounted
  /\ DunningBounded
=============================================================================
