-------------------------- MODULE SubscriptionsProofs --------------------------
(***************************************************************************)
(* Theorems about the webhook endpoint, for any set of events and any      *)
(* number of concurrent deliveries, and about Subscriptions on top of it,  *)
(* for any finite sets of events and passes, any subscriptions and any     *)
(* MaxDunning >= 2.                                                        *)
(***************************************************************************)
EXTENDS Subscriptions, FiniteSetTheorems, TLAPS

(* The endpoint *)

LEMMA LedgerInvInit == LedgerInit => LedgerInv
  BY NoEventAssumption
     DEF LedgerInit, LedgerInv, LedgerTypeOK, OneProcessor, DeliveriesInv, EventsInv,
         HPC, Free, Store, Apply, Mark, RecordError

\* One step of the endpoint, one action at a time.
LEMMA LedgerInvStep == ASSUME LedgerInv, [LedgerNext]_ledgerVars PROVE LedgerInv'
<1> DEFINE Goal == LedgerTypeOK' /\ OneProcessor' /\ DeliveriesInv' /\ EventsInv'
<1> USE NoEventAssumption
        DEF LedgerTypeOK, OneProcessor, DeliveriesInv, EventsInv, HPC, Free, Store,
            Apply, Mark, RecordError, Continue, Leave, Answer200, NoAnswer, Mishap
<1>a. LedgerTypeOK /\ OneProcessor /\ DeliveriesInv /\ EventsInv
  BY DEF LedgerInv
<1>1. ASSUME NEW d \in Delivery, NEW e \in Event, Deliver(d, e)
      PROVE Goal
  BY <1>a, <1>1 DEF Deliver
<1>2. ASSUME NEW d \in Delivery, StoreEvent(d)
      PROVE Goal
  BY <1>a, <1>2 DEF StoreEvent, Storable
<1>3. ASSUME NEW d \in Delivery, RefuseDuplicate(d)
      PROVE Goal
  BY <1>a, <1>3 DEF RefuseDuplicate, Storable
<1>4. ASSUME NEW d \in Delivery, StoreFails(d)
      PROVE Goal
  BY <1>a, <1>4 DEF StoreFails
<1>5. ASSUME NEW d \in Delivery, ApplyEffect(d)
      PROVE Goal
  BY <1>a, <1>5 DEF ApplyEffect
<1>6. ASSUME NEW d \in Delivery, MarkProcessed(d)
      PROVE Goal
  BY <1>a, <1>6 DEF MarkProcessed
<1>7. ASSUME NEW d \in Delivery, CallFails(d)
      PROVE Goal
  BY <1>a, <1>7 DEF CallFails
<1>8. ASSUME NEW d \in Delivery, RecordTheError(d)
      PROVE Goal
  BY <1>a, <1>8 DEF RecordTheError
<1>9. ASSUME NEW d \in Delivery, Crash(d)
      PROVE Goal
  BY <1>a, <1>9 DEF Crash
<1>10. ASSUME UNCHANGED ledgerVars
       PROVE Goal
  BY <1>a, <1>10 DEF ledgerVars
<1> HIDE DEF Goal
<1>11. Goal
  BY <1>1, <1>2, <1>3, <1>4, <1>5, <1>6, <1>7, <1>8, <1>9, <1>10
     DEF LedgerNext, LedgerStep
<1>12. QED
  BY <1>11 DEF Goal, LedgerInv

\* The inductive invariant of the endpoint.
THEOREM LedgerInvariant == LedgerSpec => []LedgerInv
  BY LedgerInvInit, LedgerInvStep, PTL DEF LedgerSpec

\* The facts a reader wants follow from the inductive invariant.
LEMMA LedgerFacts == LedgerInv => LossOnlyByFailure /\ ProcessedMeansApplied
<1> SUFFICES ASSUME LedgerInv
             PROVE  LossOnlyByFailure /\ ProcessedMeansApplied
  OBVIOUS
<1>1. ProcessedMeansApplied
  BY DEF LedgerInv, EventsInv, ProcessedMeansApplied
<1>2. ASSUME NEW e \in acked \ mishap, ~InFlight(e)
      PROVE  effects[e] = 1 /\ ledger[e] = "processed"
  <2>1. e \in Event
    BY DEF LedgerInv, LedgerTypeOK
  <2>2. ledger[e] = "processed"
    BY <1>2, <2>1 DEF LedgerInv, LedgerTypeOK, EventsInv, InFlight
  <2>3. QED
    BY <2>1, <2>2 DEF LedgerInv, EventsInv
<1>3. QED
  BY <1>1, <1>2 DEF LossOnlyByFailure

\* Duplicates and concurrency alone lose no acknowledged event.
THEOREM OnlyFailuresLoseEvents == LedgerSpec => []LossOnlyByFailure
  BY LedgerInvariant, LedgerFacts, PTL

\* What the endpoint promises with a 200 it keeps, for every number of deliveries, in
\* every behaviour without a failed call or a crash.
THEOREM AcksAreKeptWithoutFailure == LedgerSpec => [](mishap = {} => AckedEventIsApplied)
<1>1. LossOnlyByFailure => (mishap = {} => AckedEventIsApplied)
  BY DEF LossOnlyByFailure, AckedEventIsApplied
<1>2. QED
  BY <1>1, OnlyFailuresLoseEvents, PTL

\* processedAt is set only for events whose effect is in the billing tables.
THEOREM ProcessedEventsAreApplied == LedgerSpec => []ProcessedMeansApplied
  BY LedgerInvariant, LedgerFacts, PTL

\* Every step of the endpoint applies one event for the first time or none.
LEMMA AtMostOnceStep ==
  ASSUME LedgerInv, [LedgerNext]_ledgerVars PROVE [Once!Next]_effects
<1>1. ASSUME NEW d \in Delivery, ApplyEffect(d)
      PROVE  Once!Next
  <2>1. evt[d] \in Event /\ effects[evt[d]] = 0
    BY <1>1 DEF ApplyEffect, LedgerInv, DeliveriesInv, Apply, Free
  <2>2. effects' = [effects EXCEPT ![evt[d]] = 1]
    BY <1>1, <2>1 DEF ApplyEffect, LedgerInv, LedgerTypeOK
  <2>3. QED
    BY <2>1, <2>2 DEF Once!Next, Once!TakeEffect
<1>2. ASSUME NEW d \in Delivery, LedgerStep(d) \/ \E e \in Event : Deliver(d, e)
      PROVE  UNCHANGED effects
  BY <1>2 DEF LedgerStep, StoreEvent, RefuseDuplicate, StoreFails, MarkProcessed,
              CallFails, RecordTheError, Crash, Deliver
<1>3. ASSUME UNCHANGED ledgerVars
      PROVE  UNCHANGED effects
  BY <1>3 DEF ledgerVars
<1>4. QED
  BY <1>1, <1>2, <1>3 DEF LedgerNext

\* The endpoint implements AtMostOnce: the effect of an event is applied at most
\* once, whatever is delivered again, fails or crashes.
THEOREM WebhooksAreIdempotent == LedgerSpec => EffectAtMostOnce
<1>1. LedgerInit => Once!Init
  BY DEF LedgerInit, Once!Init
<1>2. QED
  BY <1>1, AtMostOnceStep, LedgerInvariant, PTL
     DEF EffectAtMostOnce, Once!Spec, LedgerSpec

-----------------------------------------------------------------------------
(* Subscriptions *)

\* The composition uses the endpoint as it is.
LEMMA SubscriptionsUseLedger == [Next]_vars => [LedgerNext]_ledgerVars
<1>1. ASSUME NEW d \in Delivery, DeliveryStep(d) PROVE LedgerNext
  BY <1>1 DEF DeliveryStep, LedgerNext
<1>2. ASSUME NEW p \in Pass, StartPass(p) \/ PassStep(p) \/ PassDies(p)
      PROVE UNCHANGED ledgerVars
  BY <1>2 DEF StartPass, PassStep, RetrySubscription, NotifyOrg, PassDies
<1>3. ASSUME CustomerStep PROVE UNCHANGED ledgerVars
  BY <1>3 DEF CustomerStep, LoadPage, Cancel, Subscribe, CancelSubscription
<1>4. ASSUME UNCHANGED vars PROVE UNCHANGED ledgerVars
  BY <1>4 DEF vars
<1>5. ASSUME [Next]_vars PROVE LedgerNext \/ UNCHANGED ledgerVars
  BY <1>1, <1>2, <1>3, <1>4, <1>5 DEF Next
<1>6. QED
  BY <1>5

\* Subscriptions implements the webhook endpoint.
THEOREM SubscriptionsImplementLedger == Spec => LedgerSpec
  BY SubscriptionsUseLedger, PTL DEF Spec, Init, LedgerSpec

-----------------------------------------------------------------------------

\* What a step does to the sets that the counters are compared with.
LEMMA ClaimsFinite ==
  ASSUME NEW s
  PROVE  IsFiniteSet(Claims(s)) /\ Cardinality(Claims(s)) \in Nat
  BY PassAssumption, FS_Subset, FS_CardinalityType DEF Claims

LEMMA FailuresFinite ==
  ASSUME NEW s
  PROVE  IsFiniteSet(FailuresOf(s)) /\ Cardinality(FailuresOf(s)) \in Nat
  BY EventAssumption, FS_Subset, FS_CardinalityType DEF FailuresOf

LEMMA SubTypeStep == ASSUME SubscriptionsInv, [Next]_vars PROVE SubTypeOK'
<1> USE SubjectAssumption, KindAssumption
        DEF SubTypeOK, SubStatus, EventKinds
<1>a. SubTypeOK
  BY DEF SubscriptionsInv, TypeOK
<1>1. ASSUME NEW d \in Delivery, DeliveryStep(d) PROVE SubTypeOK'
  <2>1. CASE ApplyEffect(d) /\ SubscriptionEffect(evt[d])
    <3>1. evt[d] \in Event
      BY <2>1 DEF ApplyEffect, SubscriptionsInv, LedgerInv, DeliveriesInv, Apply, Free
    <3>2. Subject[evt[d]] \in Subscription /\ Kind[evt[d]] \in EventKinds
      BY <3>1
    <3>3. QED
      BY <1>a, <2>1, <3>2 DEF SubscriptionEffect, passVars, StatusAfter, AttemptsAfter
  <2>2. CASE UNCHANGED subVars
    BY <1>a, <2>2 DEF subVars, passVars
  <2>3. QED
    BY <1>1, <2>1, <2>2 DEF DeliveryStep
<1>2. ASSUME NEW p \in Pass, StartPass(p) \/ PassStep(p) \/ PassDies(p)
      PROVE SubTypeOK'
  BY <1>a, <1>2 DEF StartPass, PassStep, RetrySubscription, NotifyOrg, PassDies, Due
<1>3. ASSUME CustomerStep PROVE SubTypeOK'
  BY <1>a, <1>3 DEF CustomerStep, LoadPage, Cancel, Subscribe, CancelSubscription, passVars
<1>4. ASSUME UNCHANGED vars PROVE SubTypeOK'
  BY <1>a, <1>4 DEF vars, subVars, passVars
<1> HIDE DEF SubTypeOK
<1>5. QED
  BY <1>1, <1>2, <1>3, <1>4 DEF Next

\* No attempt is lost, and a past-due row has a failed payment to its name.
LEMMA AccountStep ==
  ASSUME SubscriptionsInv, [Next]_vars PROVE AttemptsAccounted' /\ RowsInv'
<1> DEFINE Goal == AttemptsAccounted' /\ RowsInv'
<1> USE SubjectAssumption, KindAssumption DEF AttemptsAccounted, RowsInv
<1>a. AttemptsAccounted /\ RowsInv /\ SubTypeOK /\ LedgerTypeOK /\ DeliveriesInv
  BY DEF SubscriptionsInv, TypeOK, LedgerInv
<1>b. ASSUME UNCHANGED effects PROVE \A s : FailuresOf(s)' = FailuresOf(s)
  BY <1>b DEF FailuresOf
<1>1. ASSUME NEW d \in Delivery, ApplyEffect(d), SubscriptionEffect(evt[d])
      PROVE Goal
  <2>1. PICK e \in Event : e = evt[d] /\ effects[e] = 0
    BY <1>a, <1>1 DEF ApplyEffect, DeliveriesInv, Apply, Free
  <2>2. PICK s \in Subscription : s = Subject[e]
    OBVIOUS
  <2>2a. \A x \in Event : effects'[x] = IF x = e THEN 1 ELSE effects[x]
    BY <1>a, <1>1, <2>1 DEF ApplyEffect, LedgerTypeOK
  <2>3. ASSUME NEW x \in Subscription, x # s \/ Kind[e] # "payment_failed"
        PROVE  FailuresOf(x)' = FailuresOf(x)
    BY <2>2a, <2>2, <2>3 DEF FailuresOf
  <2>4. CASE Kind[e] = "payment_failed"
    <3>1. FailuresOf(s)' = FailuresOf(s) \cup {e} /\ e \notin FailuresOf(s)
      BY <2>2a, <2>1, <2>2, <2>4 DEF FailuresOf
    <3>2. Cardinality(FailuresOf(s)') = Cardinality(FailuresOf(s)) + 1
      BY <3>1, FailuresFinite, FS_AddElement
    <3>3. /\ dunningAttempts' = [dunningAttempts EXCEPT ![s] = @ + 1]
          /\ subStatus' = [subStatus EXCEPT ![s] = "PAST_DUE"]
          /\ retries' = retries
      BY <1>1, <2>1, <2>2, <2>4 DEF SubscriptionEffect, passVars, StatusAfter, AttemptsAfter
    <3>4. ASSUME NEW x \in Subscription
          PROVE  /\ dunningAttempts'[x] = Cardinality(FailuresOf(x)') + retries'[x]
                 /\ subStatus'[x] = "PAST_DUE" => FailuresOf(x)' # {}
      <4>1. CASE x = s
        <5>1. /\ dunningAttempts'[s] = dunningAttempts[s] + 1
              /\ retries'[s] = retries[s]
          BY <1>a, <2>2, <3>3 DEF SubTypeOK
        <5>2. dunningAttempts[s] = Cardinality(FailuresOf(s)) + retries[s]
          BY <1>a, <2>2
        <5>3. retries[s] \in Nat
          BY <1>a, <2>2 DEF SubTypeOK
        <5>4. QED
          BY <3>1, <3>2, <4>1, <5>1, <5>2, <5>3, FailuresFinite
      <4>2. CASE x # s
        BY <1>a, <2>2, <2>3, <3>3, <4>2 DEF SubTypeOK
      <4>3. QED
        BY <4>1, <4>2
    <3>5. QED
      BY <3>4
  <2>5. CASE Kind[e] # "payment_failed"
    <3>1. dunningAttempts' = dunningAttempts /\ retries' = retries
      BY <1>a, <1>1, <2>1, <2>2, <2>5 DEF SubscriptionEffect, passVars, AttemptsAfter, SubTypeOK
    <3>2. \A x \in Subscription :
            subStatus'[x] = "PAST_DUE" => subStatus[x] = "PAST_DUE"
      BY <1>a, <1>1, <2>1, <2>2, <2>5 DEF SubscriptionEffect, passVars, StatusAfter, AttemptsAfter, EventKinds, SubTypeOK
    <3>3. QED
      BY <1>a, <2>3, <2>5, <3>1, <3>2
  <2>6. QED
    BY <2>4, <2>5
<1>2. ASSUME NEW d \in Delivery, LedgerStep(d) \/ \E e \in Event : Deliver(d, e),
             UNCHANGED subVars
      PROVE Goal
  <2>1. UNCHANGED effects
    BY <1>2 DEF LedgerStep, StoreEvent, RefuseDuplicate, StoreFails, MarkProcessed,
                CallFails, RecordTheError, Crash, Deliver
  <2>2. QED
    BY <1>a, <1>b, <1>2, <2>1 DEF subVars, passVars
<1>3. ASSUME NEW p \in Pass, RetrySubscription(p)
      PROVE Goal
  <2>1. PICK s \in due[p] :
          /\ dunningAttempts' = [dunningAttempts EXCEPT ![s] = @ + 1]
          /\ retries' = [retries EXCEPT ![s] = @ + 1]
    BY <1>3 DEF RetrySubscription
  <2>2. s \in Subscription
    BY <1>a DEF SubTypeOK
  <2>3. UNCHANGED subStatus /\ \A x : FailuresOf(x)' = FailuresOf(x)
    BY <1>b, <1>3 DEF RetrySubscription, ledgerVars
  <2>4. ASSUME NEW x \in Subscription
        PROVE  dunningAttempts'[x] = Cardinality(FailuresOf(x)') + retries'[x]
    <3>1. CASE x = s
      BY <1>a, <2>1, <2>2, <2>3, <3>1, FailuresFinite DEF SubTypeOK
    <3>2. CASE x # s
      BY <1>a, <2>1, <2>2, <2>3, <3>2 DEF SubTypeOK
    <3>3. QED
      BY <3>1, <3>2
  <2>5. QED
    BY <1>a, <2>3, <2>4
<1>4. ASSUME NEW p \in Pass, StartPass(p) \/ NotifyOrg(p) \/ PassDies(p)
      PROVE Goal
  BY <1>a, <1>b, <1>4 DEF StartPass, NotifyOrg, PassDies, ledgerVars
<1>5. ASSUME CustomerStep
      PROVE Goal
  BY <1>a, <1>b, <1>5 DEF CustomerStep, LoadPage, Cancel, Subscribe, CancelSubscription,
                          passVars, ledgerVars, SubTypeOK
<1>6. ASSUME UNCHANGED vars PROVE Goal
  BY <1>a, <1>b, <1>6 DEF vars, subVars, passVars, ledgerVars
<1> HIDE DEF Goal
<1>7. Goal
  BY <1>1, <1>2, <1>3, <1>4, <1>5, <1>6 DEF Next, DeliveryStep, PassStep
<1>8. QED
  BY <1>7 DEF Goal

\* A pass lists a subscription only after it read a counter below MaxDunning.
LEMMA BoundStep == ASSUME SubscriptionsInv, [Next]_vars PROVE DunningBounded'
<1> USE DEF DunningBounded
<1>a. DunningBounded /\ AttemptsAccounted /\ RowsInv /\ SubTypeOK
  BY DEF SubscriptionsInv, TypeOK
<1>b. ASSUME UNCHANGED <<retries, due>> PROVE DunningBounded'
  <2>1. \A s : Claims(s)' = Claims(s)
    BY <1>b DEF Claims
  <2>2. QED
    BY <1>a, <1>b, <2>1
<1>1. ASSUME NEW p \in Pass, StartPass(p)
      PROVE  DunningBounded'
  <2>1. ASSUME NEW s \in Subscription
        PROVE  retries'[s] + Cardinality(Claims(s)') <= MaxDunning - 2 + Cardinality(Pass)
    <3>1. retries'[s] = retries[s] /\ retries[s] \in Nat
      BY <1>a, <1>1 DEF StartPass, SubTypeOK
    <3>2. CASE s \in Due
      <4>1. Cardinality(FailuresOf(s)) \in Nat /\ Cardinality(FailuresOf(s)) # 0
        BY <1>a, <3>2, FailuresFinite, FS_EmptySet DEF Due, RowsInv
      <4>2. /\ dunningAttempts[s] < MaxDunning
            /\ dunningAttempts[s] = Cardinality(FailuresOf(s)) + retries[s]
        BY <1>a, <3>2 DEF Due, AttemptsAccounted
      <4>3. retries[s] <= MaxDunning - 2
        BY <3>1, <4>1, <4>2, MaxDunningAssumption
      <4>4. /\ Cardinality(Claims(s)') <= Cardinality(Pass)
            /\ Cardinality(Claims(s)') \in Nat /\ Cardinality(Pass) \in Nat
        <5>1. Claims(s)' \in SUBSET Pass
          BY DEF Claims
        <5>2. QED
          BY <5>1, PassAssumption, FS_Subset, FS_CardinalityType
      <4>5. QED
        BY <3>1, <4>3, <4>4, MaxDunningAssumption
    <3>3. CASE s \notin Due
      <4>1. Claims(s)' = Claims(s)
        BY <1>a, <1>1, <3>3 DEF StartPass, Claims, SubTypeOK
      <4>2. QED
        BY <1>a, <3>1, <4>1
    <3>4. QED
      BY <3>2, <3>3
  <2>2. QED
    BY <2>1
<1>2. ASSUME NEW p \in Pass, RetrySubscription(p)
      PROVE  DunningBounded'
  <2>1. PICK s \in due[p] :
          /\ retries' = [retries EXCEPT ![s] = @ + 1]
          /\ due' = [due EXCEPT ![p] = @ \ {s}]
    BY <1>2 DEF RetrySubscription
  <2>2. s \in Subscription
    BY <1>a DEF SubTypeOK
  <2>3. Claims(s)' = Claims(s) \ {p} /\ p \in Claims(s)
    BY <1>a, <2>1 DEF Claims, SubTypeOK
  <2>4. Cardinality(Claims(s)') = Cardinality(Claims(s)) - 1
    BY <2>3, ClaimsFinite, FS_RemoveElement
  <2>5. retries[s] \in Nat /\ retries'[s] = retries[s] + 1
    BY <1>a, <2>1, <2>2 DEF SubTypeOK
  <2>6. Cardinality(Pass) \in Nat
    BY PassAssumption, FS_CardinalityType
  <2>7. retries'[s] + Cardinality(Claims(s)') <= MaxDunning - 2 + Cardinality(Pass)
    <3>1. retries[s] + Cardinality(Claims(s)) <= MaxDunning - 2 + Cardinality(Pass)
      BY <1>a, <2>2
    <3>2. QED
      BY <2>4, <2>5, <2>6, <3>1, ClaimsFinite, MaxDunningAssumption
  <2>8. ASSUME NEW x \in Subscription, x # s
        PROVE  Claims(x)' = Claims(x) /\ retries'[x] = retries[x]
    BY <1>a, <2>1, <2>8 DEF Claims, SubTypeOK
  <2>9. QED
    BY <1>a, <2>7, <2>8
<1>3. ASSUME NEW p \in Pass, PassDies(p)
      PROVE  DunningBounded'
  <2>1. ASSUME NEW s \in Subscription
        PROVE  retries'[s] + Cardinality(Claims(s)') <= MaxDunning - 2 + Cardinality(Pass)
    <3>1. Claims(s)' \in SUBSET Claims(s)
      BY <1>a, <1>3 DEF PassDies, Claims, SubTypeOK
    <3>2. /\ Cardinality(Claims(s)') <= Cardinality(Claims(s))
          /\ Cardinality(Claims(s)') \in Nat /\ Cardinality(Claims(s)) \in Nat
      BY <3>1, ClaimsFinite, FS_Subset, FS_CardinalityType
    <3>3. retries'[s] = retries[s] /\ retries[s] \in Nat /\ Cardinality(Pass) \in Nat
      BY <1>a, <1>3, PassAssumption, FS_CardinalityType DEF PassDies, SubTypeOK
    <3>4. retries[s] + Cardinality(Claims(s)) <= MaxDunning - 2 + Cardinality(Pass)
      BY <1>a
    <3>5. QED
      BY <3>2, <3>3, <3>4, MaxDunningAssumption
  <2>2. QED
    BY <2>1
<1>4. ASSUME NEW p \in Pass, NotifyOrg(p)
      PROVE  UNCHANGED <<retries, due>>
  BY <1>4 DEF NotifyOrg
<1>5. ASSUME NEW d \in Delivery, DeliveryStep(d)
      PROVE  UNCHANGED <<retries, due>>
  BY <1>5 DEF DeliveryStep, SubscriptionEffect, passVars, subVars
<1>6. ASSUME CustomerStep
      PROVE  UNCHANGED <<retries, due>>
  BY <1>6 DEF CustomerStep, LoadPage, Cancel, Subscribe, CancelSubscription, passVars
<1>7. ASSUME UNCHANGED vars
      PROVE  UNCHANGED <<retries, due>>
  BY <1>7 DEF vars, subVars, passVars
<1> HIDE DEF DunningBounded
<1>8. QED
  BY <1>b, <1>1, <1>2, <1>3, <1>4, <1>5, <1>6, <1>7 DEF Next, PassStep

LEMMA SubscriptionsInit == Init => SubscriptionsInv
<1> SUFFICES ASSUME Init PROVE SubscriptionsInv
  OBVIOUS
<1>1. LedgerInv
  BY LedgerInvInit DEF Init
<1>2. TypeOK
  BY <1>1 DEF Init, LedgerInv, TypeOK, SubTypeOK
<1>3. RowsInv
  BY DEF Init, RowsInv
<1>4. ASSUME NEW s \in Subscription
      PROVE  Claims(s) = {} /\ FailuresOf(s) = {}
  BY DEF Init, LedgerInit, Claims, FailuresOf
<1>5. Cardinality({}) = 0 /\ Cardinality(Pass) \in Nat
  BY FS_EmptySet, PassAssumption, FS_CardinalityType
<1>6. AttemptsAccounted
  BY <1>4, <1>5 DEF Init, AttemptsAccounted
<1>7. DunningBounded
  <2>1. ASSUME NEW s \in Subscription
        PROVE  retries[s] = 0 /\ Cardinality(Claims(s)) = 0
    BY <1>4, <1>5 DEF Init
  <2>2. QED
    BY <2>1, <1>5, MaxDunningAssumption DEF DunningBounded
<1>8. QED
  BY <1>1, <1>2, <1>3, <1>6, <1>7 DEF SubscriptionsInv

LEMMA SubscriptionsStep ==
  ASSUME SubscriptionsInv, [Next]_vars PROVE SubscriptionsInv'
<1>1. LedgerInv'
  BY SubscriptionsUseLedger, LedgerInvStep DEF SubscriptionsInv
<1>2. QED
  BY <1>1, SubTypeStep, AccountStep, BoundStep DEF SubscriptionsInv, TypeOK, LedgerInv

\* The inductive invariant of Subscriptions.
THEOREM SubscriptionsInvariant == Spec => []SubscriptionsInv
  BY SubscriptionsInit, SubscriptionsStep, PTL DEF Spec

\* Types of the subscriptions and of the deliveries' locals.
THEOREM SubscriptionTypesCorrect == Spec => []TypeOK
  BY SubscriptionsInvariant, PTL DEF SubscriptionsInv

\* No dunning attempt is lost or counted twice by interleaved passes and webhooks.
THEOREM DunningAttemptsAreAccounted == Spec => []AttemptsAccounted
  BY SubscriptionsInvariant, PTL DEF SubscriptionsInv

\* n overlapping passes retry a subscription at most MaxDunning - 2 + n times.
THEOREM DunningIsBounded == Spec => []DunningBounded
  BY SubscriptionsInvariant, PTL DEF SubscriptionsInv

-----------------------------------------------------------------------------
(* What a step may never do. *)

\* A settled row changes no more: a delivery past the create is the only one of
\* its event and found the row stored.
LEMMA LedgerFinalStep ==
  ASSUME LedgerInv, [LedgerNext]_ledgerVars,
         NEW e \in Event, ledger[e] \in {"processed", "failed"}
  PROVE  ledger'[e] = ledger[e] /\ effects'[e] = effects[e]
<1> DEFINE Goal == ledger'[e] = ledger[e] /\ effects'[e] = effects[e]
<1>a. LedgerTypeOK /\ OneProcessor /\ DeliveriesInv
  BY DEF LedgerInv
<1>1. ASSUME NEW d \in Delivery, hpc[d] \in {Apply, Mark, RecordError}
      PROVE  evt[d] # e
  BY <1>a, <1>1 DEF OneProcessor
<1>2. ASSUME NEW d \in Delivery, StoreEvent(d)
      PROVE  Goal
  <2>1. evt[d] # e
    BY <1>2 DEF StoreEvent, Storable
  <2>2. QED
    BY <1>a, <1>2, <2>1 DEF StoreEvent, LedgerTypeOK
<1>3. ASSUME NEW d \in Delivery, ApplyEffect(d)
      PROVE  Goal
  BY <1>a, <1>1, <1>3 DEF ApplyEffect, LedgerTypeOK
<1>4. ASSUME NEW d \in Delivery, MarkProcessed(d) \/ RecordTheError(d)
      PROVE  Goal
  BY <1>a, <1>1, <1>4 DEF MarkProcessed, RecordTheError, LedgerTypeOK
<1>5. ASSUME NEW d \in Delivery,
             \/ RefuseDuplicate(d) \/ StoreFails(d) \/ CallFails(d) \/ Crash(d)
             \/ \E x \in Event : Deliver(d, x)
      PROVE  Goal
  BY <1>5 DEF RefuseDuplicate, StoreFails, CallFails, Crash, Deliver
<1>6. ASSUME UNCHANGED ledgerVars
      PROVE  Goal
  BY <1>6 DEF ledgerVars
<1> HIDE DEF Goal
<1>7. Goal
  BY <1>2, <1>3, <1>4, <1>5, <1>6 DEF LedgerNext, LedgerStep
<1>8. QED
  BY <1>7 DEF Goal

\* The endpoint never takes up an event again that it has settled.
THEOREM SettledEventsAreFinal == LedgerSpec => LedgerIsFinal
<1>1. LedgerInv /\ [LedgerNext]_ledgerVars =>
        [\A e \in Event : ledger[e] \in {"processed", "failed"} =>
           ledger'[e] = ledger[e] /\ effects'[e] = effects[e]]_ledgerVars
  BY LedgerFinalStep
<1>2. QED
  BY <1>1, LedgerInvariant, PTL DEF LedgerSpec, LedgerIsFinal

\* Neither does the whole of the subscriptions.
THEOREM SubscriptionEventsAreFinal == Spec => LedgerIsFinal
  BY SubscriptionsImplementLedger, SettledEventsAreFinal, PTL

\* What is not due now is claimed by no further pass, and each claim is good for
\* one retry.
LEMMA WindDownStep ==
  ASSUME SubscriptionsInv, [Next]_vars, NEW s \in Subscription,
         subStatus[s] # "PAST_DUE" \/ dunningAttempts[s] >= MaxDunning
  PROVE  /\ Claims(s)' \subseteq Claims(s)
         /\ retries'[s] + Cardinality(Claims(s)')
              <= retries[s] + Cardinality(Claims(s))
<1> DEFINE Goal == /\ Claims(s)' \subseteq Claims(s)
                   /\ retries'[s] + Cardinality(Claims(s)')
                        <= retries[s] + Cardinality(Claims(s))
<1>a. SubTypeOK
  BY DEF SubscriptionsInv, TypeOK
<1>b. retries[s] \in Nat /\ Cardinality(Claims(s)) \in Nat
  BY <1>a, ClaimsFinite DEF SubTypeOK
<1>c. ASSUME Claims(s)' \subseteq Claims(s), retries'[s] = retries[s]
      PROVE  Goal
  <2>1. Cardinality(Claims(s)') \in Nat /\ Cardinality(Claims(s)') <= Cardinality(Claims(s))
    BY <1>c, ClaimsFinite, FS_Subset, FS_CardinalityType
  <2>2. QED
    BY <1>b, <1>c, <2>1
<1> HIDE DEF Goal
<1>1. ASSUME NEW p \in Pass, StartPass(p)
      PROVE  Goal
  <2>1. s \notin Due
    BY <1>a, MaxDunningAssumption DEF Due, SubTypeOK
  <2>2. Claims(s)' \subseteq Claims(s) /\ retries'[s] = retries[s]
    BY <1>a, <1>1, <2>1 DEF StartPass, Claims, SubTypeOK
  <2>3. QED
    BY <1>c, <2>2
<1>2. ASSUME NEW p \in Pass, RetrySubscription(p)
      PROVE  Goal
  <2>1. PICK x \in due[p] :
          /\ retries' = [retries EXCEPT ![x] = @ + 1]
          /\ due' = [due EXCEPT ![p] = @ \ {x}]
    BY <1>2 DEF RetrySubscription
  <2>2. CASE x # s
    <3>1. Claims(s)' \subseteq Claims(s) /\ retries'[s] = retries[s]
      BY <1>a, <2>1, <2>2 DEF Claims, SubTypeOK
    <3>2. QED
      BY <1>c, <3>1
  <2>3. CASE x = s
    <3>1. Claims(s)' = Claims(s) \ {p} /\ p \in Claims(s)
      BY <1>a, <2>1, <2>3 DEF Claims, SubTypeOK
    <3>2. Cardinality(Claims(s)') = Cardinality(Claims(s)) - 1
      BY <3>1, ClaimsFinite, FS_RemoveElement
    <3>3. retries'[s] = retries[s] + 1
      BY <1>a, <2>1, <2>3 DEF SubTypeOK
    <3>4. QED
      BY <1>b, <3>1, <3>2, <3>3 DEF Goal
  <2>4. QED
    BY <2>2, <2>3
<1>3. ASSUME NEW p \in Pass, PassDies(p)
      PROVE  Goal
  <2>1. Claims(s)' \subseteq Claims(s) /\ retries'[s] = retries[s]
    BY <1>a, <1>3 DEF PassDies, Claims, SubTypeOK
  <2>2. QED
    BY <1>c, <2>1
<1>4. ASSUME UNCHANGED <<retries, due>>
      PROVE  Goal
  BY <1>c, <1>4 DEF Claims
<1>5. ASSUME \/ \E p \in Pass : NotifyOrg(p)
             \/ \E d \in Delivery : DeliveryStep(d)
             \/ CustomerStep
             \/ UNCHANGED vars
      PROVE  UNCHANGED <<retries, due>>
  BY <1>5 DEF NotifyOrg, DeliveryStep, SubscriptionEffect, CustomerStep, LoadPage, Cancel,
              Subscribe, CancelSubscription, vars, subVars, passVars
<1>6. Goal
  BY <1>1, <1>2, <1>3, <1>4, <1>5 DEF Next, PassStep
<1>7. QED
  BY <1>6 DEF Goal

\* A cancelled, renewed or exhausted subscription is listed no more, and retried at
\* most once by each pass that had it listed.
THEOREM CancelledDunningEnds == Spec => DunningWindsDown
<1>1. SubscriptionsInv /\ [Next]_vars =>
        [\A s \in Subscription :
           subStatus[s] # "PAST_DUE" \/ dunningAttempts[s] >= MaxDunning =>
             /\ Claims(s)' \subseteq Claims(s)
             /\ retries'[s] + Cardinality(Claims(s)')
                  <= retries[s] + Cardinality(Claims(s))]_vars
  BY WindDownStep
<1>2. QED
  BY <1>1, SubscriptionsInvariant, PTL DEF Spec, DunningWindsDown
=============================================================================
