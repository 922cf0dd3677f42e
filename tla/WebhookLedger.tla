----------------------------- MODULE WebhookLedger -----------------------------
(***************************************************************************)
(* The Stripe webhook endpoint of backend-core (modules/webhooks,          *)
(* processStripe).  An event is first stored in the WebhookEvent table,    *)
(* whose externalId is unique; only the delivery that stored it goes on to *)
(* change the billing tables, and then marks it processed.  Every awaited  *)
(* call is a step of its own, deliveries of the same or of different       *)
(* events run concurrently in several replicas, any call may be rejected   *)
(* by the database and any handler may die with its process.               *)
(*                                                                         *)
(* Stripe delivers an event again until it is answered with a 200, and may *)
(* deliver it again even then.  The effect itself is one updateMany, added *)
(* by the modules that extend this one.                                    *)
(***************************************************************************)
EXTENDS Naturals

CONSTANTS
  Event,     \* the events Stripe sends, by external id
  Delivery,  \* delivery slots: bounds how many deliveries are in flight
  NoEvent    \* the slot is free

ASSUME NoEventAssumption == NoEvent \notin Event

VARIABLES
  ledger,    \* ledger[e]: the WebhookEvent row: "absent", "stored",
             \* "processed" (processedAt set) or "failed" (error set)
  hpc,       \* hpc[d]: the next awaited call of the handler of delivery d
  evt,       \* evt[d]: the event being delivered
  effects,   \* history: how often the effect of e was applied
  acked,     \* history: the events answered with a 200
  mishap     \* history: the events a handler of which met a failure

ledgerVars == <<ledger, hpc, evt, effects, acked, mishap>>

Free        == "free"         \* no delivery in this slot
Store       == "store"        \* before webhookEvent.create
Apply       == "apply"        \* before the updateMany of the switch
Mark        == "mark"         \* before webhookEvent.update { processedAt }
RecordError == "recordError"  \* before webhookEvent.update { error }

HPC == {Free, Store, Apply, Mark, RecordError}

-----------------------------------------------------------------------------

\* The handler goes on to its next call.
Continue(d, call) ==
  /\ hpc' = [hpc EXCEPT ![d] = call]
  /\ UNCHANGED <<evt, acked>>

\* The handler answers, or is gone.
Leave(d) ==
  /\ hpc' = [hpc EXCEPT ![d] = Free]
  /\ evt' = [evt EXCEPT ![d] = NoEvent]

Answer200(d) == Leave(d) /\ acked' = acked \cup {evt[d]}
NoAnswer(d)  == Leave(d) /\ UNCHANGED acked

Mishap(d) == mishap' = mishap \cup {evt[d]}

\* Stripe delivers e, for the first time or again; the signature is valid.
Deliver(d, e) ==
  /\ hpc[d] = Free
  /\ hpc' = [hpc EXCEPT ![d] = Store]
  /\ evt' = [evt EXCEPT ![d] = e]
  /\ UNCHANGED <<ledger, effects, acked, mishap>>

\* Faulty: an event that is stored but not processed yet is taken up again.
StorableUnlessProcessed(e) == ledger[e] # "processed"

\* The unique externalId.
Storable(e) == ledger[e] = "absent"

\* Faulty: the event is answered as soon as it is stored, and then dropped.
StoreEventAndAnswer(d) ==
  /\ hpc[d] = Store
  /\ Storable(evt[d])
  /\ ledger' = [ledger EXCEPT ![evt[d]] = "stored"]
  /\ Answer200(d)
  /\ UNCHANGED <<effects, mishap>>

\* webhookEvent.create succeeds.
StoreEvent(d) ==
  /\ hpc[d] = Store
  /\ Storable(evt[d])
  /\ ledger' = [ledger EXCEPT ![evt[d]] = "stored"]
  /\ Continue(d, Apply)
  /\ UNCHANGED <<effects, mishap>>

\* The unique externalId refuses the row: answered as a duplicate.
RefuseDuplicate(d) ==
  /\ hpc[d] = Store
  /\ ~Storable(evt[d])
  /\ Answer200(d)
  /\ UNCHANGED <<ledger, effects, mishap>>

\* create is rejected for another reason; .catch(() => null) makes it look like
\* a duplicate all the same.
StoreFails(d) ==
  /\ hpc[d] = Store
  /\ Answer200(d)
  /\ Mishap(d)
  /\ UNCHANGED <<ledger, effects>>

\* The switch: the updateMany that the event's type calls for.
ApplyEffect(d) ==
  /\ hpc[d] = Apply
  /\ effects' = [effects EXCEPT ![evt[d]] = @ + 1]
  /\ Continue(d, Mark)
  /\ UNCHANGED <<ledger, mishap>>

MarkProcessed(d) ==
  /\ hpc[d] = Mark
  /\ ledger' = [ledger EXCEPT ![evt[d]] = "processed"]
  /\ Answer200(d)
  /\ UNCHANGED <<effects, mishap>>

\* A call inside the try block is rejected: the catch block takes over.
CallFails(d) ==
  /\ hpc[d] \in {Apply, Mark}
  /\ Mishap(d)
  /\ Continue(d, RecordError)
  /\ UNCHANGED <<ledger, effects>>

\* The catch block records the error and rethrows: a 500 is answered.
RecordTheError(d) ==
  /\ hpc[d] = RecordError
  /\ ledger' = [ledger EXCEPT ![evt[d]] = "failed"]
  /\ NoAnswer(d)
  /\ UNCHANGED <<effects, mishap>>

\* The process dies, or the update in the catch block is rejected too.
Crash(d) ==
  /\ hpc[d] # Free
  /\ NoAnswer(d)
  /\ Mishap(d)
  /\ UNCHANGED <<ledger, effects>>

-----------------------------------------------------------------------------

LedgerInit ==
  /\ ledger  = [e \in Event |-> "absent"]
  /\ hpc     = [d \in Delivery |-> Free]
  /\ evt     = [d \in Delivery |-> NoEvent]
  /\ effects = [e \in Event |-> 0]
  /\ acked   = {}
  /\ mishap  = {}

\* The steps of a handler that leave the billing tables alone.
LedgerStep(d) ==
  \/ StoreEvent(d)
  \/ RefuseDuplicate(d)
  \/ StoreFails(d)
  \/ MarkProcessed(d)
  \/ CallFails(d)
  \/ RecordTheError(d)
  \/ Crash(d)

LedgerNext ==
  \E d \in Delivery :
    LedgerStep(d) \/ ApplyEffect(d) \/ \E e \in Event : Deliver(d, e)

LedgerSpec == LedgerInit /\ [][LedgerNext]_ledgerVars

-----------------------------------------------------------------------------
(* Properties *)

LedgerTypeOK ==
  /\ ledger  \in [Event -> {"absent", "stored", "processed", "failed"}]
  /\ hpc     \in [Delivery -> HPC]
  /\ evt     \in [Delivery -> Event \cup {NoEvent}]
  /\ effects \in [Event -> Nat]
  /\ acked   \in SUBSET Event
  /\ mishap  \in SUBSET Event

\* "idempotent via external event id" (API.md): the effect of an event happens at
\* most once, under concurrent duplicates, failures and crashes.
Once == INSTANCE AtMostOnce

EffectAtMostOnce == Once!Spec

InFlight(e) == \E d \in Delivery : evt[d] = e

\* Duplicates and concurrency alone lose nothing: an event that was answered with
\* a 200, met no failure and has no delivery in flight took effect and is marked.
LossOnlyByFailure ==
  \A e \in acked \ mishap : ~InFlight(e) =>
    effects[e] = 1 /\ ledger[e] = "processed"

\* A row says processed only when the effect is in the tables.
ProcessedMeansApplied ==
  \A e \in Event : ledger[e] = "processed" => effects[e] = 1

\* An event is settled for good: once its row is processed or failed, no delivery of
\* it, redelivered, overtaken or at work since before, changes the row or the
\* billing tables.  For a failed event this is also what loses it: Stripe's next
\* delivery is refused as a duplicate.
LedgerIsFinal ==
  [][\A e \in Event : ledger[e] \in {"processed", "failed"} =>
       ledger'[e] = ledger[e] /\ effects'[e] = effects[e]]_ledgerVars

\* webhooks.service.ts answers { duplicate: true } for what "idempotent" delivery
\* already did: an event answered with a 200 took effect, unless a delivery of it
\* is still at work.
AckedEventIsApplied ==
  \A e \in acked : ~InFlight(e) => effects[e] = 1

-----------------------------------------------------------------------------
(* What makes EffectAtMostOnce and LossOnlyByFailure inductive. *)

\* A delivery past the create is the only one past it for its event, and nothing
\* is past the create of an event that is not stored.
OneProcessor ==
  \A d \in Delivery : hpc[d] \in {Apply, Mark, RecordError} =>
    /\ ledger[evt[d]] = "stored"
    /\ \A d2 \in Delivery :
         hpc[d2] \in {Apply, Mark, RecordError} /\ evt[d2] = evt[d] => d2 = d

DeliveriesInv ==
  \A d \in Delivery :
    /\ hpc[d] # Free => evt[d] \in Event
    /\ hpc[d] = Apply => effects[evt[d]] = 0
    /\ hpc[d] = Mark => effects[evt[d]] = 1
    /\ hpc[d] = RecordError => evt[d] \in mishap

EventsInv ==
  \A e \in Event :
    /\ effects[e] \in {0, 1}
    /\ ledger[e] = "absent" => effects[e] = 0 /\ (e \in acked => e \in mishap)
    /\ ledger[e] = "processed" => effects[e] = 1
    /\ ledger[e] = "failed" => e \in mishap
    /\ ledger[e] = "stored" =>
         \/ e \in mishap
         \/ \E d \in Delivery : hpc[d] \in {Apply, Mark} /\ evt[d] = e

LedgerInv ==
  /\ LedgerTypeOK
  /\ OneProcessor
  /\ DeliveriesInv
  /\ EventsInv
=============================================================================
