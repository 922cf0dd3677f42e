--------------------------- MODULE MCSubscriptions ---------------------------
(* A small instance of Subscriptions: one subscription whose payment fails  *)
(* and which Stripe renews, so that dunning starts, overlaps and stops.     *)
EXTENDS Subscriptions, TLC

CONSTANTS failed1, renewed1, sub1

MCEvent        == {failed1, renewed1}
MCSubscription == {sub1}
MCKind         == (failed1 :> "payment_failed") @@ (renewed1 :> "active")
MCSubject      == (failed1 :> sub1) @@ (renewed1 :> sub1)
=============================================================================
