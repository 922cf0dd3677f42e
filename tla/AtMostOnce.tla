------------------------------ MODULE AtMostOnce ------------------------------
(***************************************************************************)
(* What the webhook endpoint promises about the effect of an event on the  *)
(* billing tables: however often the event is delivered, its effect        *)
(* happens at most once.                                                   *)
(***************************************************************************)
EXTENDS Naturals

CONSTANT Event      \* the provider's events, by external id

VARIABLE effects    \* effects[e]: how often e changed the billing tables

Init == effects = [e \in Event |-> 0]

TakeEffect(e) ==
  /\ effects[e] = 0
  /\ effects' = [effects EXCEPT ![e] = 1]

Next == \E e \in Event : TakeEffect(e)

Spec == Init /\ [][Next]_effects
=============================================================================
