------------------------------- MODULE Invoices -------------------------------
(***************************************************************************)
(* Invoices, their payments and refunds (modules/billing).  Paying and     *)
(* refunding both read the invoice, decide on what they read, and write in *)
(* later awaited calls without a transaction or a condition on the row;    *)
(* the handlers of concurrent requests interleave between those calls and  *)
(* any of them may be rejected or die.                                     *)
(*                                                                         *)
(* All invoices have the same total (amount plus tax), in whole units.     *)
(* The two Stripe events that mark invoices paid select them by columns    *)
(* that no code writes, so they change nothing here.                       *)
(***************************************************************************)
EXTENDS Integers

CONSTANTS
  Invoice,     \* the invoices that can be created
  Request,     \* request slots: bounds how many handlers are in flight
  NoInvoice,   \* the slot is free
  Total,       \* amount + taxAmount of an invoice
  Lowest,      \* bound: no refund of less than -Lowest is asked for
  MaxPayments  \* bound: no payment is begun for an invoice with this many

ASSUME NoInvoiceAssumption   == NoInvoice \notin Invoice
ASSUME TotalAssumption       == Total \in Nat \ {0}
ASSUME LowestAssumption      == Lowest \in Nat
ASSUME MaxPaymentsAssumption == MaxPayments \in Nat

VARIABLES
  status,          \* status[i]: "none" (no row yet) or the row's status
  refundedAmount,  \* refundedAmount[i]: the row's column
  payments,        \* payments[i]: the Payment rows of i
  pc,              \* pc[r]: the next awaited call of the handler serving r
  inv,             \* inv[r]: the invoice it works on
  amount,          \* amount[r]: what the refund in r gives back
  newRefunded,     \* newRefunded[r]: the refund's computed refundedAmount
  refunds,         \* history: how many refunds of i were written
  returned,        \* history: the sum of the refunds of i
  doublePay,       \* history: invoices of which two payments overlapped
  doubleRefund,    \* history: invoices of which two refunds overlapped
  brokenPay        \* history: invoices a payment of which died half way

rows    == <<status, refundedAmount, payments>>
handler == <<pc, inv, amount, newRefunded>>
history == <<refunds, returned, doublePay, doubleRefund, brokenPay>>
vars    == <<rows, handler, history>>

Idle          == "idle"           \* the slot serves no request
CreatePayment == "createPayment"  \* payInvoice, before payment.create
MarkPaid      == "markPaid"       \* payInvoice, before invoice.update
WriteRefund   == "writeRefund"    \* refund, before invoice.update

PC == {Idle, CreatePayment, MarkPaid, WriteRefund}

-----------------------------------------------------------------------------

\* A handler of invoice i that is at one of the calls.
Busy(i, calls) == \E r \in Request : inv[r] = i /\ pc[r] \in calls

\* The handler returns, throws or dies: its locals are gone.
Release(r) ==
  /\ pc'  = [pc EXCEPT ![r] = Idle]
  /\ inv' = [inv EXCEPT ![r] = NoInvoice]
  /\ amount' = [amount EXCEPT ![r] = 0]
  /\ newRefunded' = [newRefunded EXCEPT ![r] = 0]

\* BillingService.createInvoice.
CreateInvoice(i) ==
  /\ status[i] = "none"
  /\ status' = [status EXCEPT ![i] = "SENT"]
  /\ UNCHANGED <<refundedAmount, payments, handler, history>>

\* Faulty: a paid invoice is not refused.
PayableAlways(i) == status[i] # "none"

Payable(i) == status[i] \notin {"none", "PAID"}

\* payInvoice reads the invoice; only PAID is refused.
BeginPay(r, i) ==
  /\ pc[r] = Idle
  /\ Payable(i)
  /\ payments[i] < MaxPayments
  /\ pc'  = [pc EXCEPT ![r] = CreatePayment]
  /\ inv' = [inv EXCEPT ![r] = i]
  /\ doublePay' = IF Busy(i, {CreatePayment, MarkPaid}) THEN doublePay \cup {i}
                                                        ELSE doublePay
  /\ UNCHANGED <<rows, amount, newRefunded, refunds, returned, doubleRefund, brokenPay>>

RecordPayment(r) ==
  /\ pc[r] = CreatePayment
  /\ payments' = [payments EXCEPT ![inv[r]] = @ + 1]
  /\ pc' = [pc EXCEPT ![r] = MarkPaid]
  /\ UNCHANGED <<status, refundedAmount, inv, amount, newRefunded, history>>

\* Faulty: a paid invoice starts afresh.
SetPaidAfresh(r) ==
  /\ pc[r] = MarkPaid
  /\ status' = [status EXCEPT ![inv[r]] = "PAID"]
  /\ refundedAmount' = [refundedAmount EXCEPT ![inv[r]] = 0]
  /\ Release(r)
  /\ UNCHANGED <<payments, history>>

\* The update by id, whatever the status is by now.
SetPaid(r) ==
  /\ pc[r] = MarkPaid
  /\ status' = [status EXCEPT ![inv[r]] = "PAID"]
  /\ Release(r)
  /\ UNCHANGED <<refundedAmount, payments, history>>

\* Faulty: the amount replaces what was refunded before.
RefundedReplacing(i, a) == a

\* The refundedAmount that a refund of a computes from the row it read, and its check.
RefundedAfter(i, a) == refundedAmount[i] + a
Fits(i, a)          == refundedAmount[i] + a <= Total

\* refund reads the invoice, checks the amount a against it and computes the new
\* refundedAmount from what it read.
BeginRefund(r, i, a) ==
  /\ pc[r] = Idle
  /\ status[i] = "PAID"
  /\ Fits(i, a)
  /\ pc'  = [pc EXCEPT ![r] = WriteRefund]
  /\ inv' = [inv EXCEPT ![r] = i]
  /\ amount' = [amount EXCEPT ![r] = a]
  /\ newRefunded' = [newRefunded EXCEPT ![r] = RefundedAfter(i, a)]
  /\ doubleRefund' = IF Busy(i, {WriteRefund}) THEN doubleRefund \cup {i}
                                               ELSE doubleRefund
  /\ UNCHANGED <<rows, refunds, returned, doublePay, brokenPay>>

\* The page refunds in full, on a button that stays on while the call is pending.
FullRefund(r, i) == BeginRefund(r, i, Total)

\* An admin who calls the route names any amount: only the upper limit is checked, so
\* that zero and negative amounts pass.
PartialRefund(r, i) == \E a \in (-Lowest)..(Total - 1) : BeginRefund(r, i, a)

\* Faulty: a refund of exactly the total counts as partial.
RefundStatusOffByOne(n) == IF n > Total THEN "REFUNDED" ELSE "PARTIALLY_REFUNDED"

RefundStatus(n) == IF n >= Total THEN "REFUNDED" ELSE "PARTIALLY_REFUNDED"

\* One update writes both columns.
RecordRefund(r) ==
  LET i == inv[r] IN
  /\ pc[r] = WriteRefund
  /\ refundedAmount' = [refundedAmount EXCEPT ![i] = newRefunded[r]]
  /\ status' = [status EXCEPT ![i] = RefundStatus(newRefunded[r])]
  /\ refunds'  = [refunds  EXCEPT ![i] = @ + 1]
  /\ returned' = [returned EXCEPT ![i] = @ + amount[r]]
  /\ Release(r)
  /\ UNCHANGED <<payments, doublePay, doubleRefund, brokenPay>>

\* The next call is rejected or the process dies before it: nothing is undone.
Fail(r) ==
  /\ pc[r] # Idle
  /\ brokenPay' = IF pc[r] = MarkPaid THEN brokenPay \cup {inv[r]} ELSE brokenPay
  /\ Release(r)
  /\ UNCHANGED <<rows, refunds, returned, doublePay, doubleRefund>>

-----------------------------------------------------------------------------

Init ==
  /\ status         = [i \in Invoice |-> "none"]
  /\ refundedAmount = [i \in Invoice |-> 0]
  /\ payments       = [i \in Invoice |-> 0]
  /\ pc             = [r \in Request |-> Idle]
  /\ inv            = [r \in Request |-> NoInvoice]
  /\ amount         = [r \in Request |-> 0]
  /\ newRefunded    = [r \in Request |-> 0]
  /\ refunds        = [i \in Invoice |-> 0]
  /\ returned       = [i \in Invoice |-> 0]
  /\ doublePay      = {}
  /\ doubleRefund   = {}
  /\ brokenPay      = {}

Next ==
  \/ \E i \in Invoice : CreateInvoice(i)
  \/ \E r \in Request, i \in Invoice :
       BeginPay(r, i) \/ FullRefund(r, i) \/ PartialRefund(r, i)
  \/ \E r \in Request :
       RecordPayment(r) \/ SetPaid(r) \/ RecordRefund(r) \/ Fail(r)

Spec == Init /\ [][Next]_vars

-----------------------------------------------------------------------------
(* Properties *)

TypeOK ==
  /\ status \in [Invoice -> {"none", "SENT", "PAID", "PARTIALLY_REFUNDED", "REFUNDED"}]
  /\ refundedAmount \in [Invoice -> Int]
  /\ \A i \in Invoice : refundedAmount[i] <= Total
  /\ payments       \in [Invoice -> Nat]
  /\ pc             \in [Request -> PC]
  /\ inv            \in [Request -> Invoice \cup {NoInvoice}]
  /\ amount         \in [Request -> Int]
  /\ newRefunded    \in [Request -> Int]
  /\ \A r \in Request : newRefunded[r] <= Total
  /\ refunds        \in [Invoice -> Nat]
  /\ returned       \in [Invoice -> Int]
  /\ doublePay    \subseteq Invoice
  /\ doubleRefund \subseteq Invoice
  /\ brokenPay    \subseteq Invoice

\* An invoice that says it was paid has a payment, even when payInvoice dies
\* between its two writes, and refundedAmount agrees with the status as far as
\* the status speaks of refunds.
StatusIsBacked ==
  \A i \in Invoice :
    /\ status[i] \in {"PAID", "PARTIALLY_REFUNDED", "REFUNDED"} => payments[i] > 0
    /\ status[i] = "REFUNDED" => refundedAmount[i] = Total
    /\ status[i] = "PARTIALLY_REFUNDED" => refundedAmount[i] < Total

\* The customer is charged once, and once more for every refund that reopened the
\* invoice; only overlapping payments, or one that died after charging, charge
\* more often.
ExtraChargeNeedsARace ==
  \A i \in Invoice :
    payments[i] > refunds[i] + 1 => i \in doublePay \cup brokenPay

\* refundedAmount is the money given back, whatever amounts were asked for, unless two
\* refunds of the invoice overlapped; only then is more than the total given back, over
\* all the payments and refunds of the invoice.
RefundLostOnlyByRace ==
  \A i \in Invoice :
    /\ refundedAmount[i] # returned[i] => i \in doubleRefund
    /\ returned[i] > Total => i \in doubleRefund

\* What was given back is not forgotten: unless two refunds of it overlapped, every step
\* of every handler - a payment that was begun before the refund included - moves the
\* refundedAmount of an invoice by exactly what the step gives back, and none makes a
\* full refund a partial one.
RefundsStand ==
  [][\A i \in Invoice : i \notin doubleRefund =>
       /\ refundedAmount'[i] - refundedAmount[i] = returned'[i] - returned[i]
       /\ status[i] = "REFUNDED" => status'[i] \in {"REFUNDED", "PAID"}]_vars

\* billing.service.ts throws "Refund exceeds paid amount": the refunds of an
\* invoice sum up to at most its total.
RefundsWithinTotal == \A i \in Invoice : returned[i] <= Total

-----------------------------------------------------------------------------
(* What makes them inductive. *)

\* A handler in flight works on a stored invoice; payInvoice is past its charge,
\* and refund works on an invoice that was paid.
HandlersInv ==
  \A r \in Request :
    /\ pc[r] # Idle => inv[r] \in Invoice /\ status[inv[r]] # "none"
    /\ pc[r] \in {MarkPaid, WriteRefund} => payments[inv[r]] > 0

\* Overlaps are noticed.
OverlapsInv ==
  \A r1, r2 \in Request : r1 # r2 /\ inv[r1] = inv[r2] =>
    /\ pc[r1] \in {CreatePayment, MarkPaid} /\ pc[r2] \in {CreatePayment, MarkPaid}
         => inv[r1] \in doublePay
    /\ pc[r1] = WriteRefund /\ pc[r2] = WriteRefund => inv[r1] \in doubleRefund

\* Without an overlap, a refund in flight computed from the current columns ...
RefundsInv ==
  \A r \in Request : pc[r] = WriteRefund /\ inv[r] \notin doubleRefund =>
    /\ newRefunded[r] = refundedAmount[inv[r]] + amount[r]
    /\ status[inv[r]] = "PAID"

\* ... and a charge that is not marked yet is the only open one.
ChargesInv ==
  \A i \in Invoice : i \notin doublePay \cup brokenPay =>
    /\ payments[i] <= refunds[i] + 1
    /\ status[i] # "PAID" /\ ~Busy(i, {MarkPaid}) => payments[i] <= refunds[i]
    /\ Busy(i, {CreatePayment}) => payments[i] <= refunds[i]

InvoicesInv ==
  /\ TypeOK
  /\ HandlersInv
  /\ OverlapsInv
  /\ RefundsInv
  /\ ChargesInv
  /\ StatusIsBacked
  /\ RefundLostOnlyByRace
=============================================================================
