---------------------------- MODULE InvoicesProofs ----------------------------
(***************************************************************************)
(* Theorems about Invoices, for any invoices, any number of concurrent     *)
(* requests, any total and any bound on the payments.                      *)
(***************************************************************************)
EXTENDS Invoices, TLAPS

LEMMA InvoicesInit == Init => InvoicesInv
  BY NoInvoiceAssumption, TotalAssumption
     DEF Init, InvoicesInv, TypeOK, HandlersInv, OverlapsInv, RefundsInv, ChargesInv,
         StatusIsBacked, RefundLostOnlyByRace, Busy, PC, Idle, CreatePayment,
         MarkPaid, WriteRefund

\* Type correctness of one step.
LEMMA InvoicesTypeStep == ASSUME InvoicesInv, [Next]_vars PROVE TypeOK'
<1> USE NoInvoiceAssumption, TotalAssumption
        DEF TypeOK, HandlersInv, PC, Idle, CreatePayment, MarkPaid, WriteRefund,
            rows, handler, history, Release
<1>a. TypeOK /\ HandlersInv
  BY DEF InvoicesInv
<1>1. ASSUME NEW i \in Invoice, CreateInvoice(i) PROVE TypeOK'
  BY <1>a, <1>1 DEF CreateInvoice
<1>2. ASSUME NEW r \in Request, NEW i \in Invoice, BeginPay(r, i) PROVE TypeOK'
  BY <1>a, <1>2 DEF BeginPay, Payable
<1>3. ASSUME NEW r \in Request, NEW i \in Invoice, NEW a \in Int,
             BeginRefund(r, i, a)
      PROVE TypeOK'
  BY <1>a, <1>3 DEF BeginRefund, Fits, RefundedAfter
<1>4. ASSUME NEW r \in Request, RecordPayment(r) PROVE TypeOK'
  BY <1>a, <1>4 DEF RecordPayment
<1>5. ASSUME NEW r \in Request, SetPaid(r) PROVE TypeOK'
  BY <1>a, <1>5 DEF SetPaid
<1>6. ASSUME NEW r \in Request, RecordRefund(r) PROVE TypeOK'
  BY <1>a, <1>6 DEF RecordRefund, RefundStatus
<1>7. ASSUME NEW r \in Request, Fail(r) PROVE TypeOK'
  BY <1>a, <1>7 DEF Fail
<1>8. ASSUME UNCHANGED vars PROVE TypeOK'
  BY <1>a, <1>8 DEF vars
<1> HIDE DEF TypeOK
<1>9. QED
  BY <1>1, <1>2, <1>3, <1>4, <1>5, <1>6, <1>7, <1>8, TotalAssumption, LowestAssumption
     DEF Next, FullRefund, PartialRefund

\* Only a paid invoice is refunded, and it has a payment.
LEMMA HandlersInvStep == ASSUME InvoicesInv, [Next]_vars PROVE HandlersInv'
<1> USE NoInvoiceAssumption, TotalAssumption
        DEF TypeOK, PC, Idle, CreatePayment, MarkPaid, WriteRefund, rows, handler,
            history, Release, Busy, HandlersInv, StatusIsBacked
<1>a. TypeOK /\ HandlersInv /\ StatusIsBacked
  BY DEF InvoicesInv
<1>b. TypeOK'
  BY InvoicesTypeStep
<1>1. ASSUME NEW i \in Invoice, CreateInvoice(i) PROVE HandlersInv'
  BY <1>a, <1>b, <1>1 DEF CreateInvoice
<1>2. ASSUME NEW r \in Request, NEW i \in Invoice, BeginPay(r, i) PROVE HandlersInv'
  BY <1>a, <1>b, <1>2 DEF BeginPay, Payable
<1>3. ASSUME NEW r \in Request, NEW i \in Invoice, NEW a \in Int,
             BeginRefund(r, i, a)
      PROVE HandlersInv'
  BY <1>a, <1>b, <1>3 DEF BeginRefund, Fits, RefundedAfter
<1>4. ASSUME NEW r \in Request, RecordPayment(r) PROVE HandlersInv'
  BY <1>a, <1>b, <1>4 DEF RecordPayment
<1>5. ASSUME NEW r \in Request, SetPaid(r) PROVE HandlersInv'
  BY <1>a, <1>b, <1>5 DEF SetPaid
<1>6. ASSUME NEW r \in Request, RecordRefund(r) PROVE HandlersInv'
  BY <1>a, <1>b, <1>6 DEF RecordRefund, RefundStatus
<1>7. ASSUME NEW r \in Request, Fail(r) PROVE HandlersInv'
  BY <1>a, <1>b, <1>7 DEF Fail
<1>8. ASSUME UNCHANGED vars PROVE HandlersInv'
  BY <1>a, <1>b, <1>8 DEF vars
<1> HIDE DEF HandlersInv
<1>9. QED
  BY <1>1, <1>2, <1>3, <1>4, <1>5, <1>6, <1>7, <1>8, TotalAssumption, LowestAssumption
     DEF Next, FullRefund, PartialRefund

\* A second handler of an invoice finds the first one in flight.
LEMMA OverlapsInvStep == ASSUME InvoicesInv, [Next]_vars PROVE OverlapsInv'
<1> USE NoInvoiceAssumption, TotalAssumption
        DEF TypeOK, PC, Idle, CreatePayment, MarkPaid, WriteRefund, rows, handler,
            history, Release, Busy, OverlapsInv
<1>a. TypeOK /\ OverlapsInv
  BY DEF InvoicesInv
<1>b. TypeOK'
  BY InvoicesTypeStep
<1>1. ASSUME NEW i \in Invoice, CreateInvoice(i) PROVE OverlapsInv'
  BY <1>a, <1>b, <1>1 DEF CreateInvoice
<1>2. ASSUME NEW r \in Request, NEW i \in Invoice, BeginPay(r, i) PROVE OverlapsInv'
  BY <1>a, <1>b, <1>2 DEF BeginPay, Payable
<1>3. ASSUME NEW r \in Request, NEW i \in Invoice, NEW a \in Int,
             BeginRefund(r, i, a)
      PROVE OverlapsInv'
  BY <1>a, <1>b, <1>3 DEF BeginRefund, Fits, RefundedAfter
<1>4. ASSUME NEW r \in Request, RecordPayment(r) PROVE OverlapsInv'
  BY <1>a, <1>b, <1>4 DEF RecordPayment
<1>5. ASSUME NEW r \in Request, SetPaid(r) PROVE OverlapsInv'
  BY <1>a, <1>b, <1>5 DEF SetPaid
<1>6. ASSUME NEW r \in Request, RecordRefund(r) PROVE OverlapsInv'
  BY <1>a, <1>b, <1>6 DEF RecordRefund, RefundStatus
<1>7. ASSUME NEW r \in Request, Fail(r) PROVE OverlapsInv'
  BY <1>a, <1>b, <1>7 DEF Fail
<1>8. ASSUME UNCHANGED vars PROVE OverlapsInv'
  BY <1>a, <1>b, <1>8 DEF vars
<1> HIDE DEF OverlapsInv
<1>9. QED
  BY <1>1, <1>2, <1>3, <1>4, <1>5, <1>6, <1>7, <1>8, TotalAssumption, LowestAssumption
     DEF Next, FullRefund, PartialRefund

\* A refund in flight computed from a column that only refunds change.
LEMMA RefundsInvStep == ASSUME InvoicesInv, [Next]_vars PROVE RefundsInv'
<1> USE NoInvoiceAssumption, TotalAssumption
        DEF TypeOK, PC, Idle, CreatePayment, MarkPaid, WriteRefund, rows, handler,
            history, Release, Busy, RefundsInv, HandlersInv, OverlapsInv, RefundLostOnlyByRace
<1>a. TypeOK /\ RefundsInv /\ HandlersInv /\ OverlapsInv /\ RefundLostOnlyByRace
  BY DEF InvoicesInv
<1>b. TypeOK'
  BY InvoicesTypeStep
<1>1. ASSUME NEW i \in Invoice, CreateInvoice(i) PROVE RefundsInv'
  BY <1>a, <1>b, <1>1 DEF CreateInvoice
<1>2. ASSUME NEW r \in Request, NEW i \in Invoice, BeginPay(r, i) PROVE RefundsInv'
  BY <1>a, <1>b, <1>2 DEF BeginPay, Payable
<1>3. ASSUME NEW r \in Request, NEW i \in Invoice, NEW a \in Int,
             BeginRefund(r, i, a)
      PROVE RefundsInv'
  BY <1>a, <1>b, <1>3 DEF BeginRefund, Fits, RefundedAfter
<1>4. ASSUME NEW r \in Request, RecordPayment(r) PROVE RefundsInv'
  BY <1>a, <1>b, <1>4 DEF RecordPayment
<1>5. ASSUME NEW r \in Request, SetPaid(r) PROVE RefundsInv'
  BY <1>a, <1>b, <1>5 DEF SetPaid
<1>6. ASSUME NEW r \in Request, RecordRefund(r) PROVE RefundsInv'
  BY <1>a, <1>b, <1>6 DEF RecordRefund, RefundStatus
<1>7. ASSUME NEW r \in Request, Fail(r) PROVE RefundsInv'
  BY <1>a, <1>b, <1>7 DEF Fail
<1>8. ASSUME UNCHANGED vars PROVE RefundsInv'
  BY <1>a, <1>b, <1>8 DEF vars
<1> HIDE DEF RefundsInv
<1>9. QED
  BY <1>1, <1>2, <1>3, <1>4, <1>5, <1>6, <1>7, <1>8, TotalAssumption, LowestAssumption
     DEF Next, FullRefund, PartialRefund

\* A charge needs an invoice that is not PAID; a refund reopens it once.
LEMMA ChargesInvStep == ASSUME InvoicesInv, [Next]_vars PROVE ChargesInv'
<1> USE NoInvoiceAssumption, TotalAssumption
        DEF TypeOK, PC, Idle, CreatePayment, MarkPaid, WriteRefund, rows, handler,
            history, Release, Busy, ChargesInv, HandlersInv, OverlapsInv
<1>a. TypeOK /\ ChargesInv /\ HandlersInv /\ OverlapsInv
  BY DEF InvoicesInv
<1>b. TypeOK'
  BY InvoicesTypeStep
<1>1. ASSUME NEW i \in Invoice, CreateInvoice(i) PROVE ChargesInv'
  BY <1>a, <1>b, <1>1 DEF CreateInvoice
<1>2. ASSUME NEW r \in Request, NEW i \in Invoice, BeginPay(r, i) PROVE ChargesInv'
  BY <1>a, <1>b, <1>2 DEF BeginPay, Payable
<1>3. ASSUME NEW r \in Request, NEW i \in Invoice, NEW a \in Int,
             BeginRefund(r, i, a)
      PROVE ChargesInv'
  BY <1>a, <1>b, <1>3 DEF BeginRefund, Fits, RefundedAfter
<1>4. ASSUME NEW r \in Request, RecordPayment(r) PROVE ChargesInv'
  BY <1>a, <1>b, <1>4 DEF RecordPayment
<1>5. ASSUME NEW r \in Request, SetPaid(r) PROVE ChargesInv'
  BY <1>a, <1>b, <1>5 DEF SetPaid
<1>6. ASSUME NEW r \in Request, RecordRefund(r) PROVE ChargesInv'
  BY <1>a, <1>b, <1>6 DEF RecordRefund, RefundStatus
<1>7. ASSUME NEW r \in Request, Fail(r) PROVE ChargesInv'
  BY <1>a, <1>b, <1>7 DEF Fail
<1>8. ASSUME UNCHANGED vars PROVE ChargesInv'
  BY <1>a, <1>b, <1>8 DEF vars
<1> HIDE DEF ChargesInv
<1>9. QED
  BY <1>1, <1>2, <1>3, <1>4, <1>5, <1>6, <1>7, <1>8, TotalAssumption, LowestAssumption
     DEF Next, FullRefund, PartialRefund

\* The payment comes before the status, the two refund columns together.
LEMMA StatusIsBackedStep == ASSUME InvoicesInv, [Next]_vars PROVE StatusIsBacked'
<1> USE NoInvoiceAssumption, TotalAssumption
        DEF TypeOK, PC, Idle, CreatePayment, MarkPaid, WriteRefund, rows, handler,
            history, Release, Busy, StatusIsBacked, HandlersInv
<1>a. TypeOK /\ StatusIsBacked /\ HandlersInv
  BY DEF InvoicesInv
<1>b. TypeOK'
  BY InvoicesTypeStep
<1>1. ASSUME NEW i \in Invoice, CreateInvoice(i) PROVE StatusIsBacked'
  BY <1>a, <1>b, <1>1 DEF CreateInvoice
<1>2. ASSUME NEW r \in Request, NEW i \in Invoice, BeginPay(r, i) PROVE StatusIsBacked'
  BY <1>a, <1>b, <1>2 DEF BeginPay, Payable
<1>3. ASSUME NEW r \in Request, NEW i \in Invoice, NEW a \in Int,
             BeginRefund(r, i, a)
      PROVE StatusIsBacked'
  BY <1>a, <1>b, <1>3 DEF BeginRefund, Fits, RefundedAfter
<1>4. ASSUME NEW r \in Request, RecordPayment(r) PROVE StatusIsBacked'
  BY <1>a, <1>b, <1>4 DEF RecordPayment
<1>5. ASSUME NEW r \in Request, SetPaid(r) PROVE StatusIsBacked'
  BY <1>a, <1>b, <1>5 DEF SetPaid
<1>6. ASSUME NEW r \in Request, RecordRefund(r) PROVE StatusIsBacked'
  BY <1>a, <1>b, <1>6 DEF RecordRefund, RefundStatus
<1>7. ASSUME NEW r \in Request, Fail(r) PROVE StatusIsBacked'
  BY <1>a, <1>b, <1>7 DEF Fail
<1>8. ASSUME UNCHANGED vars PROVE StatusIsBacked'
  BY <1>a, <1>b, <1>8 DEF vars
<1> HIDE DEF StatusIsBacked
<1>9. QED
  BY <1>1, <1>2, <1>3, <1>4, <1>5, <1>6, <1>7, <1>8, TotalAssumption, LowestAssumption
     DEF Next, FullRefund, PartialRefund

\* A refund whose snapshot is current adds exactly its amount.
LEMMA RefundLostOnlyByRaceStep == ASSUME InvoicesInv, [Next]_vars PROVE RefundLostOnlyByRace'
<1> USE NoInvoiceAssumption, TotalAssumption
        DEF TypeOK, PC, Idle, CreatePayment, MarkPaid, WriteRefund, rows, handler,
            history, Release, Busy, RefundLostOnlyByRace, RefundsInv, HandlersInv
<1>a. TypeOK /\ RefundLostOnlyByRace /\ RefundsInv /\ HandlersInv
  BY DEF InvoicesInv
<1>b. TypeOK'
  BY InvoicesTypeStep
<1>1. ASSUME NEW i \in Invoice, CreateInvoice(i) PROVE RefundLostOnlyByRace'
  BY <1>a, <1>b, <1>1 DEF CreateInvoice
<1>2. ASSUME NEW r \in Request, NEW i \in Invoice, BeginPay(r, i) PROVE RefundLostOnlyByRace'
  BY <1>a, <1>b, <1>2 DEF BeginPay, Payable
<1>3. ASSUME NEW r \in Request, NEW i \in Invoice, NEW a \in Int,
             BeginRefund(r, i, a)
      PROVE RefundLostOnlyByRace'
  BY <1>a, <1>b, <1>3 DEF BeginRefund, Fits, RefundedAfter
<1>4. ASSUME NEW r \in Request, RecordPayment(r) PROVE RefundLostOnlyByRace'
  BY <1>a, <1>b, <1>4 DEF RecordPayment
<1>5. ASSUME NEW r \in Request, SetPaid(r) PROVE RefundLostOnlyByRace'
  BY <1>a, <1>b, <1>5 DEF SetPaid
<1>6. ASSUME NEW r \in Request, RecordRefund(r) PROVE RefundLostOnlyByRace'
  BY <1>a, <1>b, <1>6 DEF RecordRefund, RefundStatus
<1>7. ASSUME NEW r \in Request, Fail(r) PROVE RefundLostOnlyByRace'
  BY <1>a, <1>b, <1>7 DEF Fail
<1>8. ASSUME UNCHANGED vars PROVE RefundLostOnlyByRace'
  BY <1>a, <1>b, <1>8 DEF vars
<1> HIDE DEF RefundLostOnlyByRace
<1>9. QED
  BY <1>1, <1>2, <1>3, <1>4, <1>5, <1>6, <1>7, <1>8, TotalAssumption, LowestAssumption
     DEF Next, FullRefund, PartialRefund

\* Together.
LEMMA InvoicesStep == ASSUME InvoicesInv, [Next]_vars PROVE InvoicesInv'
  BY InvoicesTypeStep, HandlersInvStep, OverlapsInvStep, RefundsInvStep, ChargesInvStep,
     StatusIsBackedStep, RefundLostOnlyByRaceStep
     DEF InvoicesInv

\* The inductive invariant of Invoices.
THEOREM InvoicesInvariant == Spec => []InvoicesInv
  BY InvoicesInit, InvoicesStep, PTL DEF Spec

\* The rows and the handlers' locals keep their types; no refund, of whatever amount and
\* however it interleaves, makes refundedAmount exceed the total.
THEOREM InvoiceTypesCorrect == Spec => []TypeOK
  BY InvoicesInvariant, PTL DEF InvoicesInv

\* No interleaving or failure leaves a paid invoice without a payment.
THEOREM PaidInvoicesAreBacked == Spec => []StatusIsBacked
  BY InvoicesInvariant, PTL DEF InvoicesInv

\* A refund is lost from the invoice only if two refunds overlapped.
THEOREM RefundsAreLostOnlyByRaces == Spec => []RefundLostOnlyByRace
  BY InvoicesInvariant, PTL DEF InvoicesInv

\* "Refund exceeds paid amount" is kept by every behaviour in which no two refunds of
\* one invoice overlap, over all its payments and refunds.
THEOREM RefundsFitWithoutOverlap == Spec => [](doubleRefund = {} => RefundsWithinTotal)
<1>1. InvoicesInv => (doubleRefund = {} => RefundsWithinTotal)
  <2>1. ASSUME InvoicesInv, doubleRefund = {}, NEW i \in Invoice PROVE returned[i] <= Total
    <3>1. returned[i] \in Int /\ ~(returned[i] > Total)
      BY <2>1 DEF InvoicesInv, TypeOK, RefundLostOnlyByRace
    <3>2. QED
      BY <3>1, TotalAssumption
  <2>2. QED
    BY <2>1 DEF RefundsWithinTotal
<1>2. QED
  BY <1>1, InvoicesInvariant, PTL

LEMMA ChargesBounded == InvoicesInv => ExtraChargeNeedsARace
  BY DEF InvoicesInv, TypeOK, ChargesInv, ExtraChargeNeedsARace

\* A customer is charged again without a refund only if two payments overlapped
\* or one died between its charge and the invoice's update.
THEOREM ExtraChargesNeedARace == Spec => []ExtraChargeNeedsARace
  BY InvoicesInvariant, ChargesBounded, PTL

\* A refund computed from the current row adds to it.
LEMMA RefundsStandStep ==
  ASSUME InvoicesInv, [Next]_vars, NEW i \in Invoice, i \notin doubleRefund
  PROVE  /\ refundedAmount'[i] - refundedAmount[i] = returned'[i] - returned[i]
         /\ status[i] = "REFUNDED" => status'[i] \in {"REFUNDED", "PAID"}
<1> DEFINE Goal == /\ refundedAmount'[i] - refundedAmount[i] = returned'[i] - returned[i]
                   /\ status[i] = "REFUNDED" => status'[i] \in {"REFUNDED", "PAID"}
<1>a. TypeOK /\ RefundsInv
  BY DEF InvoicesInv
<1>b. refundedAmount[i] \in Int /\ returned[i] \in Int
  BY <1>a DEF TypeOK
<1>1. ASSUME NEW r \in Request, RecordRefund(r)
      PROVE  Goal
  <2>1. CASE inv[r] = i
    <3>1. /\ refundedAmount'[i] = newRefunded[r]
          /\ returned'[i] = returned[i] + amount[r]
      BY <1>a, <1>1, <2>1 DEF RecordRefund, TypeOK
    <3>2. /\ newRefunded[r] = refundedAmount[i] + amount[r]
          /\ amount[r] \in Int
          /\ status[i] = "PAID"
      BY <1>a, <1>1, <2>1 DEF RecordRefund, RefundsInv, TypeOK
    <3>3. QED
      BY <1>b, <3>1, <3>2
  <2>2. CASE inv[r] # i
    BY <1>a, <1>b, <1>1, <2>2 DEF RecordRefund, TypeOK
  <2>3. QED
    BY <2>1, <2>2
<1>2. ASSUME NEW r \in Request, SetPaid(r)
      PROVE  Goal
  BY <1>a, <1>b, <1>2 DEF SetPaid, TypeOK, history
<1>3. ASSUME NEW x \in Invoice, CreateInvoice(x)
      PROVE  Goal
  BY <1>a, <1>b, <1>3 DEF CreateInvoice, TypeOK, history
<1>4. ASSUME UNCHANGED <<status, refundedAmount, returned>>
      PROVE  Goal
  BY <1>b, <1>4
<1>5. ASSUME \/ \E r \in Request, x \in Invoice :
                  BeginPay(r, x) \/ FullRefund(r, x) \/ PartialRefund(r, x)
             \/ \E r \in Request : RecordPayment(r) \/ Fail(r)
             \/ UNCHANGED vars
      PROVE  UNCHANGED <<status, refundedAmount, returned>>
  BY <1>5 DEF BeginPay, FullRefund, PartialRefund, BeginRefund, RecordPayment, Fail, vars,
              rows, history
<1> HIDE DEF Goal
<1>6. Goal
  BY <1>1, <1>2, <1>3, <1>4, <1>5 DEF Next
<1>7. QED
  BY <1>6 DEF Goal

\* Every step moves refundedAmount by what it gives back, and none makes a full refund a
\* partial one, unless two refunds of the invoice overlapped.
THEOREM RefundsAreKept == Spec => RefundsStand
<1>1. InvoicesInv /\ [Next]_vars =>
        [\A i \in Invoice : i \notin doubleRefund =>
           /\ refundedAmount'[i] - refundedAmount[i] = returned'[i] - returned[i]
           /\ status[i] = "REFUNDED" => status'[i] \in {"REFUNDED", "PAID"}]_vars
  BY RefundsStandStep
<1>2. QED
  BY <1>1, InvoicesInvariant, PTL DEF Spec, RefundsStand
=============================================================================
