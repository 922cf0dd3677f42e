\* A paid invoice of which the total was refunded accepts neither call: the end.
CHECK_DEADLOCK FALSE
\* Two refunds of one paid invoice overlap.
SPECIFICATION Spec
CONSTANTS
  Invoice = {i1}
  Request = {r1, r2}
  NoInvoice = NoInvoice
  Total = 2
  Lowest = 1
  MaxPayments = 2
INVARIANTS
  RefundsWithinTotal
