\* A paid invoice of which the total was refunded accepts neither call: the end.
CHECK_DEADLOCK FALSE
SPECIFICATION Spec
CONSTANTS
  Invoice = {i1}
  Request = {r1, r2, r3}
  NoInvoice = NoInvoice
  Total = 2
  Lowest = 1
  MaxPayments = 3
INVARIANTS
  StatusIsBacked
  ExtraChargeNeedsARace
  RefundLostOnlyByRace
PROPERTIES
  RefundsStand
