\* One event, delivered twice.
SPECIFICATION LedgerSpec
CONSTANTS
  Event = {e1}
  Delivery = {d1, d2}
  NoEvent = NoEvent
INVARIANTS
  AckedEventIsApplied
