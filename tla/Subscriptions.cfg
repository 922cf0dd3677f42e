SPECIFICATION FairSpec
CONSTANTS
  failed1 = failed1
  renewed1 = renewed1
  sub1 = sub1
  Event <- MCEvent
  Subscription <- MCSubscription
  Kind <- MCKind
  Subject <- MCSubject
  Delivery = {d1, d2}
  NoEvent = NoEvent
  Pass = {p1, p2}
  Page = {g1}
  MaxDunning = 4
  MaxDeaths = 1
INVARIANTS
  LossOnlyByFailure
  DunningBounded
  AttemptsAccounted
PROPERTIES
  EffectAtMostOnce
  LedgerIsFinal
  DunningWindsDown
  DunningRunsItsCourse
