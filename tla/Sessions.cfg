SPECIFICATION Spec
CONSTANTS
  Token = {t1, t2, t3}
  User = {u1, u2}
  Request = {r1, r2}
  NoToken = NoToken
  NoUser = NoUser
INVARIANTS
  ExchangedIsRevoked
  FamilyIsLineage
  OneLiveTokenPerFamily
  ReuseKillsSerialFamily
PROPERTIES
  FamilyLifecycleHolds
SYMMETRY Symmetry
