\* The requests of two e-mails, and two runs of the seed.
SPECIFICATION SeedSpec
CONSTANTS
  demoUser = demoUser
  client = client
  house = house
  acme = acme
  other = other
  Email = {demoUser, client}
  Org = {house, acme, other}
  NoOrg = NoOrg
  NoOne = NoOne
  Secret = {k1, k2}
  NoSecret = NoSecret
  Request = {r1, r2}
  Loads <- MCLoads
  Run = {s1, s2}
  House = house
  DemoEmail = demoUser
SYMMETRY Symmetry
CHECK_DEADLOCK FALSE
INVARIANTS
  OnboardingIsWhole
  AuthenticatorFits
  DemoDataIsWhole
