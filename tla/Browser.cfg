SPECIFICATION BrowserSpec
CONSTANTS
  Token = {t1, t2, t3}
  User = {u1}
  Request = {a, b}
  NoToken = NoToken
  NoUser = NoUser
INVARIANTS
  SessionLostForACause
  LogoutEndsTheSession
  ReuseHasACause
SYMMETRY Symmetry
VIEW View
