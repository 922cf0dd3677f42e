------------------------------- MODULE MCBrowser -------------------------------
(* Small instances of Browser. *)
EXTENDS Browser, TLC

\* Tokens, accounts and tabs are interchangeable.
Symmetry == Permutations(Token) \cup Permutations(User) \cup Permutations(Request)

\* Two states are the same if they differ only in what no step and no property tells
\* apart: the account of an access token that is not asked for at /users/me (that call
\* follows an answer that sets it), the reuses that had a cause, and whether a troubled
\* session was left.
View == <<active, status, owner, family, reqVars, ReuseHasACause, left \ troubled,
          [t \in Tab |-> IF call[t] \in {LoadMe, SignInMe} THEN access[t] ELSE NoUser],
          cookie, call, renewing, again, sent, wire, shown, parting, leaving, troubled>>
=============================================================================
