---------------------------- MODULE FamilyLifecycle ----------------------------
(***************************************************************************)
(* What a rotation family promises, seen from outside the handlers: it is  *)
(* opened by a login, it may gain tokens while it is open, and once it is  *)
(* sealed - no token of it is usable and no rotation of it is under way -  *)
(* it stays sealed and never gains a token again.  One step of the server  *)
(* may seal several families (a deactivated account has many).             *)
(***************************************************************************)
CONSTANTS
  Family,  \* the names of the families
  Token    \* the tokens that can be issued

VARIABLES
  phase,   \* phase[f]: "unborn", "open" or "sealed"
  members  \* members[f]: the tokens ever issued in f

vars == <<phase, members>>

Init ==
  /\ phase   = [f \in Family |-> "unborn"]
  /\ members = [f \in Family |-> {}]

\* The family keeps its tokens and may be sealed.
Keep(f) ==
  /\ members'[f] = members[f]
  /\ phase'[f] \in {phase[f], "sealed"}
  /\ phase[f] = "unborn" => phase'[f] = "unborn"

\* A login, or an exchange of one of its tokens, adds one token.
Grow(f) ==
  /\ phase[f] \in {"unborn", "open"}
  /\ \E t \in Token \ members[f] : members'[f] = members[f] \cup {t}
  /\ phase'[f] \in {"open", "sealed"}

Next ==
  /\ phase'   \in [Family -> {"unborn", "open", "sealed"}]
  /\ members' \in [Family -> SUBSET Token]
  /\ \A f \in Family : Keep(f) \/ Grow(f)

Spec == Init /\ [][Next]_vars
=============================================================================
