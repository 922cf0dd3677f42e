------------------------------ MODULE MCSessions ------------------------------
(* Small instances of Sessions. *)
EXTENDS Sessions, TLC

\* Tokens, accounts and request slots are interchangeable.
Symmetry == Permutations(Token) \cup Permutations(User) \cup Permutations(Request)
=============================================================================
