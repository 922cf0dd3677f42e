-------------------------------- MODULE MCSeed --------------------------------
(* A small instance of Seed and of Accounts: onboarding, the second factor, and    *)
(* the seed beside a signup.                                                       *)
EXTENDS Seed, TLC
CONSTANTS demoUser, client, house, acme, other
MCLoads == {{"signup", "oauth", "invite"}, {"oauth", "factor"}, {"signup", "seed"}}
Symmetry == Permutations(Request) \cup Permutations(Run) \cup Permutations(Secret)
=============================================================================
