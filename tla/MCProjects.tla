------------------------------ MODULE MCProjects ------------------------------
(* A small instance of Projects.  The requests are interchangeable. *)
EXTENDS Projects, TLC

RequestSymmetry == Permutations(Request)
=============================================================================
