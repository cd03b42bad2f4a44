--------------------------- MODULE MCSessionStore ---------------------------
(* One session more than the store can hold, and runs that are alike.       *)
EXTENDS SessionStore, TLC

Symmetry == Permutations(Runs)
=============================================================================
