---------------------------- MODULE MCGoalRuntime ----------------------------
(* GoalRuntime for TLC.  Each configuration chooses the commands the client *)
(* may issue, how many of them at once, and which failures may happen; the  *)
(* callers are interchangeable.                                             *)
EXTENDS GoalRuntime, TLC

Symmetry == Permutations(Callers)
=============================================================================
