---------------------------- MODULE MCGoalDriver -----------------------------
(* The driver on its own, under callers that advance it with any result at  *)
(* any time: every budget up to a ceiling of six, and one above it.         *)
EXTENDS GoalDriver

CONSTANTS t1, t2

=============================================================================
