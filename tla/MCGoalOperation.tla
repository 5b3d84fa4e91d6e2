-------------------------- MODULE MCGoalOperation --------------------------
EXTENDS GoalOperation
=============================================================================
