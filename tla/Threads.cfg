SPECIFICATION FairSpec
CONSTANTS
  t1 = t1
  u1 = u1
  u2 = u2
  g1 = g1
  Threads = {t1}
  TurnUsers = {u1, u2}
  Retrying = {u1}
  GoalUsers = {g1}
  HandlerUsers = {u2}
  MaxAttempts = 2
  Nothing = Nothing
\* Every user is done.
CHECK_DEADLOCK FALSE
INVARIANTS
  TailsExact
  GoalExcludesTurns
  ExecutedOnce
PROPERTIES
  MutexSpec
  StartsSettle
  HandlersGoOn
  ResultsSettle
