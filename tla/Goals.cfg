SPECIFICATION FairSpec
CONSTANTS
  MaxGoals = 1
  MaxTurns = 2
  MaxLine = 2
  MaxStream = 2
\* Every goal is over, or the connection has ended.
CHECK_DEADLOCK FALSE
INVARIANTS
  ReservedWhileLive
  OverWhenIdle
PROPERTIES
  OneLogicalTurn
  GoalsEnd
