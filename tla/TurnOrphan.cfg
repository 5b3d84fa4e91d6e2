SPECIFICATION Spec
CONSTANTS
  h1 = h1
  h2 = h2
  t1 = t1
  t2 = t2
  Threads = {th}
  Turns = {a}
  Items = {i}
  Streams = {h1, h2}
  Starts = {t1, t2}
  MaxPendingTurns = 1
  MaxPendingEvents = 1
  MaxEvents = 2
  MaxWaiters = 1
  MaxConnections = 2
SYMMETRY Symmetry
\* The server may fall silent and every caller may be done.
CHECK_DEADLOCK FALSE
INVARIANTS
  ReadersFailOnDisconnect
