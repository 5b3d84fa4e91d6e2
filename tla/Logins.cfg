SPECIFICATION Spec
CONSTANTS
  l1 = l1
  l2 = l2
  l3 = l3
  w1 = w1
  w2 = w2
  NoLogin = NoLogin
  Logins = {l1, l2, l3}
  Waits = {w1, w2}
  MaxCompleted = 2
  MaxEras = 2
  MaxLog = 4
SYMMETRY Symmetry
INVARIANTS
  NoWaiterForgotten
  ResolvedInItsConnection
  RecentKept
