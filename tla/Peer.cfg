SPECIFICATION FairSpec
CONSTANTS
  r1 = r1
  r2 = r2
  n1 = n1
  s1 = s1
  h1 = h1
  h2 = h2
  Requests = {r1, r2}
  Notices = {n1}
  ServerRequests = {s1}
  Handlers = {h1, h2}
  MaxNotifications = 3
  MaxTraffic = 3
  Nothing = Nothing
\* Every message has been sent and the peer is closed.
CHECK_DEADLOCK FALSE
INVARIANTS
  NoRequestForgotten
  WritesInOrder
  OneAnswer
  InTransportOrder
PROPERTIES
  QuietAfterClose
  WritesEnd
  NotificationsEnd
