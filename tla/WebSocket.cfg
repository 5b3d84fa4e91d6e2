SPECIFICATION FairSpec
CONSTANT
  MaxSends = 3
\* The peer is closed or the connect has thrown.
CHECK_DEADLOCK FALSE
INVARIANTS
  NoSocketLeft
  PeerLearns
PROPERTIES
  CallsEnd
