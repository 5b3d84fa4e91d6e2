SPECIFICATION FairSpec
CONSTANTS
  c1 = c1
  c2 = c2
  c3 = c3
  Callers = {c1, c2}
  MaxAttempts = 2
  MaxCloses = 2
  Delays = {"open", "write"}
\* Every call of connect and close has been made and answered.
CHECK_DEADLOCK FALSE
INVARIANTS
  ServersOwned
  ConnectedIsLive
  PromptConnectRejects
PROPERTIES
  CallsEnd
