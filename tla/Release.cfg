CONSTANTS
  VersionOf <- MCVersionOf
  MaxBuilds = 2
  Candidates = {c1}
  Publications = {p1}
  MaxReads = 3
  MaxReruns = 1
SPECIFICATION FairSpec
INVARIANTS EvidenceTrue PublishedAsClaimed ReceiptTrue
PROPERTIES NoDowngrade RunsEnd
\* Everything may be published.
CHECK_DEADLOCK FALSE
