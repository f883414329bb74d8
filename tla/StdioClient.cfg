\* Two requests, each of which may be cancelled.
SPECIFICATION FairSpec
CONSTANTS
  Requests = {r1, r2}
PROPERTIES
  ClosesIfWritesReturn
  ScopeCloses
CHECK_DEADLOCK FALSE
