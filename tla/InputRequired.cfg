\* Two calls in flight and three tokens, a store of one or two entries, and a clock that
\* jumps between two times.
SPECIFICATION FairSpec
CONSTANTS
  Calls = {c1, c2}
  Principals = {p, q}
  MaxRounds = 1
  MaxPerRound = 1
  MaxConcurrency = 1
  TimeToLive = 1
  Capacities = {1, 2}
  MaxTime = 1
  MaxTokens = 3
  MaxBegins = 1
  MaxAsked = 2
INVARIANTS
  OpenedOnce
  RefusalsAreTrue
  ReplayIsAnothers
PROPERTIES
  CallsEnd
CHECK_DEADLOCK FALSE
