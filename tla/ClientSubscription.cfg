\* Two closers, two notifications in the queue, six frames.
SPECIFICATION FairSpec
CONSTANTS
  Closers = {c1, c2}
  Limit = 2
  MaxFrames = 6
INVARIANTS
  EndsAsItClosed
  NothingSkipped
PROPERTIES
  TerminalIsKept
  CloseReturns
  EndReaches
CHECK_DEADLOCK FALSE
