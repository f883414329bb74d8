\* One subscription and one change published while it is being opened.
SPECIFICATION StdioSpec
CONSTANTS
  Ids = {i1}
  Subs = {s1}
  NoSub = NoSub
  Publishers = {p1}
  MaxPublishes = 1
INVARIANTS
  AcknowledgementIsFirst
CHECK_DEADLOCK FALSE
