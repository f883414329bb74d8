\* Three listen requests over one id or two, two publishers, two changes.
SPECIFICATION StdioSpec
CONSTANTS
  Ids = {i1, i2}
  Subs = {s1, s2, s3}
  NoSub = NoSub
  Publishers = {p1, p2}
  MaxPublishes = 2
INVARIANTS
  SinksAreOwned
  AcknowledgedThenCompleted
SYMMETRY Symmetry
CHECK_DEADLOCK FALSE
