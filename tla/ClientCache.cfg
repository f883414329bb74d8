\* Three calls over two pages, one change, room for one page.
SPECIFICATION CacheSpec
CONSTANTS
  Requests = {r1, r2, r3}
  Tokens = {r1, r2, r3}
  First = First
  Capacity = 1
  Changes = {c1}
SYMMETRY CallSymmetry
INVARIANTS
  StaleIsExplained
  PagesAgree
PROPERTIES
  HitsAreCurrent
CHECK_DEADLOCK FALSE
