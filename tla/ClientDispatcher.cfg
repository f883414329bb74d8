\* Two calls contending for one id, a queue of one, three frames.
SPECIFICATION Spec
CONSTANTS
  Ids = {i1}
  Owners = {o1, o2}
  NoOwner = NoOwner
  Capacity = 1
  MaxFrames = 3
SYMMETRY CallSymmetry
INVARIANTS
  EndsExactlyOnce
  StreamIsWhole
  NobodyIsStuck
CHECK_DEADLOCK FALSE
