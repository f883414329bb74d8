\* Two calls of any kind, and one grant at a time that expired or is revoked.
SPECIFICATION Spec
CONSTANTS
  Calls = {a, b}
  Trouble = 1
SYMMETRY CallSymmetry
INVARIANTS
  SpentGrantIsLeaving
  DanglingIsLate
PROPERTIES
  WorkingGrantsAreKept
CHECK_DEADLOCK FALSE
