\* Two requests, calls or listings, of a tool whose schema has two versions.
SPECIFICATION Spec
CONSTANTS
  Requests = {r1, r2}
  MaxSchema = 2
SYMMETRY RequestSymmetry
INVARIANTS
  RunsAtMostOnce
  CatalogIsWhole
  MismatchIsExplained
  OneTerminal
CHECK_DEADLOCK FALSE
