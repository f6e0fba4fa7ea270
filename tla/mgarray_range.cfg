SPECIFICATION Spec
CONSTANTS
  Word = 64
  Geometries <- TestOnly
INVARIANT EntriesInRange
CHECK_DEADLOCK FALSE
